# Verification of tsdhn

tsdhn runs tsunami simulations for researchers: a web application records a
request, a compute API queues it, a worker runs hours of numerics and stores the
result. This directory holds TLA+ models of the parts of that system whose
correctness depends on the order in which things happen or on a table no test
reads, the TLC configurations that check them on small instances, and TLAPS
proofs of the main properties for instances of every size.

All source paths are relative to the repository root (`src/` here).

## 1. The system

### Components, state and operations

| Part | State | Operations | Where |
| --- | --- | --- | --- |
| Repository | the `compute.jobs` row: status, `owner_attempt`, progress, error, time stamps, output manifest | `create_or_get_job`, `mark_started`, `record_progress`, `record_failure`, `complete_job`, `reconcile_terminal_jobs`, `mark_outputs_expired` | `packages/api/api/core/repository.py` |
| Task queue | the `task_queue.jobs` row: state, attempt, ceiling, lease, finish time | enqueue, lease, heartbeat, settle, recover, retry, cancel, purge | rqueue, a library outside the repository |
| Simulation task | a coroutine, a kernel thread and an upload thread per delivery | `run_simulation_task` and its helpers | `packages/api/api/core/tasks.py` |
| Workspace lock | a directory, a lock file, an `flock`, a claim with two shares | `claim_workspace`, `WorkspaceClaim.release`, the drain task, `remove_workspace` | `packages/api/api/core/tasks.py` |
| Maintenance | nothing of its own | sweep, reconcile, purge, expiry | `packages/api/api/core/tasks.py`, `worker.py` |
| Object storage | the result's objects | upload, list, delete, presign | `packages/api/api/core/storage.py` |
| HTTP API | event streams | job creation, status, outputs, server-sent events | `packages/api/api/routes.py` |
| Web application | the `simulations` row, the browser's stream | submission, retry, following a job | `apps/web/src/lib` |
| Database roles | grants, row policies, the record of provisioned roles | `migrate`, `queue_grants`, `web_grants` | `packages/api/api` |
| Pipeline | files and markers in the workspace | prepare, steps, resume | `packages/tsdhn/tsdhn/engine.py`, `pipeline/`, `utils/` |
| Tsunami solver | six swapped buffers, a checkpoint, two result files | `run_tsunami` | `packages/tsdhn/tsdhn/tsunami.py` |
| Model assets | the installed data set, a staging directory | install, validate | `packages/tsdhn/tsdhn/assets.py` |
| Travel-time solver | a grid of arrival times, a heap, a table of 120 directions | locate, seed, propagate | `packages/tsdhn-ttt` |

### Interactions

The web server saves its own row and calls the API, which inserts the compute row
and its queue row in one transaction. From then on the two rows live in different
schemas and no transaction spans them: a worker leases the queue row, and the
simulation task writes the compute row with statements fenced on
`owner_attempt`, the attempt number its lease gave it. rqueue then records the
outcome of the handler. What one of the two writes without the other is repaired
by the reconciliation pass. The kernel runs on a thread nobody can stop; it reports
progress by scheduling a write on the event loop and waiting for it. The workspace
survives an attempt so that the next one can resume, and the lock keeps two
attempts from using it at once. Every statement that changes the row notifies the
event streams; the browser follows one through the web server. Retention deletes
old queue rows through a database role that may delete only under a finished
compute row, and old results object by object.

### What is hard

* Deliveries overlap: an attempt that lost its lease runs on until a refused
  write, a cancellation or the end of its process stops it, and its threads
  outlive its coroutine.
* A commit can succeed and its acknowledgement be lost; a response can be lost
  after the work was done.
* A worker can die between any two writes; on the last attempt nobody is left to
  report. What it leaves on disk is resumed, by this or by another version.
* Reconciliation, purge and expiry read one place and write another later.
* Operators retry finished jobs, edit roles and bring up stacks while all of this
  is under way.
* Opening, locking and unlinking a lock file are three system calls; installing a
  data set is many.
* A notification before LISTEN reaches nobody; a connection can go silent.
* numba runs the solver's row loops in parallel over shared buffers; the
  travel-time kernel reads a hand-kept table without bounds checks.

### What makes each part correct

* Repository and queue: the stores never contradict each other for good, no
  straggler takes or finishes a row it does not own, every job ends.
* Workspace: one kernel at a time, no lock given back early, twice or never.
* Retention: what is deleted is never needed again, what is expired is gone.
* Event stream: a watcher sees the last status and never an older one.
* Web submission: one simulation is one job and one task, with its own input.
* Roles and migrations: every role has what it is promised and nothing more of what
  the program manages; migrations run once, in order; in the end the web may use its
  tables.
* Pipeline and solver: a resumed run gives the files a fresh run would have given.
* Assets: a data set that passes validation is whole.
* Travel times: the heap is a heap, the table is the interpolation it tabulates, and
  the times are those of a wavefront.

## 2. Modules

| Module | Models | Extends |
| --- | --- | --- |
| `Repository` | the compute row and the guard and effect of each statement | |
| `TaskQueue` | the queue row and the transitions the code relies on (external) | |
| `JobSystem` | producer, deliveries, kernel and upload threads, operators, faults, reconciliation, purge | both |
| `JobTransitions` | abstract specification: the transition table of `docs/jobs.md` | |
| `ClaimProtocol` | abstract specification: one holder of a workspace, kernels only inside a claim | |
| `Workspace` | lock file, claim, shares, drain, kernel guard, removers, at the level of system calls | |
| `OutputRetention` | objects, manifest and stamp of several jobs; uploads, expiry passes, readers | `Repository` |
| `EventStream` | `job_events`, LISTEN/NOTIFY, the relay, `followJob` and the page | |
| `JobWatcher` | abstract specification: a page that looks at a row which changes | |
| `Submission` | form and retry actions, `submitSimulation`, `create_or_get_job` | |
| `Pipeline` | the engine over one workspace, killed and resumed, in several versions | |
| `TsunamiSolver` | `run_tsunami` cell by cell, with checkpoints and crashes | |
| `RoleProvisioning` | `provision_queue_roles`: one transaction, and an operator beside it | |
| `Deployment` | compute migrations, web role, web migrations (external) and web grants of several stacks | |
| `ModelAssets` | `install` at the level of files and inodes, by several processes | |
| `Stencil` | the table of `_stencil.py` and the integral it tabulates | |
| `WaveQueue` | the heap of `solver.py`: sifting up and down, insertion, removal of the first | |
| `TravelTimes` | `locate_source`, both seedings and the propagation of `solver.py` | `Stencil`, `WaveQueue` |
| `*Proofs` | theorems about the module of that name | that module, `TLAPS` |
| `WebProofs` | theorems about what the browser and the form see | `Submission`, `EventStream`, `TLAPS` |
| `InstallationProofs` | theorems about what is installed on a host | `ModelAssets`, `Deployment`, `TLAPS` |
| `SolverProofs` | theorems about the two solvers | `TsunamiSolver`, `TravelTimes`, `TLAPS` |
| `MC*` | instances for TLC | the module of that name |

### JobSystem

Every statement of the repository is keyed by one job and commits alone, so one
simulation is modelled. A delivery is named by its attempt number `n`.

* `pc[n]` is the coroutine of `run_simulation_task`: `fetch` (up to
  `mark_started`), `refused` (`_stand_down`), `claim` (the workspace), `kernel`,
  `upload` and `record` (`complete_job`), `cleanup`, `fail` (`_record_failure`),
  `report` (the outcome is rqueue's to record), `ended`.
* `thread[n]` is the kernel thread, then the upload thread. `progress` is the
  kernel blocked on its scheduled write. A cancelled coroutine leaves a started
  thread behind; a queued one never starts.
* `outcome[n]` is what the handler returned or raised; `budget[n]` is the ceiling
  in its `TaskContext`, which decides `will_retry`.
* A write that commits can still be reported as lost (`MarkStarted`,
  `CompleteJob`, `WriteProgress`), and any statement can fail with a transient or
  a permanent error.
* `ReconcileRead` and `ReconcileWrite` are the two halves of one statement:
  `gave_up` is read at its start, the guard is evaluated again under the row lock.
* `PurgeSelect` and `PurgeDelete` are two connections; the second runs under the
  purger's row policy (`MayPurge`).
* `queue.age` stands for the time since the queue row finished: `fresh`, past
  `RECONCILE_GRACE`, past `JOB_RETENTION`.

Left out: texts, progress columns and time stamps (no statement is guarded by
them), backoff delays (a retry is at once claimable, which only adds orders),
malformed payloads (they fail before the first write, as `StartFails`).

One timing assumption is built in, in `PassRetention`: a delivery that has not
yet reached `mark_started` is not still on its way when `JOB_RETENTION`, seven
days, has passed since its queue row finished. Without it a delivery could
reopen a row whose queue row was purged, with nothing left to reconcile it.

### Workspace

`holder` maps lock-file inodes to who holds their `flock`; `path` is the inode the
lock path names, if any; `created` counts the inodes; `fd` is each actor's
descriptor. `opener` is `claim_workspace` in its thread, `co` the coroutine,
`kernel` the work item of `run_kernel_if_not_cancelled`, `cancelled` its flag,
`shares` the claim's count, `due` the releases the coroutine has still to make,
`drain` the detached task. `Remove(r)` is one call of `remove_workspace`, by the
completion path or by the sweep, at any time: the query that picks the sweep's jobs
is left out, which only adds behaviours.

In `JobSystem` the claim is one atomic step and the removers do not appear;
`Workspace` opens that step up. What the two share is `ClaimProtocol`: a party takes a
free workspace, its kernel enters and leaves, and the party lets go when nobody of its
own is inside. `Workspace` implements it for each lock file (`Lock(i)`: the holder of
the flock, the kernels whose descriptor is of that inode) and `JobSystem` for each host
(`Claim(h)`: the deliveries that hold the workspace, the threads in it). A running kernel
without a descriptor counts as inside on every lock file, so that losing it early cannot
go unseen. What the refinement does not give is one workspace for one lock file: after
an unlink a path can name a second inode (the violated run below).

### OutputRetention, EventStream, Submission

`OutputRetention` uses the rows and statements of `Repository` for several jobs. An
upload thread puts its keys one by one (`upload`), whatever became of its coroutine;
a pass lists a batch, lists the keys of one job, deletes them one by one, then
stamps the row and empties the manifest in one statement; readers ask in between.
`old` is a job whose `finished_at` is before the cutoff. Nothing is assumed about
uploads then: an upload thread of a superseded attempt may still put keys while a pass
works on the job and after it. Two passes may work on one job, and one may die. `late`
is a history variable: the keys put after a pass had listed the job's. `gone` is what
readers were told: the jobs for which they were answered 410.

`EventStream` has the row as a status and a revision, one generator per request
(`stream`), the frames under way (`frames`) and the page (`page`: `followJob` with
its retry budget, and the effect around it). A generator whose client has left
notices only when it next sends. `late` is a stream past `SSE_MAX_DURATION`. All of this
implements `JobWatcher`, with `shown <- page.shown` and `Watch` for the reason a page
stopped: it shows revisions of the row in order, the last of them as it is, and stops on
a finished one, with a notice that the stream is lost, or because the page was left.
The notice comes with a button, "Reintentar", that follows the job again
(`RetriesByHand`; `Retry` of the watcher); nothing is assumed about its being pressed.

`Submission` splits `create_or_get_job` into insert, enqueue and commit, with the
row lock of the conflicting insert (`writer`), and the web server's calls into the
request, the lost or late answer, and what is recorded of it.

### Pipeline and TsunamiSolver

`Pipeline` keeps of a file what it was made from: the versions whose code is in it
and whether it is whole. `Registry` is the table of `pipeline/registry.py` with what
each step reads. A plain write tears the file first; `atomic_write` does not.
`BeginStep` reads the inputs, or the checkpoint when it is of this version.
`cut` and `mixed` are history variables: a run was killed while it emptied what the
workspace still holds; an earlier version ran over a later one's files. Two things
are not claimed once they are set (see the end of section 3), and the properties
say so in `Vouched`.

`TsunamiSolver` runs the loops of one time step cell by cell in any order, the
boundary passes, sampling, swap, checkpoint and result files. Numbers are integers
wrapped into a small range in place of float32: the question is whether every run
applies the same operations to the same operands, not how accurate they are. The
reference is a sequential, uninterrupted run: a function on the steps, each of whose
values is the one before after all loops of a step.

### RoleProvisioning and Deployment

`RoleProvisioning` has the catalog (`db`) and the open transaction's view of it
(`tx`): load the record, check the names, retire what the configuration no longer
names, provision three kinds, save, commit. An operator may grant and revoke, create
and drop roles at any step. A role's privileges are of two sorts: those a run replaces
or revokes (the queue's tables, `compute.jobs` and its schema, attributes and
memberships, default ACLs that are global or of a managed schema) and those no run takes
from a role that stays (`Survives`: other objects, default ACLs of other schemas or of
unlisted object types, and EXECUTE on `compute_purger_can_delete`, which is granted and
never revoked). `drifted` and `unseen` are history variables for roles edited by hand
since, and for names whose origin the module cannot know.

`Deployment` takes several Compose stacks through lock, migration files, commit, web
migrations and grants; any command may fail and roll back, and a stack is then brought
up from the start.

### ModelAssets

A directory is an inode that an open file or a running `rmtree` follows when it is
renamed. `overlapped` is a history variable: two installers have run at once. Two
installers can rename or remove each other's staging directory, and what each then
reports is its own luck; what is checked is that a data set that passes
`validate_model_dir` is whole. A forced reinstall that is killed half way through the
removal of the old data set leaves a directory that only another `--force` repairs.
The archive has the data set at its top level, as that of the default release has.
`_find_model_root` (`assets.py:171`) also accepts a single nested directory and a
`manifest.json` that names the root; an archive given by `--url` may have either, and
what is then renamed is a directory inside the staging directory. These are not
modelled.

### Stencil, WaveQueue and TravelTimes

`_stencil.py` lists 120 rows. They come in octets, each the reflections of its first
row; `Stencil` transcribes the 16 first rows, generates the other 104 by reflection, and
compares every weight with the integral of the linear interpolation along the segment.
What `StencilSound` says of the file is therefore about its first rows: a slip in one of
the 104 others would not be seen. `WaveQueue` has the heap
array, the position of each node in it and the key of each node, which `solver.py`
keeps in three arrays; land, unreached and settled nodes carry sentinels below every
time. A loop of the code, sifting included, is a function on the turns of the loop.
`TravelTimes` is a sequential program: the first state chooses grid, epicenter and
mode, one step settles one node. Positions are quarters of a cell, so that `round()` meets its ties;
times are integers, whose division is monotone as floating-point rounding is.

## 3. Runs

| Run | Checks | Instance |
| --- | --- | --- |
| `job_system` | `TypeOK`, `SucceededMeansCompleted`, `FinishedFieldsAgree`, `CompletedHasOutputs`, `LiveAttemptOwnsRow`, `PurgedMeansFinished`, `ReconciledNeedsOperator`, `ImplementsTransitions`, `EventuallySettles` | two deliveries, a budget of two, one operator retry, one reconciler |
| `workspace` | `KernelHoldsItsLock`, `SharesCovered`, `OneLockFileExcludes`, `ImplementsClaim`, `ClaimsAreReleased` | three deliveries and the sweep, two inodes |
| `workspace_race` | `KernelsExclusive`: violated | two deliveries and the sweep |
| `output_retention` | `DanglingIsExpirable`, `ExpiredMeansGone`, `GoneIsFinal`, `EventuallyExpired` | two jobs, three deliveries in all, two passes with a batch of one, one death of a pass, a reader |
| `event_stream` | `ImplementsWatcher`, `ShownNeverGoesBack`, `FinalStatusShown`, `ConnectionsReleased` | two requests, three revisions, a fault, a retry, retries by hand, a job that runs again |
| `submission` | `OneTaskPerJob`, `AcceptedInput` | the form, two retries, a stranger with the id |
| `pipeline` | `ResultIsFresh`, `InputsAreFresh` | four steps of every kind, two versions, four runs |
| `tsunami_solver` | `MatchesReference`, `EventuallyWritten` | 4 by 5 cells, four steps, two crashes |
| `role_provisioning` | `RecordedRolesExact`, `GrantsAreRecorded`, `UnmanagedUntouched` | four names, three runs, two edits by hand, of eight privileges |
| `deployment` | `AppliedOnceInOrder`, `EventuallyGranted` | an old and a new release, two failures, two updates |
| `travel_times` | `StencilSound`, `QueueConsistent`, `SourceIsSeeded`, `ReachesConnectedWater`, `TimesAreArrivals` | all 120 directions; every bathymetry of land and two depths on 3 by 3 nodes; every coastline with epicenters at every quarter of a cell, on and off the grid |
| `model_assets` | `ValidIsWhole`, `InstallRecovers` | three files, two installers, four installs, two stops |

Each property is stated in words above its definition, with the code it is about.
The ones that need several actors to go wrong:

* `LiveAttemptOwnsRow`: no straggler and no stale pass takes or finishes the row
  of the working lease holder. `ReconciledNeedsOperator`: a wedged attempt cannot
  reopen a reconciled row. `PurgedMeansFinished`: retention never strands a row.
* `ImplementsTransitions`: refinement of the documented table (`JobTransitions`), with
  `status <- job.status`, `owner <- job.owner`.
* `EventuallySettles`: a submitted job ends in a finished state it keeps.
* `ImplementsClaim`: wherever cancellations and crashes fall between the system calls,
  what happens to each lock file is a step of `ClaimProtocol` or none.
* `OneLockFileExcludes`: until an unlinked lock file is created anew, one kernel runs.
* `DanglingIsExpirable`: whatever uploads and passes race and die, a manifest that
  points at nothing belongs to a job the next pass takes. `ExpiredMeansGone`: two passes
  on one job, either of which may die, leave nothing but what an upload put behind
  their listing.
* `ImplementsWatcher`: the frames of an abandoned request never reach the screen as a
  state the row had not, nor after the page has stopped, and no page stops silently.
* `FinalStatusShown`: although a change between the first read and LISTEN is notified
  to nobody and streams end, break and are refused, the page shows the last status or
  says that it lost the stream.
* `ResultIsFresh`: a run returns what a run in an empty workspace would have.
* `RecordedRolesExact`: whatever earlier configurations, failed runs and operators left
  on the roles it records, a run gives each all it is promised and takes away all else
  that it manages.
* `TimesAreArrivals`: waiting for a stencil of 120 directions and blocking by settled
  nodes never leaves a time worse than a neighbour's step.

### Bounds

Two deliveries give `job_system` a straggler and its successor; the successor comes by
redelivery within the budget or by the operator, who raises the ceiling. More
deliveries bring longer chains of the same pairs, and the theorems do not depend on
the bound. In `workspace` two inodes are the unlinked one and its successor, and the
third delivery is the one that meets two others. Two jobs and a batch of one make the
expiry pass list again; two passes meet on one job; three deliveries (`MaxStarts`) let
one job complete through its second attempt while the first still uploads and the other
job expires. The eight privileges an operator edits (`Editable`) have one of each sort
that a statement treats alike. Two requests are the one a page abandoned and the one it
opened instead; three revisions are a start, an end and a second run. Four runs of two
versions allow a run, a killed later one, and two resumes after it; the four steps of
`MCPipeline` include a multi-file atomic step, the checkpointed one and one that
writes in place over their results. Four names for three roles allow a renaming and
a swap. The solver's grid has interior, edge and corner cells, land and a shallow
cell, and its checkpoint falls between two samples. Nine nodes make the longest
directions of the stencil leave the grid: the table itself is checked apart, in full.
Three files let an archive be half extracted with one file open.

Deadlock checking is off where the system rightly stops: a settled job, a finished
deployment, used-up bounds. `travel_times` keeps it on.

### Fairness

* `job_system`: weak fairness of leasing (workers poll), of the coroutine (the event
  loop runs what is ready and every statement returns or raises) and of the kernel
  thread; strong fairness of the kernel's end, because a simulation has finitely many
  steps and so finitely many progress writes; weak fairness of the expiry of a dead
  holder's lease and of the grace period's passing; weak fairness of the start of the
  reconciliation pass and strong fairness of its write, because `_run_periodically`
  survives a failed pass and repeats it. Nothing is assumed of operators, crashes, the
  leases of live holders or retention.
* `workspace`: threads run, awaits return, the drain task is scheduled.
* `output_retention`: an expiry pass goes on and is started again every hour. Nothing
  is assumed of uploads or readers.
* `event_stream`: a generator that can go on does (keepalives are time-outs of the
  wait), and the browser delivers events and timers. Nothing is assumed of the
  deadline, so `FinalStatusShown` does not rest on it.
* `deployment`: a stack that is not up is brought up again.
* `tsunami_solver`: a killed step is run again; crashes are bounded.
* `model_assets`: a started installer runs on until it ends or is stopped.

### The violated run

`workspace_race`: a claim opens the lock file; a remover locks, unlinks and closes it;
the claim then locks an inode no path names; the next claim creates and
locks another one, and two kernels run in one workspace. The window is small and needs
a job that is terminal and redelivered at once. `docs/jobs.md:131` says that "the
workspace lock keeps the replacement from reading checkpoints the old thread is still
writing", and `remove_workspace` takes the lock before the unlink for that reason;
`claim_workspace` does not check that the path still names what it locked.

### Where code and documents part

Met while modelling. The models follow the code; the properties above are stated so
that they do not claim these.

* `docs/jobs.md:168` says a failed row is reclaimed only by an operator retry. When
  `record_failure` commits and the worker dies before rqueue settles, the redelivery is
  a newer attempt and `mark_started` lets it reclaim the row. If that delivery in turn
  loses its lease before `mark_started`, the row runs under a queue row that gave up
  until reconciliation: what the docstring of `mark_started` means to prevent.
* `docs/jobs.md:184` says the lock is held through the upload. Cancelling the coroutine
  during `complete_job` runs its `finally` (`tasks.py:350`), which gives back the last
  share while the upload thread still reads; the next attempt on the host may rewrite
  the files under it, and a result may be stored whose files are of two attempts.
* `remove_workspace` takes any failure of `os.open` (`tasks.py:236`) for the absence of
  a claim and removes the directory: under a shortage of descriptors it removes the
  workspace of a running kernel.
* The sweep lists terminal jobs once; a job reclaimed after the listing, whose attempt
  has not yet taken the lock, loses its workspace (`docs/jobs.md:184` says terminal only).
* `mark_outputs_expired` says "no reader is handed a key for a deleted object". The
  objects are deleted before, in another step: until the stamp, `get_outputs` hands out
  the keys. `DanglingIsExpirable` is what holds.
* `expire_old_outputs` lists a job's keys once (`storage.py`, `delete_simulation_outputs`)
  and nothing looks whether a superseded attempt still uploads. What such an upload puts
  behind the listing stays under an expired job for good: no manifest names it and no
  pass selects the job again (`late` in `OutputRetention`).
* `job-stream.ts:22` calls `failed` "a status that will not change"; a reclaimed job
  leaves it, and a page that stopped goes on showing the failure.
* `docs/jobs.md:43` says a successful retry clears the saved error. A retry that read the
  row before the first call's late failure was recorded clears nothing.
* `atomic_write` says a killed writer must not leave a truncated file the resume logic
  accepts. The rendering steps write in place, and a marker from an earlier completion
  survives while `rmtree` is cut short and while the step runs again: killed then, the
  step is skipped over a torn file (`cut` in `Pipeline`).
* `docs/pipeline.md:11` says a change of version reruns a stage. After a later version
  wrote the outputs and was killed before its marker, a rollback finds its own marker
  over them and skips (`mixed` in `Pipeline`).
* `queue_grants.py:379` recognizes its roles by rows of rqueue's grant table. A row
  outlives a role that is dropped by hand, so a role created later under that name is
  narrowed (`unseen` in `RoleProvisioning`).
* `docs/database.md:72` says that running the provisioning again "removes any grant or
  membership added by hand". Memberships and attributes go, and so do grants on the
  queue's tables and on `compute.jobs`. Grants on other tables, schemas and functions
  stay, and of the default ACLs those of another schema or of an object type that is not
  listed (`queue_grants.py:142`). `RecordedRolesExact` is what holds; `Outside` is what
  stays.
* `_grant_purger_delete_policy` (`queue_grants.py:264`) says its function "is granted
  only to this role". EXECUTE is revoked from PUBLIC alone: when a new configuration makes
  the purger's role the producer's or the worker's, that role keeps it.
* Every compute migration revokes the web role's table privileges, and they come back
  with `web_grants`, after the web migrations. The web server of the release before
  serves without them in between (`docs/database.md:22`); `EventuallyGranted` holds.
* `_seed_around_epicenter` (`solver.py:362`) says a seed "has an unobstructed segment from
  the epicenter". `_mean_slowness` takes two samples per cell height; from 60 degrees of
  latitude a cell is at most half as wide, so samples towards the east or west are a
  cell or more apart and can step over a column of land. `ReachesConnectedWater` is
  stated for the grids where they cannot (`SamplesTouch`).
* On a pixel-registered grid an epicenter on the northern edge can round to row -1,
  which numpy reads as the southernmost row (`solver.py:145`). Registration is a
  constant of `TravelTimes`; its run has a gridline-registered grid, and on the others
  the two properties of the source are stated for the epicenters that are found on the
  grid (`Located`).

## 4. Proofs

Each proof takes the assumption named in its component (`BoundsAssumption`,
`WorkspaceAssumption`, `SolverAssumption`, `GridAssumption`, ...) and nothing else; TLC
evaluates those on its instances. None of the invariants is inductive alone. For each
component an invariant (`IInv`, `WaveInv` for the wavefront) conjoins what they need, one
step lemma per action or group of actions preserves it, and the theorems follow. TLC
checked every part of every such invariant before it was proved. The type invariant of
every component is proved too; the solvers' are parts of their invariants.

| Module | Theorems | For every |
| --- | --- | --- |
| `JobSystemProofs` | `OwnerStaysBounded`, `FieldsStayConsistent`, `SuccessIsDurable`, `CompletionHasOutputs`, `LiveAttemptKeepsRow`, `WorkspaceStaysExclusive`, `PurgeIsSafe`, `ReconciledRowFrozen`, `Refinement` (of `JobTransitions`), `ClaimRefinement` (of `ClaimProtocol`, on each host) | number of deliveries, budget, retries, hosts, reconcilers |
| `WorkspaceProofs` | `SharesStayCovered`, `KernelKeepsItsLock`, `OneLockFileStaysExclusive`, `KernelsStayExclusive` (without removers), `ClaimRefinement` and `ClaimImplemented` (of `ClaimProtocol`, for each lock file), `ClaimExcludes` (what the protocol gives) | number of claimants, removers, inodes |
| `OutputRetentionProofs` | `DanglingStaysExpirable`, `ExpiryOrphansNothing`, `GoneStaysGone` | number of jobs, attempts, passes, readers, batch size |
| `WebProofs` | `SingleTask`, `OwnInputAccepted`; `NeverEndsSilently`, `ShownIsMonotonic`, `WatcherRefinement` (of `JobWatcher`) | number of calls and inputs; of requests, revisions, faults, retries |
| `PipelineProofs` | `InputsStayFresh`, `ResultsAreFresh` | order of registry steps that read what earlier ones wrote, versions, runs |
| `RoleProvisioningProofs` | `RecordedStayExact`, `GrantsStayRecorded`, `UnmanagedStayUntouched` | set of names, runs, edits |
| `InstallationProofs` | `InstalledIsWhole`; `MigrationsOnceInOrder` | number of files, installers, installs, stops; of stacks, releases, files, tables |
| `SolverProofs` | `Deterministic`; `WavefrontQueue`, `WavefrontTimes`, `WavefrontExtent`, `SourceStaysSeeded`, `WaterStaysConnected` | grid, bathymetry, number of steps, checkpoint interval, crashes; grid, bathymetry, epicenter, seeding |

The strengthenings, and why:

* `JobSystem`. `RowInv`: the row exists exactly when its queue row does, deliveries the
  queue has not made are idle, and a reconciler's snapshot is no newer than the queue
  row, strictly older while a lease is out; that is why a stale pass cannot overrule a
  live attempt. `DurableInv`: who will report success saw a completed row; who will
  record completion has uploaded. `WorkspaceInv`: a coroutine that holds the workspace
  has a thread. `PurgeInv`: after retention no delivery is before its claim.
  `ReconcileInv`: while no operator has retried, a reconciled row is stamped with the
  queue's last attempt, so no delivery is strictly newer.
* `Workspace`. `LockInv`: a share is left only where the flock is held. `HandOverInv`: a
  claim is with the coroutine, with the drain task or spent. `NamedInv`: while nothing
  unlinks the file every descriptor is of the inode the path names. `CreatedInv`: with
  one inode created every descriptor is of that one, so two holders would hold the same
  flock, removers or not.
* `OutputRetention`. `OldInv`: an old job is completed. `UploadInv`: what an upload has
  not still to put is stored, unless the job is old. `PassInv`: a pass that deletes knows
  every key that is left, except those put behind its listing (`late`); as passes only
  take keys away, this survives another pass on the same job. `AnswerInv`: 410 was
  answered for an expired job.
* `EventStream`. `FramesInv`: a request's frames are states of the row in order.
  `PageInv`: what a page has still to receive is no older than what it shows; a page
  that reopens starts on a request that has sent nothing. `CurrentInv`, for the watcher:
  a frame, or a screen, of the row's revision is the row, and a page that lost the
  stream follows nothing.
* `Submission`. `WriterInv`: the uncommitted row is that of the one open transaction and
  excludes a committed one. `SentInv`: the API knows nothing of a call before it is sent.
* `Pipeline`. `MarkerInv`: a marker of this version vouches for the files under it, and a
  checkpoint of this version for its content. `PassedInv`: the steps behind a run have
  both. `EmptiedInv`: a run that did not resume meets no marker. `StepInv`: outputs
  already written are what the step computed, and unless a removal was cut short the
  marker of the running step is not this version's, so a torn write is vouched for by
  nobody. `VersionInv`: while `mixed` is not set, no marker is of a later version. Three
  facts of the registry carry the rest: outputs are disjoint, each step reads what
  earlier ones wrote, and steps that write atomically read only atomic writes.
* `RoleProvisioning`. `RecordInv`: a role is recorded for one kind, and the record does
  not change before commit. `GrantInv`: who has grants, before and during a run.
  `OriginInv`: grants are of the module's own roles, and a run leaves alone what is
  neither configured nor recorded. `ExactInv`: what the transaction has provisioned is as
  promised, whatever survived on it, and locked until it commits.
* `Deployment`. `MigratingInv`: whoever migrates holds the lock and still sees what is
  recorded. `ReleaseInv`: what is recorded was recorded with all of some release, so no
  later stack can add a file before it.
* `ModelAssets`. `HoldInv`: the two paths lead to different inodes, and a directory is
  held only while it is removed or one of its files is open. `WriterInv`: a half-written
  file is the open file of its writer or was left by a stop. `AloneInv`: while no two
  installers have overlapped, the one that runs finds in the staging directory exactly
  what it has put there, so what it renames into place is whole.
* `TsunamiSolver`. `PlaceInv`: where a run is, and which cells the loop it is in has still
  to compute. `MemoryInv`: amid a step that began in the reference's state `k`, each
  buffer holds the finished value in the cells already done and the old one in the
  others; no cell of a loop reads what another cell of the same loop writes, which is
  why the order does not matter. `DiskInv`: a checkpoint is the reference's state at the
  step it names, so a resumed run continues the same sequence.
* `TravelTimes`. `MarkInv`: land is blocked, a node with its final time is settled, the
  rest is open. `QueueInv`: array, positions and keys describe one heap. `OrderInv`:
  nothing queued is before anything settled; a settled time is therefore final.
  `ArrivalInv`: every time, queued or settled, is a seed's or a settled node's plus the
  cost of a segment. `SeedInv` and `NeighbourInv`: a seed, and each near neighbour of a
  settled node, is queued or settled no later than it can be reached from there.
  `ConnectedInv`: every set of water that holds the seeds and is closed under adjacency
  holds every queued and every settled node. `SourceInv`: the node nearest to the
  epicenter is a seed, and the other seeds lie in the water connected to it.

The loops of the two solvers need induction, which the library offers only with a
predicate as a parameter. `SolverProofs` gets it for sets: `LeastNat` takes the least
member of a set of naturals from `WFMin`, `Induction` and `Turns` follow, and
`LoopHasRun` and `GuardedLoopHasRun` give a loop that stays within a set its function on
turns, with each turn's defining equation. What sifting does is then an invariant of its
turns: one node may be out of order with its parent (`RiseKeeps`) or with its children
(`SinkKeeps`), and at the end none is (`SiftUpSorts`, `SiftDownSorts`).

Which water is reached (`WavefrontExtent`) rests on three facts. The cells a direction of
the stencil weighs form a chain of adjacent nodes (`RowsChained`), so a segment that
meets no land stays in one body of water. A finished queue leaves a closed set, since
each adjacent node of a settled one is queued when that one is settled. And the
reference `Spread`, which grows a set `NX * NY` times, is closed by then, because each
round that is not yet the last adds a node (`NodesCounted`, `SpreadCloses`).

`SourceStaysSeeded` adds that the node nearest to the epicenter is a seed. In client mode
it is the one `locate_source` found. In the default mode the seeding measures the
distance from the exact position and rounds for itself; the nearest node is at most half
a cell away in each direction (`SourceDistance`), which is within a radius that spans a
cell (`RadiusCovers`) and in the window of rows and columns the code scans
(`SourceInWindow`). `WaterStaysConnected` adds that the other seeds lie in the same
water: where the samples of `_mean_slowness` are less than a cell apart (`SamplesTouch`,
`SamplesApart`), numbers less than a unit apart are rounded to one number or to
neighbours (`RoundStep`), and so the sampled nodes are a chain too. Both conditions are
part of the properties, in the form the run checks; its cells, 14, 17 and 20 wide and 20
high, meet them, so there they exclude nothing.

The two refinements of `ClaimProtocol` follow one pattern. A step of either model moves
one party (`LockMoves`, `ClaimMoves`), so on each lock file and each host the holders and
the kernels change by that party or not at all; the invariant decides which of the four
steps it is. It is needed for two of them: that a lock is taken only where nobody is, and
that a party which lets go has no kernel inside (`LockInv`; `WorkspaceInv`).
`ClaimExcludes` then proves exclusion from the protocol alone, without a word about
system calls.

Only model-checked:

* every liveness property (`EventuallySettles`, `ClaimsAreReleased`, `EventuallyExpired`,
  `FinalStatusShown`, `ConnectionsReleased`, `EventuallyWritten`, `EventuallyGranted`,
  `InstallRecovers`): fairness and ENABLED are out of the prover's reach;
* `StencilSound`: a closed formula about 120 rows, which TLC evaluates in full.

## 5. Plan

Done: everything in section 2. Next, in this order:

1. `JobSystem` with the lock files of `Workspace` in place of its atomic claim. The two
   now meet in `ClaimProtocol`; a joint model would also show what a job sees of the race
   of `workspace_race`.
2. `TravelTimes` on pixel-registered grids, with numpy's negative indices.

## 6. Not modelled

* Floating-point numerics: `calculator`, `fault_plane`, `deform`, the slope at the source
  and the constant bias factor of the travel-time result. They compute a value from a
  value; there is no state to explore, and integers would not show their errors.
* Rendering (`render/`): drawing.
* Archives of model assets whose data set is not at the top level (section 2).
* Client mode of the travel-time solver on pixel-registered grids: it can seed the padding
  and goes on with NaN arithmetic.
* The query that picks the sweep's jobs (the sweep may come at any time instead) and the
  worker's heartbeat file, which only container health checks read.
* The calculation preview, health checks and authentication of the API; the web's pages
  and its authentication library: requests that keep no state of their own.
* Connection pools and DSNs: configuration.
* The command line, a sequential front end to the pipeline; the preview stub; the parity
  harness; CI and operations scripts: tooling. The API client is generated.
* rqueue itself and the web's migrations (drizzle) are external: `TaskQueue` and
  `Deployment` state what the code relies on.
