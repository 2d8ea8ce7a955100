--------------------------- MODULE OutputRetention ---------------------------
(***************************************************************************)
(* The result files of completed simulations, from the upload of an        *)
(* attempt (upload_simulation_result in core/storage.py) to their deletion *)
(* by the hourly expiry pass (expire_old_outputs in core/tasks.py), and    *)
(* the readers that are handed keys in between (routes.py).                *)
(*                                                                         *)
(* Three stores can disagree: the objects under simulations/<id>/, the     *)
(* manifest in compute.jobs.outputs, and outputs_expired_at.  Every        *)
(* attempt of a simulation uploads to the same keys, an upload thread      *)
(* outlives its cancelled coroutine and may still be putting keys when the *)
(* job's outputs expire, passes of several workers may meet on one job,    *)
(* and a pass may die at any point.                                        *)
(***************************************************************************)
EXTENDS Repository, FiniteSets

CONSTANTS
  Jobs,          \* simulations
  NoJob,         \* no simulation
  Files,         \* result files of a run; every run of a job writes the same
  Metadata,      \* the key metadata.json
  MaxAttempt,    \* bound: deliveries per job
  MaxStarts,     \* bound: deliveries of all jobs together
  Passes,        \* worker processes with retention enabled
  Batch,         \* EXPIRY_BATCH
  Readers,       \* clients of the output routes
  MaxAborts      \* bound: passes that die or raise

Attempts == 1..MaxAttempt
Keys == Files \cup {Metadata}

ASSUME RetentionAssumption ==
  /\ MaxAttempt \in Nat \ {0}
  /\ MaxStarts \in Nat
  /\ Batch \in Nat \ {0}
  /\ MaxAborts \in Nat
  /\ NoJob \notin Jobs
  /\ Files # {} /\ Metadata \notin Files

VARIABLES
  row,        \* compute.jobs: the columns of Repository
  manifest,   \* compute.jobs.outputs: the keys it lists
  expired,    \* jobs whose outputs_expired_at is set
  old,        \* jobs whose finished_at is before the retention cutoff
  objects,    \* the keys stored for each job
  late,       \* history: those put after an expiry pass had listed the job's keys
  upload,     \* each attempt's upload thread: what it has still to put
  coroutine,  \* each attempt's coroutine in complete_job
  pass,       \* each expiry pass
  gone,       \* the jobs each reader was answered 410 for
  aborts      \* passes that died so far

vars == <<row, manifest, expired, old, objects, late, upload, coroutine, pass, gone, aborts>>
jobVars == <<row, manifest, expired, old>>
storeVars == <<objects, late>>
attemptVars == <<upload, coroutine>>

\* "todo" is what the pass has listed and not yet handled, "full" whether the
\* listing returned a whole batch, "names" the listed keys of "job".
PassStates ==
  [pc: {"idle", "working", "deleting", "marking"}, todo: SUBSET Jobs, full: BOOLEAN,
   job: Jobs \cup {NoJob}, names: SUBSET Keys]
IdlePass == [pc |-> "idle", todo |-> {}, full |-> FALSE, job |-> NoJob, names |-> {}]

TypeOK ==
  /\ row \in [Jobs -> Rows(MaxAttempt)]
  /\ manifest \in [Jobs -> SUBSET Files]
  /\ expired \in SUBSET Jobs
  /\ old \in SUBSET Jobs
  /\ objects \in [Jobs -> SUBSET Keys]
  /\ late \in [Jobs -> SUBSET Keys]
  /\ upload \in [Jobs -> [Attempts -> SUBSET Keys]]
  /\ coroutine \in [Jobs -> [Attempts -> {"idle", "running", "uploading", "record", "ended"}]]
  /\ pass \in [Passes -> PassStates]
  /\ gone \in [Readers -> SUBSET Jobs]
  /\ aborts \in 0..MaxAborts

Init ==
  /\ row = [j \in Jobs |-> AbsentRow]
  /\ manifest = [j \in Jobs |-> {}]
  /\ expired = {}
  /\ old = {}
  /\ objects = [j \in Jobs |-> {}]
  /\ late = [j \in Jobs |-> {}]
  /\ upload = [j \in Jobs |-> [n \in Attempts |-> {}]]
  /\ coroutine = [j \in Jobs |-> [n \in Attempts |-> "idle"]]
  /\ pass = [p \in Passes |-> IdlePass]
  /\ gone = [r \in Readers |-> {}]
  /\ aborts = 0

-----------------------------------------------------------------------------
(* Attempts: mark_started, then complete_job and its upload thread *)

Moves(j, n, from, to) ==
  /\ coroutine[j][n] = from
  /\ coroutine' = [coroutine EXCEPT ![j][n] = to]

\* create_or_get_job, of which only the row matters here.
Submit(j) ==
  /\ row[j].status = "absent"
  /\ row' = [row EXCEPT ![j] = QueuedRow]
  /\ UNCHANGED <<manifest, expired, old, storeVars, attemptVars, pass, gone, aborts>>

Started == {d \in Jobs \X Attempts : coroutine[d[1]][d[2]] # "idle"}

MarkStarted(j, n) ==
  /\ Cardinality(Started) < MaxStarts
  /\ Moves(j, n, "idle", "running")
  /\ MayClaim(row[j], n)
  /\ row' = [row EXCEPT ![j] = Claimed(@, n)]
  /\ UNCHANGED <<manifest, expired, old, storeVars, upload, pass, gone, aborts>>

\* complete_job starts the upload on a thread of its own.
StartUpload(j, n) ==
  /\ Moves(j, n, "running", "uploading")
  /\ upload' = [upload EXCEPT ![j][n] = Keys]
  /\ UNCHANGED <<jobVars, storeVars, pass, gone, aborts>>

\* An expiry pass has listed the job's keys, or is done with the job: what is
\* put from now on it does not know of.
Listed(j) ==
  j \in expired \/ \E p \in Passes : pass[p].pc \in {"deleting", "marking"} /\ pass[p].job = j

\* upload_simulation_result: the files in turn, then metadata.json.
PutObject(j, n, k) ==
  /\ k \in upload[j][n]
  /\ k = Metadata => upload[j][n] = {Metadata}
  /\ objects' = [objects EXCEPT ![j] = @ \cup {k}]
  /\ late' = [late EXCEPT ![j] = IF Listed(j) THEN @ \cup {k} ELSE @]
  /\ upload' = [upload EXCEPT ![j][n] = @ \ {k}]
  /\ UNCHANGED <<jobVars, coroutine, pass, gone, aborts>>

\* A client error, or the death of the process, ends the upload half way.
UploadStops(j, n) ==
  /\ upload[j][n] # {}
  /\ upload' = [upload EXCEPT ![j][n] = {}]
  /\ coroutine' = [coroutine EXCEPT ![j][n] = "ended"]
  /\ UNCHANGED <<jobVars, storeVars, pass, gone, aborts>>

\* The coroutine is cancelled (a lost lease, a stopping worker) and its thread
\* runs on.
Cancelled(j, n) ==
  /\ coroutine[j][n] \in {"running", "uploading", "record"}
  /\ coroutine' = [coroutine EXCEPT ![j][n] = "ended"]
  /\ UNCHANGED <<jobVars, storeVars, upload, pass, gone, aborts>>

UploadReturnsEarly(j, n) ==
  /\ Moves(j, n, "uploading", "record")
  /\ UNCHANGED <<jobVars, storeVars, upload, pass, gone, aborts>>

UploadReturns(j, n) ==
  /\ upload[j][n] = {}
  /\ Moves(j, n, "uploading", "record")
  /\ UNCHANGED <<jobVars, storeVars, upload, pass, gone, aborts>>

\* complete_job's UPDATE: the manifest commits with the status, or is refused.
RecordManifest(j, n) ==
  /\ Moves(j, n, "record", "ended")
  /\ \/ /\ MayComplete(row[j], n)
        /\ row' = [row EXCEPT ![j] = Completed(@)]
        /\ manifest' = [manifest EXCEPT ![j] = Files]
     \/ /\ ~MayComplete(row[j], n)
        /\ UNCHANGED <<row, manifest>>
  /\ UNCHANGED <<expired, old, storeVars, upload, pass, gone, aborts>>

\* record_failure or reconcile_terminal_jobs, at attempt n.
FailJob(j, n) ==
  /\ MayReconcile(row[j], n)
  /\ coroutine[j][n] # "idle"
  /\ row' = [row EXCEPT ![j] = Reconciled(@, n)]
  /\ UNCHANGED <<manifest, expired, old, storeVars, attemptVars, pass, gone, aborts>>

\* The retention passes.  Nothing looks whether a superseded attempt of the job
\* still runs, or uploads.
PassRetention(j) ==
  /\ row[j].status = "completed" /\ j \notin old
  /\ old' = old \cup {j}
  /\ UNCHANGED <<row, manifest, expired, storeVars, attemptVars, pass, gone, aborts>>

-----------------------------------------------------------------------------
(* expire_old_outputs *)

\* list_jobs_with_expired_outputs
Expirable(j) ==
  /\ row[j].status = "completed"
  /\ j \in old
  /\ j \notin expired

\* The listing: a batch of the eligible jobs.  After a full batch the loop lists
\* again; after a short one the pass returns.
ListExpired(p) ==
  LET eligible == {j \in Jobs : Expirable(j)} IN
  /\ pass[p].pc = "idle" \/ (pass[p].pc = "working" /\ pass[p].todo = {} /\ pass[p].full)
  /\ eligible # {} \/ pass[p].pc = "working"
  /\ \E S \in SUBSET eligible :
       /\ Cardinality(S) <= Batch
       /\ Cardinality(S) = Batch \/ S = eligible
       /\ pass' = [pass EXCEPT ![p] = [IdlePass EXCEPT !.pc = "working", !.todo = S,
                                         !.full = Cardinality(S) = Batch]]
  /\ UNCHANGED <<jobVars, storeVars, attemptVars, gone, aborts>>

\* delete_simulation_outputs lists the keys once ...
ListObjects(p, j) ==
  /\ pass[p].pc = "working"
  /\ j \in pass[p].todo
  /\ pass' = [pass EXCEPT ![p].pc = "deleting", ![p].job = j, ![p].names = objects[j]]
  /\ UNCHANGED <<jobVars, storeVars, attemptVars, gone, aborts>>

\* ... and removes them one by one.  Removing an absent key is no error.
RemoveObject(p, k) ==
  /\ pass[p].pc = "deleting"
  /\ k \in pass[p].names
  /\ objects' = [objects EXCEPT ![pass[p].job] = @ \ {k}]
  /\ late' = [late EXCEPT ![pass[p].job] = @ \ {k}]
  /\ pass' = [pass EXCEPT ![p].names = @ \ {k}]
  /\ UNCHANGED <<jobVars, attemptVars, gone, aborts>>

DeletedAny(p) ==
  /\ pass[p].pc = "deleting"
  /\ pass' = [pass EXCEPT ![p].pc = "marking", ![p].names = {}]
  /\ UNCHANGED <<jobVars, storeVars, attemptVars, gone, aborts>>

DeletedAll(p) ==
  /\ pass[p].pc = "deleting"
  /\ pass[p].names = {}
  /\ pass' = [pass EXCEPT ![p].pc = "marking"]
  /\ UNCHANGED <<jobVars, storeVars, attemptVars, gone, aborts>>

MarkExpiredUnstamped(p) ==
  LET j == pass[p].job IN
  /\ pass[p].pc = "marking"
  /\ manifest' = [manifest EXCEPT ![j] = {}]
  /\ pass' = [pass EXCEPT ![p].pc = "working", ![p].todo = @ \ {j}, ![p].job = NoJob]
  /\ UNCHANGED <<row, expired, old, storeVars, attemptVars, gone, aborts>>

\* mark_outputs_expired: the stamp and the empty manifest in one statement,
\* which finds nothing to do when another pass was first.
MarkExpired(p) ==
  LET j == pass[p].job IN
  /\ pass[p].pc = "marking"
  /\ IF row[j].status = "completed" /\ j \notin expired
       THEN /\ manifest' = [manifest EXCEPT ![j] = {}]
            /\ expired' = expired \cup {j}
       ELSE UNCHANGED <<manifest, expired>>
  /\ pass' = [pass EXCEPT ![p].pc = "working", ![p].todo = @ \ {j}, ![p].job = NoJob]
  /\ UNCHANGED <<row, old, storeVars, attemptVars, gone, aborts>>

PassReturns(p) ==
  /\ pass[p].pc = "working" /\ pass[p].todo = {} /\ ~pass[p].full
  /\ pass' = [pass EXCEPT ![p] = IdlePass]
  /\ UNCHANGED <<jobVars, storeVars, attemptVars, gone, aborts>>

\* A store or database error, or the end of the process: _run_periodically
\* starts over with the next pass.
PassAborts(p) ==
  /\ aborts < MaxAborts
  /\ pass[p].pc # "idle"
  /\ aborts' = aborts + 1
  /\ pass' = [pass EXCEPT ![p] = IdlePass]
  /\ UNCHANGED <<jobVars, storeVars, attemptVars, gone>>

-----------------------------------------------------------------------------
(* Readers *)

GetOutputByAge(r, j) ==
  /\ gone' = [gone EXCEPT ![r] = IF j \in old THEN @ \cup {j} ELSE @]
  /\ UNCHANGED <<jobVars, storeVars, attemptVars, pass, aborts>>

\* get_outputs behind list_outputs and get_output: 410 for an expired job.  The
\* other answers (404, an empty list before completion, else a presigned URL,
\* computed locally so that the object is not looked up) leave no trace here.
GetOutput(r, j) ==
  /\ gone' = [gone EXCEPT ![r] =
       IF row[j].status # "absent" /\ j \in expired THEN @ \cup {j} ELSE @]
  /\ UNCHANGED <<jobVars, storeVars, attemptVars, pass, aborts>>

-----------------------------------------------------------------------------
AttemptNext(j, n) ==
  \/ MarkStarted(j, n)
  \/ StartUpload(j, n)
  \/ \E k \in Keys : PutObject(j, n, k)
  \/ UploadStops(j, n)
  \/ Cancelled(j, n)
  \/ UploadReturns(j, n)
  \/ RecordManifest(j, n)
  \/ FailJob(j, n)

PassStep(p) ==
  \/ ListExpired(p)
  \/ \E j \in Jobs : ListObjects(p, j)
  \/ \E k \in Keys : RemoveObject(p, k)
  \/ DeletedAll(p)
  \/ MarkExpired(p)
  \/ PassReturns(p)

Next ==
  \/ \E j \in Jobs, n \in Attempts : AttemptNext(j, n)
  \/ \E j \in Jobs : Submit(j) \/ PassRetention(j)
  \/ \E p \in Passes : PassStep(p) \/ PassAborts(p)
  \/ \E r \in Readers, j \in Jobs : GetOutput(r, j)

Spec == Init /\ [][Next]_vars

\* _run_periodically repeats the pass for the life of the process.
Fairness == \A p \in Passes : WF_vars(PassStep(p))
FairSpec == Spec /\ Fairness

-----------------------------------------------------------------------------
(* Properties *)

\* A completed job whose manifest lists a missing object is one the expiry pass
\* still selects: uploads that are late, refused or cut off never take an
\* object away, and a pass that dies half way is finished by the next.
DanglingIsExpirable ==
  \A j \in Jobs : manifest[j] \subseteq objects[j] \/ Expirable(j)

\* Once outputs_expired_at is set nothing points under the job's prefix, and
\* nothing is left there but what an upload that outlived its attempt put after
\* a pass had listed the keys: expiry itself orphans no object (files first, then
\* the manifest), although two passes work on one job at once, each removing
\* what it listed, and either may die half way.
ExpiredMeansGone ==
  \A j \in expired : objects[j] \subseteq late[j] /\ manifest[j] = {}

\* A reader is answered 410 only for a job that completed, and the answer is
\* final: the files it completed with are gone, and what a late upload may leave
\* there is not served again.
GoneIsFinal ==
  \A r \in Readers : \A j \in gone[r] :
    row[j].status = "completed" /\ objects[j] \subseteq late[j] /\ manifest[j] = {}

\* Every completed job past its retention ends up expired and deleted, whatever
\* passes died on it, however small the batch and though uploads go on.
EventuallyExpired ==
  \A j \in Jobs : (j \in old) ~> (j \in expired /\ objects[j] \subseteq late[j])
=============================================================================
