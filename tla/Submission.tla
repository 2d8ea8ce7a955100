------------------------------ MODULE Submission ------------------------------
(***************************************************************************)
(* How a simulation becomes a compute job: the web server saves its own    *)
(* row, calls POST /api/v1/jobs and records a failed call                  *)
(* (apps/web/src/lib/server/submit-simulation.ts); the compute API inserts *)
(* the job and its queue task in one transaction (create_job in routes.py, *)
(* create_or_get_job in core/repository.py).  A response can be lost, a    *)
(* call can fail late, and the researcher can send the simulation again    *)
(* while an earlier call is still under way.                               *)
(***************************************************************************)
EXTENDS Integers, FiniteSets

CONSTANTS
  First,      \* the call of the form that creates the simulation
  Retries,    \* calls of the retry action on the simulation's page
  Foreign,    \* calls of another client that reuses the id
  Inputs,     \* earthquake inputs
  InputOf,    \* the input each call carries
  NoInput,    \* no row
  NoCall      \* no call

WebCalls == {First} \cup Retries
Calls == WebCalls \cup Foreign

ASSUME SubmissionAssumption ==
  /\ InputOf \in [Calls -> Inputs]
  /\ \A c \in WebCalls : InputOf[c] = InputOf[First]
  /\ First \notin Retries \cup Foreign
  /\ NoInput \notin Inputs /\ NoCall \notin Calls
  /\ IsFiniteSet(Calls)

VARIABLES
  web,       \* whether the web row exists, and its submission_error
  job,       \* compute.jobs: the input of the committed row
  tasks,     \* committed queue tasks
  writer,    \* the call whose transaction holds the uncommitted row
  client,    \* the web server's, or the other client's, side of each call
  snapshot,  \* submissionError as the retry action read it
  server,    \* the compute API's side of each call
  reply      \* its answer

vars == <<web, job, tasks, writer, client, snapshot, server, reply>>
apiVars == <<job, tasks, writer, server, reply>>

TypeOK ==
  /\ web \in [exists: BOOLEAN, error: BOOLEAN]
  /\ job \in Inputs \cup {NoInput}
  /\ tasks \in 0..Cardinality(Calls)
  /\ writer \in Calls \cup {NoCall}
  /\ client \in [Calls -> {"idle", "read", "waiting", "recording", "clearing", "ok", "failed"}]
  /\ snapshot \in [Calls -> BOOLEAN]
  /\ server \in [Calls -> {"none", "pending", "inserted", "enqueued", "over"}]
  /\ reply \in [Calls -> {"none", "ok", "error"}]

Init ==
  /\ web = [exists |-> FALSE, error |-> FALSE]
  /\ job = NoInput
  /\ tasks = 0
  /\ writer = NoCall
  /\ client = [c \in Calls |-> "idle"]
  /\ snapshot = [c \in Calls |-> FALSE]
  /\ server = [c \in Calls |-> "none"]
  /\ reply = [c \in Calls |-> "none"]

-----------------------------------------------------------------------------
(* The web server *)

\* toSimulationDetails
Displayed ==
  IF job # NoInput THEN "job" ELSE IF web.error THEN "submission_failed" ELSE "submitting"

\* The form action: the row is saved before the call.
CreateSimulation ==
  /\ ~web.exists
  /\ web' = [web EXCEPT !.exists = TRUE]
  /\ client' = [client EXCEPT ![First] = "read"]
  /\ UNCHANGED <<apiVars, snapshot>>

\* The retry action reads the simulation and refuses one that has a job.
StartRetry(c) ==
  /\ web.exists
  /\ c \in Retries /\ client[c] = "idle"
  /\ Displayed \in {"submitting", "submission_failed"}
  /\ snapshot' = [snapshot EXCEPT ![c] = web.error]
  /\ client' = [client EXCEPT ![c] = "read"]
  /\ UNCHANGED <<apiVars, web>>

StartForeign(c) ==
  /\ c \in Foreign /\ client[c] = "idle"
  /\ client' = [client EXCEPT ![c] = "read"]
  /\ UNCHANGED <<apiVars, web, snapshot>>

Post(c) ==
  /\ client[c] = "read"
  /\ client' = [client EXCEPT ![c] = "waiting"]
  /\ server' = [server EXCEPT ![c] = "pending"]
  /\ UNCHANGED <<web, job, tasks, writer, snapshot, reply>>

\* The answer, or none: the call may be cut off at any time and the API goes on.
PostReturns(c) ==
  /\ client[c] = "waiting"
  /\ \/ /\ reply[c] = "ok"
        /\ client' = [client EXCEPT ![c] = IF snapshot[c] THEN "clearing" ELSE "ok"]
     \/ client' = [client EXCEPT ![c] = IF c \in WebCalls THEN "recording" ELSE "failed"]
  /\ UNCHANGED <<apiVars, web, snapshot>>

\* recordSubmissionFailure and clearSubmissionFailure.
RecordFailure(c) ==
  /\ client[c] = "recording"
  /\ web' = [web EXCEPT !.error = TRUE]
  /\ client' = [client EXCEPT ![c] = "failed"]
  /\ UNCHANGED <<apiVars, snapshot>>

ClearFailure(c) ==
  /\ client[c] = "clearing"
  /\ web' = [web EXCEPT !.error = FALSE]
  /\ client' = [client EXCEPT ![c] = "ok"]
  /\ UNCHANGED <<apiVars, snapshot>>

\* The web process dies with the call half done.
WebDies(c) ==
  /\ client[c] \in {"read", "waiting", "recording", "clearing"}
  /\ client' = [client EXCEPT ![c] = "failed"]
  /\ UNCHANGED <<apiVars, web, snapshot>>

-----------------------------------------------------------------------------
(* The compute API: create_or_get_job *)

Answers(c, answer) ==
  /\ server' = [server EXCEPT ![c] = "over"]
  /\ reply' = [reply EXCEPT ![c] = answer]

\* INSERT ... ON CONFLICT DO NOTHING waits for the transaction that holds the
\* uncommitted row.
InsertJob(c) ==
  /\ server[c] = "pending" /\ writer = NoCall /\ job = NoInput
  /\ writer' = c
  /\ server' = [server EXCEPT ![c] = "inserted"]
  /\ UNCHANGED <<web, job, tasks, client, snapshot, reply>>

GetAnyJob(c) ==
  /\ server[c] = "pending" /\ writer = NoCall /\ job # NoInput
  /\ Answers(c, "ok")
  /\ UNCHANGED <<web, job, tasks, writer, client, snapshot>>

\* The row exists: its status for the same input, 400 for another.
GetJob(c) ==
  /\ server[c] = "pending" /\ writer = NoCall /\ job # NoInput
  /\ Answers(c, IF job = InputOf[c] THEN "ok" ELSE "error")
  /\ UNCHANGED <<web, job, tasks, writer, client, snapshot>>

EnqueueAlone(c) ==
  /\ server[c] = "inserted"
  /\ tasks' = tasks + 1
  /\ server' = [server EXCEPT ![c] = "enqueued"]
  /\ UNCHANGED <<web, job, writer, client, snapshot, reply>>

\* enqueue_simulation on the same connection.
Enqueue(c) ==
  /\ server[c] = "inserted"
  /\ server' = [server EXCEPT ![c] = "enqueued"]
  /\ UNCHANGED <<web, job, tasks, writer, client, snapshot, reply>>

\* The commit, whose acknowledgement can be lost: then the API answers 500.
CommitJob(c) ==
  /\ server[c] = "enqueued"
  /\ job' = InputOf[c]
  /\ tasks' = tasks + 1
  /\ writer' = NoCall
  /\ \E answer \in {"ok", "error"} : Answers(c, answer)
  /\ UNCHANGED <<web, client, snapshot>>

\* A failing statement or a dying process rolls both inserts back.
Rollback(c) ==
  /\ server[c] \in {"inserted", "enqueued"}
  /\ writer' = NoCall
  /\ Answers(c, "error")
  /\ UNCHANGED <<web, job, tasks, client, snapshot>>

\* No connection, or a request that never arrives.
Unanswered(c) ==
  /\ server[c] = "pending"
  /\ Answers(c, "error")
  /\ UNCHANGED <<web, job, tasks, writer, client, snapshot>>

-----------------------------------------------------------------------------
Next ==
  \/ CreateSimulation
  \/ \E c \in Calls :
       \/ StartRetry(c) \/ StartForeign(c) \/ Post(c) \/ PostReturns(c)
       \/ RecordFailure(c) \/ ClearFailure(c) \/ WebDies(c)
       \/ InsertJob(c) \/ GetJob(c) \/ Enqueue(c) \/ CommitJob(c)
       \/ Rollback(c) \/ Unanswered(c)

Spec == Init /\ [][Next]_vars

-----------------------------------------------------------------------------
(* Properties *)

\* However often a simulation is sent, by whom and with what answers lost, it
\* has one queue task once it has a job and none before
\* (create_or_get_job: one transaction).
OneTaskPerJob == tasks = (IF job = NoInput THEN 0 ELSE 1)

\* A caller that was told "created" has a committed job with its own input:
\* a reused id never answers for another earthquake, and no answer precedes
\* the commit.
AcceptedInput == \A c \in Calls : reply[c] = "ok" => job = InputOf[c]
=============================================================================
