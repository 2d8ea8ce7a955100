------------------------------ MODULE WebProofs ------------------------------
(***************************************************************************)
(* The web server's two dealings with the compute API.                     *)
(*                                                                         *)
(* The submission of a simulation, for any number of retries and of other  *)
(* clients: one job has one task, and no caller is told of a job that is   *)
(* not its own.                                                            *)
(*                                                                         *)
(* The event stream, for any number of requests, revisions, faults and     *)
(* retries: what a page shows never goes back, and a page never stops      *)
(* following a job without an ending or a notice on screen.                *)
(***************************************************************************)
EXTENDS Submission, EventStream, SequenceTheorems, FiniteSetTheorems, TLAPS

\* The uncommitted row belongs to the one call whose transaction is open, and
\* excludes a committed one; a call under way has not been answered.
WriterInv ==
  /\ \A c \in Calls : server[c] \in {"inserted", "enqueued"} => writer = c
  /\ writer # NoCall => job = NoInput
  /\ \A c \in Calls : server[c] # "over" => reply[c] = "none"

\* The types of everything but the counter, which OneTaskPerJob bounds.
StateType ==
  /\ web \in [exists: BOOLEAN, error: BOOLEAN]
  /\ job \in Inputs \cup {NoInput}
  /\ writer \in Calls \cup {NoCall}
  /\ client \in [Calls -> {"idle", "read", "waiting", "recording", "clearing", "ok", "failed"}]
  /\ snapshot \in [Calls -> BOOLEAN]
  /\ server \in [Calls -> {"none", "pending", "inserted", "enqueued", "over"}]
  /\ reply \in [Calls -> {"none", "ok", "error"}]

\* A call is sent once: until then the API knows nothing of it, and the form's
\* call is not begun before the web row exists.
SentInv ==
  /\ \A c \in Calls : client[c] \in {"idle", "read"} => server[c] = "none"
  /\ ~web.exists => client[First] = "idle"

IInv == StateType /\ WriterInv /\ SentInv /\ OneTaskPerJob /\ AcceptedInput

\* There is a call, so one task is within the counter's range.
LEMMA SomeCall == Cardinality(Calls) \in Nat \ {0}
<1>1. IsFiniteSet(Calls) BY SubmissionAssumption DEF SubmissionAssumption
<1>2. Calls # {} BY DEF Calls, WebCalls
<1>3. QED BY <1>1, <1>2, FS_CardinalityType, FS_EmptySet

\* The inductive invariant holds at the start.
LEMMA InitIInv == Init => IInv
<1> SUFFICES ASSUME Init PROVE IInv OBVIOUS
<1>1. StateType BY DEF Init, StateType
<1>2. WriterInv BY SubmissionAssumption DEF Init, WriterInv, SubmissionAssumption
<1>3. SentInv BY DEF Init, SentInv, Calls, WebCalls
<1>4. OneTaskPerJob /\ AcceptedInput BY DEF Init, OneTaskPerJob, AcceptedInput
<1>5. QED BY <1>1, <1>2, <1>3, <1>4 DEF IInv

\* The steps of the web server and of the other clients leave the API's state
\* alone, except that Post makes a call pending.
LEMMA ClientStep ==
  ASSUME IInv, NEW c \in Calls,
         \/ StartRetry(c) \/ StartForeign(c) \/ Post(c) \/ PostReturns(c)
         \/ RecordFailure(c) \/ ClearFailure(c) \/ WebDies(c)
  PROVE  IInv'
<1> USE SubmissionAssumption DEF IInv, StateType, apiVars, Calls, WebCalls, SubmissionAssumption
<1>1. CASE StartRetry(c)
  <2>1. web.error \in BOOLEAN OBVIOUS
  <2>2. snapshot' \in [Calls -> BOOLEAN] BY <1>1, <2>1, Zenon DEF StartRetry
  <2>3. client' \in [Calls -> {"idle", "read", "waiting", "recording", "clearing", "ok", "failed"}]
    BY <1>1 DEF StartRetry
  <2>4. StateType' BY <1>1, <2>2, <2>3 DEF StartRetry
  <2>5. (WriterInv /\ SentInv /\ OneTaskPerJob /\ AcceptedInput)'
    BY <1>1 DEF StartRetry, WriterInv, SentInv, OneTaskPerJob, AcceptedInput
  <2>6. QED BY <2>4, <2>5
<1>2. CASE StartForeign(c)
  BY <1>2 DEF StartForeign, WriterInv, SentInv, OneTaskPerJob, AcceptedInput
<1>3. CASE Post(c)
  BY <1>3 DEF Post, WriterInv, SentInv, OneTaskPerJob, AcceptedInput
<1>4. CASE PostReturns(c)
  BY <1>4 DEF PostReturns, WriterInv, SentInv, OneTaskPerJob, AcceptedInput
<1>5. CASE RecordFailure(c)
  BY <1>5 DEF RecordFailure, WriterInv, SentInv, OneTaskPerJob, AcceptedInput
<1>6. CASE ClearFailure(c)
  BY <1>6 DEF ClearFailure, WriterInv, SentInv, OneTaskPerJob, AcceptedInput
<1>7. CASE WebDies(c)
  BY <1>7 DEF WebDies, WriterInv, SentInv, OneTaskPerJob, AcceptedInput
<1>8. QED BY <1>1, <1>2, <1>3, <1>4, <1>5, <1>6, <1>7

\* The steps of the transaction of call c.
LEMMA TransactionStep ==
  ASSUME IInv, NEW c \in Calls,
         \/ InsertJob(c) \/ GetJob(c) \/ Enqueue(c) \/ CommitJob(c)
         \/ Rollback(c) \/ Unanswered(c)
  PROVE  IInv'
<1> USE SubmissionAssumption DEF IInv, StateType, Answers, SubmissionAssumption
<1>1. CASE InsertJob(c)
  BY <1>1 DEF InsertJob, WriterInv, SentInv, OneTaskPerJob, AcceptedInput
<1>2. CASE GetJob(c)
  BY <1>2 DEF GetJob, WriterInv, SentInv, OneTaskPerJob, AcceptedInput
<1>3. CASE Enqueue(c)
  BY <1>3 DEF Enqueue, WriterInv, SentInv, OneTaskPerJob, AcceptedInput
<1>4. CASE CommitJob(c)
  <2>1. writer = c /\ job = NoInput /\ tasks = 0
    BY <1>4 DEF CommitJob, WriterInv, SentInv, OneTaskPerJob
  <2>2. job' = InputOf[c] /\ job' \in Inputs /\ tasks' = 1
    BY <1>4, <2>1 DEF CommitJob
  <2>3. \A d \in Calls : reply[d] # "ok"
    BY <2>1 DEF AcceptedInput
  <2>4. AcceptedInput' BY <1>4, <2>2, <2>3 DEF CommitJob, AcceptedInput
  <2>5. WriterInv' BY <1>4, <2>1 DEF CommitJob, WriterInv
  <2>6. OneTaskPerJob' BY <2>2 DEF OneTaskPerJob
  <2>7. StateType' BY <1>4, <2>2 DEF CommitJob
  <2>8. SentInv' BY <1>4 DEF CommitJob, SentInv
  <2>9. QED BY <2>4, <2>5, <2>6, <2>7, <2>8
<1>5. CASE Rollback(c)
  BY <1>5 DEF Rollback, WriterInv, SentInv, OneTaskPerJob, AcceptedInput
<1>6. CASE Unanswered(c)
  BY <1>6 DEF Unanswered, WriterInv, SentInv, OneTaskPerJob, AcceptedInput
<1>7. QED BY <1>1, <1>2, <1>3, <1>4, <1>5, <1>6

\* The inductive invariant holds in every reachable state.
LEMMA InductiveIInv == Spec => []IInv
<1>1. IInv /\ [Next]_vars => IInv'
  <2> SUFFICES ASSUME IInv, [Next]_vars PROVE IInv' OBVIOUS
  <2>1. CASE CreateSimulation
    BY <2>1 DEF CreateSimulation, apiVars, Calls, WebCalls, IInv, StateType, WriterInv,
                SentInv, OneTaskPerJob, AcceptedInput
  <2>2. CASE UNCHANGED vars
    BY <2>2 DEF vars, IInv, StateType, WriterInv, SentInv, OneTaskPerJob, AcceptedInput
  <2>3. QED BY <2>1, <2>2, ClientStep, TransactionStep DEF Next
<1>2. QED BY <1>1, InitIInv, PTL DEF Spec

\* For any number of calls, lost answers and dying processes, every variable
\* keeps its type.
THEOREM TypeCorrect == Spec => []TypeOK
<1>1. IInv => TypeOK
  BY SomeCall, SubmissionAssumption DEF IInv, StateType, OneTaskPerJob, TypeOK
<1>2. QED BY <1>1, InductiveIInv, PTL

\* For any number of retries and foreign calls in any order, a simulation has
\* one queue task once it has a job and none before (create_or_get_job).
THEOREM SingleTask == Spec => []OneTaskPerJob
<1>1. IInv => OneTaskPerJob BY DEF IInv
<1>2. QED BY <1>1, InductiveIInv, PTL

\* For any number of calls, whoever is told "created" has a committed job with
\* its own input (create_or_get_job's comparison, and the answer after commit).
THEOREM OwnInputAccepted == Spec => []AcceptedInput
<1>1. IInv => AcceptedInput BY DEF IInv
<1>2. QED BY <1>1, InductiveIInv, PTL

-----------------------------------------------------------------------------
(* The event stream *)

\* The frames of a request are states of the row in the order it had them.
FramesInv ==
  \A s \in Slots : \A i \in 1..Len(frames[s]) :
    /\ frames[s][i].revision <= row.revision
    /\ \A k \in i..Len(frames[s]) : frames[s][i].revision <= frames[s][k].revision

\* What a page has still to receive is no older than what it shows.
PageInv ==
  /\ page.shown.revision <= row.revision
  /\ page.source = "open" =>
       /\ page.slot \in Slots
       /\ \A i \in 1..Len(frames[page.slot]) :
            page.shown.revision <= frames[page.slot][i].revision

StreamInv == StreamTypeOK /\ FramesInv /\ PageInv /\ NoSilentEnd

-----------------------------------------------------------------------------
(* The generators *)

\* What a step of a generator does: it appends nothing or the row as it is.
Generates(s) ==
  /\ \E new \in Streams : stream' = [stream EXCEPT ![s] = new]
  /\ \/ frames' = frames
     \/ frames' = [frames EXCEPT ![s] = Append(frames[s], row)]
  /\ UNCHANGED <<row, page, reruns>>
  /\ faults' \in 0..MaxFaults

\* A stream whose client hung up is a stream.
LEMMA ClientGone ==
  ASSUME NEW r \in Streams PROVE [r EXCEPT !.client = FALSE] \in Streams
BY DEF Streams

\* Revisions are natural numbers.
LEMMA RevisionNat == \A j \in JobStates : j.revision \in Nat
BY StreamAssumption DEF JobStates, StreamAssumption

\* A generator that is over is a generator, the first row a row.
LEMMA IdleType == IdleStream \in Streams /\ NoJob \in JobStates
<1>1. NoJob \in JobStates BY StreamAssumption DEF NoJob, JobStates, StreamAssumption
<1>2. QED BY <1>1 DEF IdleStream, Streams

\* A frame is appended, or the client is gone and the generator is over.
LEMMA SendsJob ==
  ASSUME StreamTypeOK, NEW s \in Slots, NEW new \in Streams, Sends(s, <<row>>, new)
  PROVE  /\ \E n \in Streams : stream' = [stream EXCEPT ![s] = n]
         /\ frames' = frames \/ frames' = [frames EXCEPT ![s] = Append(frames[s], row)]
<1>1. frames[s] \in Seq(JobStates) /\ row \in JobStates BY DEF StreamTypeOK
<1>2. frames[s] \o <<row>> = Append(frames[s], row) BY <1>1
<1>3. QED BY <1>2, IdleType DEF Sends, Becomes, Over

\* A comment is no frame.
LEMMA SendsNothing ==
  ASSUME StreamTypeOK, NEW s \in Slots, NEW new \in Streams, Sends(s, <<>>, new)
  PROVE  /\ \E n \in Streams : stream' = [stream EXCEPT ![s] = n]
         /\ frames' = frames
<1>1. frames \in [Slots -> Seq(JobStates)] BY DEF StreamTypeOK
<1>2. frames[s] \o <<>> = frames[s] BY <1>1
<1>3. [frames EXCEPT ![s] = frames[s]] = frames BY <1>1
<1>4. QED BY <1>2, <1>3, IdleType DEF Sends, Becomes, Over

\* Every step of a generator, its faults included, is of that form.
LEMMA GeneratorSteps ==
  ASSUME StreamTypeOK, NEW s \in Slots,
         StreamStep(s) \/ DeadlinePasses(s) \/ StreamBreaks(s) \/ ListenerDies(s)
  PROVE  Generates(s)
<1>1. stream[s] \in Streams /\ row \in JobStates /\ faults \in 0..MaxFaults BY DEF StreamTypeOK
<1>2. CASE ReadStatus(s)
  <2> DEFINE next == [stream[s] EXCEPT !.pc = "connect", !.last = row]
  <2>1. next \in Streams BY <1>1 DEF Streams
  <2>2. CASE row.status \in Terminal
    BY <1>1, <1>2, <2>2, IdleType, SendsJob DEF ReadStatus, Generates
  <2>3. CASE row.status \notin Terminal
    BY <1>1, <1>2, <2>1, <2>3, SendsJob DEF ReadStatus, Generates
  <2>4. QED BY <2>2, <2>3
<1>3. CASE ConnectListener(s)
  <2>1. [stream[s] EXCEPT !.pc = "listen", !.connected = TRUE] \in Streams
    BY <1>1, Zenon DEF Streams
  <2>2. QED BY <1>1, <1>3, <2>1 DEF ConnectListener, Becomes, Generates
<1>4. CASE AddListener(s)
  <2>1. [stream[s] EXCEPT !.pc = "loop", !.listening = TRUE] \in Streams BY <1>1 DEF Streams
  <2>2. QED BY <1>1, <1>4, <2>1 DEF AddListener, Becomes, Generates
<1>5. CASE Loop(s)
  <2>1. [stream[s] EXCEPT !.pc = "wait"] \in Streams BY <1>1 DEF Streams
  <2>2. QED BY <1>1, <1>5, <2>1, IdleType DEF Loop, Becomes, Over, Generates
<1>6. CASE Notified(s)
  <2>1. [stream[s] EXCEPT !.pc = "reread", !.wakeup = FALSE, !.notified = TRUE] \in Streams
    BY <1>1 DEF Streams
  <2>2. QED BY <1>1, <1>6, <2>1 DEF Notified, Becomes, Generates
<1>7. CASE KeepaliveDue(s)
  <2>1. [stream[s] EXCEPT !.pc = "reread", !.notified = FALSE] \in Streams
    BY <1>1 DEF Streams
  <2>2. QED BY <1>1, <1>7, <2>1 DEF KeepaliveDue, Becomes, Generates
<1>8. CASE Reread(s)
  <2> DEFINE again == [stream[s] EXCEPT !.pc = "loop"]
  <2>1. again \in Streams BY <1>1 DEF Streams
  <2>2. [again EXCEPT !.last = row] \in Streams BY <1>1, <2>1 DEF Streams
  <2>3. CASE row # stream[s].last
    <3>1. CASE row.status \in Terminal
      BY <1>1, <1>8, <2>3, <3>1, IdleType, SendsJob DEF Reread, Generates
    <3>2. CASE row.status \notin Terminal
      BY <1>1, <1>8, <2>2, <2>3, <3>2, SendsJob DEF Reread, Generates
    <3>3. QED BY <3>1, <3>2
  <2>4. CASE row = stream[s].last /\ ~stream[s].notified
    BY <1>1, <1>8, <2>1, <2>4, SendsNothing DEF Reread, Generates
  <2>5. CASE row = stream[s].last /\ stream[s].notified
    BY <1>1, <1>8, <2>1, <2>5 DEF Reread, Becomes, Generates
  <2>6. QED BY <2>3, <2>4, <2>5
<1>9. CASE DeadlinePasses(s)
  <2>1. [stream[s] EXCEPT !.late = TRUE] \in Streams BY <1>1 DEF Streams
  <2>2. QED BY <1>1, <1>9, <2>1 DEF DeadlinePasses, Becomes, Generates
<1>10. CASE StreamBreaks(s)
  <2>1. faults' \in 0..MaxFaults
    BY <1>1, <1>10, StreamAssumption DEF StreamBreaks, Fault, StreamAssumption
  <2>2. QED BY <1>10, <2>1, IdleType DEF StreamBreaks, Over, Becomes, Generates
<1>11. CASE ListenerDies(s)
  <2>1. faults' \in 0..MaxFaults
    BY <1>1, <1>11, StreamAssumption DEF ListenerDies, Fault, StreamAssumption
  <2>2. [stream[s] EXCEPT !.listening = FALSE] \in Streams BY <1>1 DEF Streams
  <2>3. QED BY <1>11, <2>1, <2>2 DEF ListenerDies, Becomes, Generates
<1>12. QED
  BY <1>2, <1>3, <1>4, <1>5, <1>6, <1>7, <1>8, <1>9, <1>10, <1>11 DEF StreamStep

\* Such a step keeps the frames in the order of the row's revisions.
LEMMA GeneratorKeeps ==
  ASSUME StreamInv, NEW s \in Slots, Generates(s)
  PROVE  StreamInv'
<1>1. /\ row \in JobStates /\ frames \in [Slots -> Seq(JobStates)]
      /\ stream \in [Slots -> Streams]
  BY DEF StreamInv, StreamTypeOK
<1>2. CASE frames' = frames
  <2>1. StreamTypeOK' BY <1>1, <1>2 DEF StreamInv, StreamTypeOK, Generates
  <2>2. (FramesInv /\ PageInv /\ NoSilentEnd)'
    BY <1>2 DEF StreamInv, FramesInv, PageInv, NoSilentEnd, Generates
  <2>3. QED BY <2>1, <2>2 DEF StreamInv
<1>3. CASE frames' = [frames EXCEPT ![s] = Append(frames[s], row)]
  <2>1. StreamTypeOK' BY <1>1, <1>3 DEF StreamInv, StreamTypeOK, Generates
  <2>2. /\ row' = row /\ page' = page
        /\ \A t \in Slots : t # s => frames'[t] = frames[t]
        /\ frames'[s] = Append(frames[s], row)
    BY <1>1, <1>3 DEF Generates
  <2>3. /\ Len(frames'[s]) = Len(frames[s]) + 1
        /\ \A i \in 1..Len(frames[s]) : frames'[s][i] = frames[s][i]
        /\ frames'[s][Len(frames[s]) + 1] = row
        /\ Len(frames[s]) \in Nat
    BY <1>1, <2>2
  <2>4. FramesInv'
    <3> SUFFICES ASSUME NEW t \in Slots, NEW i \in 1..Len(frames'[t])
                 PROVE  /\ frames'[t][i].revision <= row.revision
                        /\ \A k \in i..Len(frames'[t]) :
                              frames'[t][i].revision <= frames'[t][k].revision
      BY <2>2 DEF FramesInv
    <3>1. CASE t # s BY <2>2, <3>1 DEF StreamInv, FramesInv
    <3>2. CASE t = s
      <4> DEFINE n == Len(frames[s])
      <4>1. row.revision <= row.revision BY <1>1, RevisionNat
      <4>2. \A k \in 1..n + 1 : frames'[s][k].revision <= row.revision
        BY <2>3, <4>1 DEF StreamInv, FramesInv
      <4>3. ASSUME NEW k \in i..n + 1
            PROVE  frames'[s][i].revision <= frames'[s][k].revision
        <5>1. CASE k = n + 1 BY <2>2, <2>3, <3>2, <4>2, <5>1
        <5>2. CASE k # n + 1
          <6>1. i \in 1..n /\ k \in i..n /\ k \in 1..n BY <2>3, <3>2, <4>3, <5>2
          <6>2. QED BY <2>3, <6>1 DEF StreamInv, FramesInv
        <5>3. QED BY <5>1, <5>2
      <4>4. QED BY <2>3, <3>2, <4>2, <4>3
    <3>3. QED BY <3>1, <3>2
  <2>5. PageInv'
    <3>1. page.shown.revision <= row.revision BY DEF StreamInv, PageInv
    <3>2. ASSUME page.source = "open", NEW i \in 1..Len(frames'[page.slot])
          PROVE  page.slot \in Slots /\ page.shown.revision <= frames'[page.slot][i].revision
      <4>1. page.slot \in Slots BY <3>2 DEF StreamInv, PageInv
      <4>2. CASE page.slot # s BY <2>2, <3>2, <4>1, <4>2 DEF StreamInv, PageInv
      <4>3. CASE page.slot = s
        <5>1. CASE i = Len(frames[s]) + 1 BY <2>3, <3>1, <4>3, <5>1
        <5>2. CASE i # Len(frames[s]) + 1
          <6>1. i \in 1..Len(frames[s]) BY <2>3, <3>2, <4>3, <5>2
          <6>2. QED BY <2>3, <3>2, <4>3, <6>1 DEF StreamInv, PageInv
        <5>3. QED BY <5>1, <5>2
      <4>4. QED BY <4>1, <4>2, <4>3
    <3>3. page.source = "open" => page.slot \in Slots BY DEF StreamInv, PageInv
    <3>4. QED BY <2>2, <3>1, <3>2, <3>3 DEF PageInv
  <2>6. NoSilentEnd' BY <2>2 DEF StreamInv, NoSilentEnd
  <2>7. QED BY <2>1, <2>4, <2>5, <2>6 DEF StreamInv
<1>4. QED BY <1>2, <1>3 DEF Generates

-----------------------------------------------------------------------------
(* The row and the page *)

\* A statement of the worker makes the row newer and wakes the listeners.
LEMMA WorkerKeeps ==
  ASSUME StreamInv, Runs \/ Finishes \/ Expires \/ RunsAgain
  PROVE  StreamInv'
<1>1. PICK status \in {"queued", "running"} \cup Terminal : Commits(status)
  BY DEF Runs, Finishes, Expires, RunsAgain, Terminal
<1>2. reruns' \in 0..MaxReruns
  BY StreamAssumption
  DEF StreamInv, StreamTypeOK, Runs, Finishes, Expires, RunsAgain, StreamAssumption
<1>3. row.revision \in 0..MaxRevision BY DEF StreamInv, StreamTypeOK, JobStates
<1>4. row' \in JobStates /\ row'.revision = row.revision + 1
  BY <1>1, <1>3, StreamAssumption DEF Commits, JobStates, StreamAssumption
<1>5. \A s \in Slots : [stream[s] EXCEPT !.wakeup = TRUE] \in Streams
  BY DEF StreamInv, StreamTypeOK, Streams
<1>6. stream' \in [Slots -> Streams]
  BY <1>1, <1>5 DEF Commits, StreamInv, StreamTypeOK
<1>7. StreamTypeOK' BY <1>1, <1>2, <1>4, <1>6 DEF Commits, StreamInv, StreamTypeOK
<1>8. frames' = frames /\ page' = page BY <1>1 DEF Commits
<1>9. \A n \in Nat : n <= row.revision => n <= row'.revision
  BY <1>3, <1>4
<1>10. \A s \in Slots : \A i \in 1..Len(frames[s]) : frames[s][i].revision \in Nat
  BY RevisionNat DEF StreamInv, StreamTypeOK
<1>11. FramesInv' BY <1>8, <1>9, <1>10 DEF StreamInv, FramesInv
<1>12. page.shown.revision \in Nat BY RevisionNat DEF StreamInv, StreamTypeOK, Pages
<1>13. PageInv' BY <1>8, <1>9, <1>12 DEF StreamInv, PageInv
<1>14. NoSilentEnd' BY <1>8 DEF StreamInv, NoSilentEnd
<1>15. QED BY <1>7, <1>11, <1>13, <1>14 DEF StreamInv

\* The steps that leave every frame where it is, or drop those of one request,
\* and keep what the page shows.
LEMMA ConnectionKeeps ==
  ASSUME StreamInv, (\E s \in Slots : Opens(s)) \/ RetryTimer \/ Reopens \/ Refused
               \/ Drops \/ Leaves
  PROVE  StreamInv' /\ page'.shown = page.shown
<1> FramesInv /\ PageInv /\ NoSilentEnd BY DEF StreamInv
<1>1. /\ page \in Pages /\ frames \in [Slots -> Seq(JobStates)]
      /\ stream \in [Slots -> Streams] /\ faults \in 0..MaxFaults
  BY DEF StreamInv, StreamTypeOK
<1>2. ASSUME NEW s \in Slots, Opens(s) PROVE StreamInv' /\ page'.shown = page.shown
  <2>1. page' \in Pages /\ page'.shown = page.shown /\ page'.slot = s /\ page'.source = "open"
    <3>1. 0 \in 0..MaxFailures BY StreamAssumption DEF StreamAssumption
    <3>2. QED BY <1>1, <1>2, <3>1 DEF Opens, Pages
  <2>2. [IdleStream EXCEPT !.pc = "start", !.client = TRUE] \in Streams
    BY IdleType DEF Streams
  <2>3. StreamTypeOK'
    <3>1. stream' \in [Slots -> Streams] BY <1>1, <1>2, <2>2 DEF Opens, Becomes
    <3>2. frames' \in [Slots -> Seq(JobStates)]
      <4>1. <<>> \in Seq(JobStates) OBVIOUS
      <4>2. QED BY <1>1, <1>2, <4>1, Zenon DEF Opens
    <3>3. QED BY <1>2, <2>1, <3>1, <3>2 DEF Opens, StreamInv, StreamTypeOK
  <2>4. frames'[s] = <<>> /\ \A t \in Slots : t # s => frames'[t] = frames[t]
    BY <1>1, <1>2 DEF Opens
  <2>5. FramesInv'
    <3>1. row' = row BY <1>2 DEF Opens
    <3>2. Len(frames'[s]) = 0 BY <2>4
    <3>3. QED BY <2>4, <3>1, <3>2 DEF FramesInv
  <2>6. PageInv'
    <3>1. row' = row BY <1>2 DEF Opens
    <3>2. Len(frames'[s]) = 0 BY <2>4
    <3>3. QED BY <2>1, <3>1, <3>2 DEF PageInv
  <2>7. NoSilentEnd' BY <2>1 DEF NoSilentEnd
  <2>8. QED BY <2>1, <2>3, <2>5, <2>6, <2>7 DEF StreamInv
<1>3. CASE RetryTimer \/ Reopens \/ Refused
  <2>1. page' \in Pages /\ page'.shown = page.shown
    <3>1. CASE RetryTimer \/ Reopens BY <1>1, <3>1 DEF RetryTimer, Reopens, Pages
    <3>2. CASE Refused /\ page.failures >= MaxFailures
      BY <1>1, <3>2 DEF Refused, Pages
    <3>3. CASE Refused /\ ~(page.failures >= MaxFailures)
      <4>1. page.failures + 1 \in 0..MaxFailures
        BY <1>1, <3>3, StreamAssumption DEF Pages, StreamAssumption
      <4>2. page' = [page EXCEPT !.source = "waiting", !.failures = page.failures + 1]
        BY <3>3 DEF Refused
      <4>3. QED BY <1>1, <4>1, <4>2 DEF Pages
    <3>4. QED BY <1>3, <3>1, <3>2, <3>3
  <2>2. page'.source # "open" /\ (page'.source = "stopped" => page'.lost)
    BY <1>1, <1>3 DEF RetryTimer, Reopens, Refused, Pages
  <2>3. UNCHANGED <<row, stream, frames, reruns>> BY <1>3 DEF RetryTimer, Reopens, Refused
  <2>4. faults' \in 0..MaxFaults
    BY <1>1, <1>3, StreamAssumption DEF RetryTimer, Reopens, Refused, Fault, StreamAssumption
  <2>5. StreamTypeOK' BY <2>1, <2>3, <2>4 DEF StreamInv, StreamTypeOK
  <2>6. (FramesInv /\ PageInv /\ NoSilentEnd)'
    BY <2>1, <2>2, <2>3 DEF FramesInv, PageInv, NoSilentEnd
  <2>7. QED BY <2>1, <2>5, <2>6 DEF StreamInv
<1>4. CASE Drops
  <2>1. page' \in Pages /\ page'.shown = page.shown /\ page'.source = "connecting"
    BY <1>1, <1>4 DEF Drops, Pages
  <2>2. page.slot \in Slots BY <1>4 DEF Drops, PageInv
  <2>3. [stream[page.slot] EXCEPT !.client = FALSE] \in Streams
    <3>1. stream[page.slot] \in Streams BY <1>1, <2>2
    <3>2. QED BY <3>1, ClientGone
  <2>4. stream' \in [Slots -> Streams] BY <1>1, <1>4, <2>2, <2>3 DEF Drops
  <2>5. faults' \in 0..MaxFaults BY <1>1, <1>4, StreamAssumption DEF Drops, Fault, StreamAssumption
  <2>6. StreamTypeOK' BY <1>4, <2>1, <2>4, <2>5 DEF Drops, StreamInv, StreamTypeOK
  <2>7. /\ frames'[page.slot] = <<>>
        /\ \A t \in Slots : t # page.slot => frames'[t] = frames[t]
    BY <1>1, <1>4, <2>2 DEF Drops
  <2>8. FramesInv' BY <1>4, <2>7 DEF Drops, FramesInv
  <2>9. PageInv' /\ NoSilentEnd' BY <1>4, <2>1 DEF Drops, PageInv, NoSilentEnd
  <2>10. QED BY <2>1, <2>6, <2>8, <2>9 DEF StreamInv
<1>5. CASE Leaves
  <2>1. page' \in Pages /\ page'.shown = page.shown /\ page'.source = "left"
    BY <1>1, <1>5 DEF Leaves, Pages
  <2>2. stream' \in [Slots -> Streams]
    <3>1. CASE page.slot = NoSlot BY <1>1, <1>5, <3>1 DEF Leaves
    <3>2. CASE page.slot # NoSlot
      <4>1. page.slot \in Slots BY <1>1, <3>2 DEF Pages
      <4>2. [stream[page.slot] EXCEPT !.client = FALSE] \in Streams
        BY <1>1, <4>1, ClientGone
      <4>3. QED BY <1>1, <1>5, <3>2, <4>1, <4>2 DEF Leaves
    <3>3. QED BY <3>1, <3>2
  <2>3. StreamTypeOK' BY <1>5, <2>1, <2>2 DEF Leaves, StreamInv, StreamTypeOK
  <2>4. (FramesInv /\ PageInv /\ NoSilentEnd)'
    BY <1>5, <2>1 DEF Leaves, FramesInv, PageInv, NoSilentEnd
  <2>5. QED BY <2>1, <2>3, <2>4 DEF StreamInv
<1>6. QED BY <1>2, <1>3, <1>4, <1>5

\* The steps that change what the page shows: to the oldest frame it has not
\* seen, or to the row itself.
LEMMA ShowingKeeps ==
  ASSUME StreamInv, Receives \/ Reloads \/ RetriesByHand
  PROVE  StreamInv' /\ page'.shown.revision >= page.shown.revision
<1> USE DEF StreamInv
<1>1. /\ page \in Pages /\ frames \in [Slots -> Seq(JobStates)]
      /\ stream \in [Slots -> Streams] /\ row \in JobStates
  BY DEF StreamTypeOK
<1>2. CASE Receives
  <2> DEFINE s == page.slot
             q == frames[s]
  <2>1. s \in Slots /\ q \in Seq(JobStates) /\ q # <<>> BY <1>1, <1>2 DEF Receives, PageInv
  <2>2. Head(q) = q[1] /\ q[1] \in JobStates /\ 1 \in 1..Len(q) BY <2>1
  <2>3. /\ Tail(q) \in Seq(JobStates) /\ Len(Tail(q)) = Len(q) - 1
        /\ \A i \in 1..Len(q) - 1 : Tail(q)[i] = q[i + 1]
        /\ Len(q) \in Nat
    BY <2>1
  <2>4. /\ frames'[s] = Tail(q) /\ frames' \in [Slots -> Seq(JobStates)]
        /\ \A t \in Slots : t # s => frames'[t] = frames[t]
    BY <1>1, <1>2, <2>1, <2>3 DEF Receives
  <2>5. row' = row /\ page'.shown = q[1] BY <1>1, <1>2, <2>2 DEF Receives, Pages
  <2>6. page' \in Pages BY <1>1, <1>2, <2>2 DEF Receives, Pages
  <2>7. page'.source = "open" => page'.slot = s
    BY <1>1, <1>2, <2>2 DEF Receives, Pages
  <2>8. stream' \in [Slots -> Streams]
    <3>1. [stream[s] EXCEPT !.client = FALSE] \in Streams BY <1>1, <2>1, ClientGone
    <3>2. QED BY <1>1, <1>2, <2>1, <3>1 DEF Receives
  <2>9. StreamTypeOK' BY <1>2, <2>4, <2>6, <2>8 DEF Receives, StreamTypeOK
  <2>10. FramesInv'
    <3> SUFFICES ASSUME NEW t \in Slots, NEW i \in 1..Len(frames'[t])
                 PROVE  /\ frames'[t][i].revision <= row.revision
                        /\ \A k \in i..Len(frames'[t]) :
                              frames'[t][i].revision <= frames'[t][k].revision
      BY <2>5 DEF FramesInv
    <3>1. CASE t # s BY <2>4, <3>1 DEF FramesInv
    <3>2. CASE t = s
      <4>0. Len(frames'[t]) = Len(q) - 1 BY <2>3, <2>4, <3>2
      <4>1. i + 1 \in 1..Len(q) /\ frames'[t][i] = q[i + 1]
        <5>1. i \in 1..Len(q) - 1 BY <4>0
        <5>2. frames'[t][i] = Tail(q)[i] BY <2>4, <3>2
        <5>3. Tail(q)[i] = q[i + 1] BY <2>3, <5>1
        <5>4. i + 1 \in 1..Len(q) BY <2>3, <5>1
        <5>5. QED BY <5>2, <5>3, <5>4
      <4>2. \A k \in i..Len(frames'[t]) :
              k + 1 \in i + 1..Len(q) /\ frames'[t][k] = q[k + 1]
        <5> TAKE k \in i..Len(frames'[t])
        <5>1. k \in 1..Len(q) - 1 /\ k + 1 \in i + 1..Len(q) BY <2>3, <4>0
        <5>2. frames'[t][k] = Tail(q)[k] BY <2>4, <3>2
        <5>3. Tail(q)[k] = q[k + 1] BY <2>3, <5>1
        <5>4. QED BY <5>1, <5>2, <5>3
      <4>3. QED BY <2>1, <4>1, <4>2 DEF FramesInv
    <3>3. QED BY <3>1, <3>2
  <2>11. \A k \in 1..Len(q) : q[1].revision <= q[k].revision
    BY <2>1, <2>2 DEF FramesInv
  <2>12. q[1].revision <= row.revision BY <2>1, <2>2 DEF FramesInv
  <2>13. \A i \in 1..Len(frames'[s]) : q[1].revision <= frames'[s][i].revision
    <3> TAKE i \in 1..Len(frames'[s])
    <3>1. i + 1 \in 1..Len(q) /\ frames'[s][i] = q[i + 1] BY <2>3, <2>4
    <3>2. QED BY <2>11, <3>1
  <2>14. PageInv'
    BY <2>1, <2>5, <2>7, <2>12, <2>13 DEF PageInv
  <2>15. NoSilentEnd' BY <1>1, <1>2, <2>2 DEF Receives, Pages, NoSilentEnd
  <2>16. page.shown.revision <= q[1].revision
    BY <1>2, <2>2 DEF Receives, PageInv
  <2>17. page.shown.revision \in Nat /\ q[1].revision \in Nat
    BY <1>1, <2>2, RevisionNat DEF Pages
  <2>18. QED BY <2>5, <2>9, <2>10, <2>14, <2>15, <2>16, <2>17
<1>3. CASE Reloads \/ RetriesByHand
  <2>1. page' \in Pages /\ page'.shown = row
    <3>1. 0 \in 0..MaxFailures BY StreamAssumption DEF StreamAssumption
    <3>2. QED BY <1>1, <1>3, <3>1 DEF Reloads, RetriesByHand, Pages
  <2>2. page'.source # "open" /\ (page'.source = "stopped" => row.status \in Terminal)
    BY <1>1, <1>3 DEF Reloads, RetriesByHand, Pages
  <2>3. StreamTypeOK' BY <1>3, <2>1 DEF Reloads, RetriesByHand, StreamTypeOK
  <2>4. row.revision \in Nat /\ page.shown.revision \in Nat
    BY <1>1, RevisionNat DEF Pages
  <2>5. FramesInv' BY <1>3 DEF Reloads, RetriesByHand, FramesInv
  <2>6. PageInv' BY <1>3, <2>1, <2>2, <2>4 DEF Reloads, RetriesByHand, PageInv
  <2>7. NoSilentEnd' BY <2>1, <2>2 DEF NoSilentEnd
  <2>8. QED BY <2>1, <2>3, <2>4, <2>5, <2>6, <2>7 DEF PageInv
<1>4. QED BY <1>2, <1>3

-----------------------------------------------------------------------------
(* Theorems *)

\* Every step, or stuttering, keeps the invariant and what the page shows from
\* going back.
LEMMA InvStep ==
  ASSUME StreamInv, [StreamNext]_streamVars
  PROVE  StreamInv' /\ page'.shown.revision >= page.shown.revision
<1>1. page.shown.revision \in Nat BY RevisionNat DEF StreamInv, StreamTypeOK, Pages
<1>2. CASE UNCHANGED streamVars
  <2>1. StreamTypeOK' BY <1>2 DEF streamVars, StreamInv, StreamTypeOK
  <2>2. (FramesInv /\ PageInv /\ NoSilentEnd)'
    BY <1>2 DEF streamVars, StreamInv, FramesInv, PageInv, NoSilentEnd
  <2>3. QED BY <1>1, <1>2, <2>1, <2>2 DEF streamVars, StreamInv
<1>3. CASE Runs \/ Finishes \/ Expires \/ RunsAgain
  <2>1. page' = page BY <1>3 DEF Runs, Finishes, Expires, RunsAgain, Commits
  <2>2. QED BY <1>1, <1>3, <2>1, WorkerKeeps
<1>4. ASSUME NEW s \in Slots,
             StreamStep(s) \/ DeadlinePasses(s) \/ StreamBreaks(s) \/ ListenerDies(s)
      PROVE  StreamInv' /\ page'.shown.revision >= page.shown.revision
  <2>1. Generates(s) BY <1>4, GeneratorSteps DEF StreamInv
  <2>2. page' = page BY <2>1 DEF Generates
  <2>3. StreamInv' BY <2>1, GeneratorKeeps
  <2>4. QED BY <1>1, <2>2, <2>3
<1>5. CASE (\E s \in Slots : Opens(s)) \/ RetryTimer \/ Reopens \/ Refused \/ Drops \/ Leaves
  BY <1>1, <1>5, ConnectionKeeps
<1>6. CASE Receives \/ Reloads \/ RetriesByHand BY <1>6, ShowingKeeps
<1>7. QED BY <1>2, <1>3, <1>4, <1>5, <1>6 DEF StreamNext, PageStep

\* The inductive invariant holds at the start.
LEMMA StreamInvInit == StreamInit => StreamInv
<1> SUFFICES ASSUME StreamInit PROVE StreamInv OBVIOUS
<1>1. page \in Pages
  BY StreamAssumption, IdleType DEF StreamInit, Pages, StreamAssumption
<1>2. StreamTypeOK
  BY <1>1, StreamAssumption, IdleType DEF StreamInit, StreamTypeOK, StreamAssumption
<1>3. FramesInv BY DEF StreamInit, FramesInv
<1>4. PageInv BY DEF StreamInit, PageInv, NoJob
<1>5. NoSilentEnd BY DEF StreamInit, NoSilentEnd
<1>6. QED BY <1>2, <1>3, <1>4, <1>5 DEF StreamInv

\* The inductive invariant holds in every reachable state.
LEMMA StreamInvAlways == StreamSpec => []StreamInv
<1>1. StreamInv /\ [StreamNext]_streamVars => StreamInv' BY InvStep
<1>2. QED BY <1>1, StreamInvInit, PTL DEF StreamSpec

\* For any number of requests, revisions and faults, every variable keeps its
\* type; in particular followJob never counts past maxRetries.
THEOREM StreamTypeCorrect == StreamSpec => []StreamTypeOK
<1>1. StreamInv => StreamTypeOK BY DEF StreamInv
<1>2. QED BY <1>1, StreamInvAlways, PTL

\* For any number of requests and faults, a page stops following only with a
\* finished status on screen or the notice that the stream is lost (followJob).
THEOREM NeverEndsSilently == StreamSpec => []NoSilentEnd
<1>1. StreamInv => NoSilentEnd BY DEF StreamInv
<1>2. QED BY <1>1, StreamInvAlways, PTL

\* For any number of requests, abandoned ones included, a page never goes back
\* to an older state of the row (job_events, followJob).
THEOREM ShownIsMonotonic == StreamSpec => ShownNeverGoesBack
<1>1. StreamInv /\ [StreamNext]_streamVars => [page'.shown.revision >= page.shown.revision]_streamVars
  BY InvStep
<1>2. QED BY <1>1, StreamInvAlways, PTL DEF StreamSpec, ShownNeverGoesBack

-----------------------------------------------------------------------------
(* The page as a watcher *)

\* A frame, or what is shown, that has the row's revision is the row, and a page
\* that lost the stream follows nothing.
CurrentInv ==
  /\ \A s \in Slots : \A i \in 1..Len(frames[s]) :
       frames[s][i].revision = row.revision => frames[s][i] = row
  /\ page.shown.revision = row.revision => page.shown = row
  /\ page.lost => page.source \in {"stopped", "left"}

\* A commit makes the row newer than every frame and every screen.
LEMMA WorkerCurrent ==
  ASSUME StreamInv, CurrentInv, Runs \/ Finishes \/ Expires \/ RunsAgain
  PROVE  CurrentInv' /\ Watcher!Write
<1>1. PICK status : Commits(status) BY DEF Runs, Finishes, Expires, RunsAgain
<1>2. /\ row' = [status |-> status, revision |-> row.revision + 1]
      /\ frames' = frames /\ page' = page
  BY <1>1 DEF Commits
<1>3. row.revision \in Nat /\ row'.revision = row.revision + 1
  BY <1>2, RevisionNat DEF StreamInv, StreamTypeOK
<1>4. row.status = "completed" => row'.status = "completed"
  BY <1>3 DEF Runs, Finishes, Expires, RunsAgain, Commits, Terminal
<1>5. \A n \in Nat : n <= row.revision => n # row'.revision BY <1>3
<1>6. ASSUME NEW s \in Slots, NEW i \in 1..Len(frames[s])
      PROVE  frames[s][i].revision # row'.revision
  <2>1. frames[s][i] \in JobStates BY DEF StreamInv, StreamTypeOK
  <2>2. frames[s][i].revision <= row.revision BY DEF StreamInv, FramesInv
  <2>3. QED BY <1>5, <2>1, <2>2, RevisionNat
<1>7. page.shown.revision # row'.revision
  <2>1. page.shown \in JobStates BY DEF StreamInv, StreamTypeOK, Pages
  <2>2. QED BY <1>5, <2>1, RevisionNat DEF StreamInv, PageInv
<1>8. CurrentInv' BY <1>2, <1>6, <1>7 DEF CurrentInv
<1>9. Watch' = Watch BY <1>2 DEF Watch
<1>10. QED BY <1>2, <1>3, <1>4, <1>8, <1>9 DEF Watcher!Write

\* A generator sends nothing or the row as it is, and the page sees none of it.
LEMMA GeneratorCurrent ==
  ASSUME StreamInv, CurrentInv, NEW s \in Slots, Generates(s)
  PROVE  CurrentInv' /\ UNCHANGED <<row, page.shown, Watch>>
<1>1. row' = row /\ page' = page BY DEF Generates
<1>2. UNCHANGED <<row, page.shown, Watch>> BY <1>1 DEF Watch
<1>3. CASE frames' = frames BY <1>1, <1>2, <1>3 DEF CurrentInv
<1>4. CASE frames' = [frames EXCEPT ![s] = Append(frames[s], row)]
  <2>1. frames \in [Slots -> Seq(JobStates)] /\ row \in JobStates
    BY DEF StreamInv, StreamTypeOK
  <2>2. /\ \A t \in Slots : t # s => frames'[t] = frames[t]
        /\ frames'[s] = Append(frames[s], row)
    BY <1>4, <2>1
  <2>3. /\ Len(frames'[s]) = Len(frames[s]) + 1 /\ Len(frames[s]) \in Nat
        /\ \A i \in 1..Len(frames[s]) : frames'[s][i] = frames[s][i]
        /\ frames'[s][Len(frames[s]) + 1] = row
    BY <2>1, <2>2
  <2>4. ASSUME NEW t \in Slots, NEW i \in 1..Len(frames'[t]),
               frames'[t][i].revision = row.revision
        PROVE  frames'[t][i] = row
    <3>1. CASE t # s BY <2>2, <2>4, <3>1 DEF CurrentInv
    <3>2. CASE t = s /\ i = Len(frames[s]) + 1 BY <2>3, <3>2
    <3>3. CASE t = s /\ i # Len(frames[s]) + 1
      <4>1. i \in 1..Len(frames[s]) BY <2>3, <3>3
      <4>2. QED BY <2>3, <2>4, <3>3, <4>1 DEF CurrentInv
    <3>4. QED BY <3>1, <3>2, <3>3
  <2>5. QED BY <1>1, <1>2, <2>4 DEF CurrentInv
<1>5. QED BY <1>3, <1>4 DEF Generates

\* Opening, waiting and losing a connection change nothing on the page; giving
\* up and leaving end the watch.
LEMMA ConnectionCurrent ==
  ASSUME StreamInv, CurrentInv,
         (\E s \in Slots : Opens(s)) \/ RetryTimer \/ Reopens \/ Refused \/ Drops \/ Leaves
  PROVE  /\ CurrentInv'
         /\ \/ UNCHANGED <<row, page.shown, Watch>>
            \/ Watcher!GiveUp \/ Watcher!Leave
<1>1. /\ page \in Pages /\ frames \in [Slots -> Seq(JobStates)]
      /\ page.source = "open" => page.slot \in Slots
  BY DEF StreamInv, StreamTypeOK, PageInv
<1>2. row' = row /\ page'.shown = page.shown
  <2>1. page'.shown = page.shown BY ConnectionKeeps
  <2>2. row' = row BY DEF Opens, RetryTimer, Reopens, Refused, Drops, Leaves
  <2>3. QED BY <2>1, <2>2
<1>3. \A t \in Slots : frames'[t] = frames[t] \/ frames'[t] = <<>>
  BY <1>1 DEF Opens, RetryTimer, Reopens, Refused, Drops, Leaves
<1>4. \A t \in Slots : \A i \in 1..Len(frames'[t]) :
        frames'[t][i].revision = row.revision => frames'[t][i] = row
  BY <1>3 DEF CurrentInv
<1>5. page'.lost => page'.source \in {"stopped", "left"}
  BY <1>1 DEF CurrentInv, Pages, Opens, RetryTimer, Reopens, Refused, Drops, Leaves
<1>6. CurrentInv' BY <1>2, <1>4, <1>5 DEF CurrentInv
<1>7. CASE (\E s \in Slots : Opens(s)) \/ RetryTimer \/ Reopens \/ Drops
  <2>1. Watch = "watching" /\ Watch' = "watching"
    BY <1>1, <1>7 DEF Watch, Pages, Opens, RetryTimer, Reopens, Drops
  <2>2. QED BY <1>2, <1>6, <2>1
<1>8. CASE Refused
  <2>1. Watch = "watching" BY <1>8 DEF Refused, Watch
  <2>2. Watch' = "watching" \/ Watch' = "lost" BY <1>1, <1>8 DEF Refused, Watch, Pages
  <2>3. QED BY <1>2, <1>6, <2>1, <2>2 DEF Watcher!GiveUp
<1>9. CASE Leaves
  <2>1. Watch' = "left" BY <1>1, <1>9 DEF Leaves, Watch, Pages
  <2>2. QED BY <1>2, <1>6, <2>1 DEF Watcher!Leave
<1>10. QED BY <1>7, <1>8, <1>9

\* A frame received, or the row loaded again, is a look at the row.
LEMMA ShowingCurrent ==
  ASSUME StreamInv, CurrentInv, Receives \/ Reloads
  PROVE  CurrentInv' /\ Watcher!Look
<1>1. /\ page \in Pages /\ frames \in [Slots -> Seq(JobStates)] /\ row \in JobStates
      /\ row' = row
  BY DEF StreamInv, StreamTypeOK, Receives, Reloads
<1>2. Watch = "watching" /\ ~page.lost
  BY DEF Receives, Reloads, Watch, CurrentInv
<1>3. row.revision \in Nat /\ page.shown.revision \in Nat BY <1>1, RevisionNat DEF Pages
<1>4. CASE Receives
  <2> DEFINE s == page.slot
             q == frames[s]
  <2>1. s \in Slots /\ q \in Seq(JobStates) /\ q # <<>>
    BY <1>1, <1>4 DEF Receives, StreamInv, PageInv
  <2>2. Head(q) = q[1] /\ q[1] \in JobStates /\ 1 \in 1..Len(q) BY <2>1
  <2>3. page'.shown = q[1] /\ page'.lost = page.lost /\ page'.source \in {"open", "finished"}
    BY <1>1, <1>4, <2>2 DEF Receives, Pages
  <2>4. Watch' = "watching" BY <2>3 DEF Watch
  <2>5. q[1].revision \in page.shown.revision..row.revision
    <3>1. q[1].revision \in Nat BY <2>2, RevisionNat
    <3>2. page.shown.revision <= q[1].revision
      BY <1>4, <2>2 DEF Receives, StreamInv, PageInv
    <3>3. q[1].revision <= row.revision BY <2>1, <2>2 DEF StreamInv, FramesInv
    <3>4. QED BY <1>3, <3>1, <3>2, <3>3
  <2>6. q[1].revision = row.revision => q[1] = row BY <2>1, <2>2 DEF CurrentInv
  <2>7. /\ frames'[s] = Tail(q)
        /\ \A t \in Slots : t # s => frames'[t] = frames[t]
    BY <1>1, <1>4, <2>1 DEF Receives
  <2>8. ASSUME NEW t \in Slots, NEW i \in 1..Len(frames'[t]),
               frames'[t][i].revision = row.revision
        PROVE  frames'[t][i] = row
    <3>1. CASE t # s BY <2>7, <2>8, <3>1 DEF CurrentInv
    <3>2. CASE t = s
      <4>1. /\ Len(Tail(q)) = Len(q) - 1 /\ Len(q) \in Nat
            /\ \A k \in 1..Len(q) - 1 : Tail(q)[k] = q[k + 1]
        BY <2>1
      <4>2. i \in 1..Len(q) - 1 BY <2>7, <3>2, <4>1
      <4>3. i + 1 \in 1..Len(q) BY <4>1, <4>2
      <4>4. frames'[t][i] = Tail(q)[i] BY <2>7, <3>2
      <4>5. frames'[t][i] = q[i + 1] BY <4>1, <4>2, <4>4
      <4>6. QED BY <2>1, <2>8, <4>3, <4>5 DEF CurrentInv
    <3>3. QED BY <3>1, <3>2
  <2>9. CurrentInv' BY <1>1, <1>2, <2>3, <2>6, <2>8 DEF CurrentInv
  <2>10. QED BY <1>1, <1>2, <2>3, <2>4, <2>5, <2>6, <2>9 DEF Watcher!Look
<1>5. CASE Reloads
  <2>1. page'.shown = row /\ page'.lost = page.lost /\ frames' = frames
    BY <1>1, <1>5 DEF Reloads, Pages
  <2>2. CurrentInv' BY <1>1, <1>2, <2>1 DEF CurrentInv
  <2>3. row.revision \in page.shown.revision..row.revision
    BY <1>3 DEF StreamInv, PageInv
  <2>4. CASE row.status \in Terminal
    <3>1. page'.source = "stopped" BY <1>1, <1>5, <2>4 DEF Reloads, Pages
    <3>2. Watch' = "finished" BY <1>2, <2>1, <3>1 DEF Watch
    <3>3. QED
      BY <1>1, <1>2, <2>1, <2>2, <2>3, <2>4, <3>2
      DEF Watcher!Look, Watcher!Finished, Terminal
  <2>5. CASE row.status \notin Terminal
    <3>1. page'.source = "connecting" BY <1>1, <1>5, <2>5 DEF Reloads, Pages
    <3>2. Watch' = "watching" BY <3>1 DEF Watch
    <3>3. QED BY <1>1, <1>2, <2>1, <2>2, <2>3, <3>2 DEF Watcher!Look
  <2>6. QED BY <2>4, <2>5
<1>6. QED BY <1>4, <1>5

\* A lost stream taken up again by hand shows the row.
LEMMA RetryCurrent ==
  ASSUME StreamInv, CurrentInv, RetriesByHand
  PROVE  CurrentInv' /\ Watcher!Retry
<1>1. page \in Pages /\ row' = row /\ frames' = frames
  BY DEF StreamInv, StreamTypeOK, RetriesByHand
<1>2. Watch = "lost" BY DEF RetriesByHand, Watch
<1>3. /\ page'.shown = row /\ page'.lost = FALSE
      /\ page'.source = IF row.status \in Terminal THEN "stopped" ELSE "connecting"
  BY <1>1 DEF RetriesByHand, Pages
<1>4. CurrentInv' BY <1>1, <1>3 DEF CurrentInv
<1>5. Watch' = IF row.status \in Terminal THEN "finished" ELSE "watching"
  BY <1>3 DEF Watch
<1>6. QED BY <1>1, <1>2, <1>3, <1>4, <1>5 DEF Watcher!Retry, Watcher!Finished, Terminal

\* Every step is a step of the watcher or leaves what it sees alone.
LEMMA WatcherStep ==
  ASSUME StreamInv, CurrentInv, [StreamNext]_streamVars
  PROVE  CurrentInv' /\ [Watcher!Next]_<<row, page.shown, Watch>>
<1>1. CASE UNCHANGED streamVars
  BY <1>1 DEF streamVars, CurrentInv, Watch
<1>2. CASE Runs \/ Finishes \/ Expires \/ RunsAgain
  BY <1>2, WorkerCurrent DEF Watcher!Next
<1>3. ASSUME NEW s \in Slots,
             StreamStep(s) \/ DeadlinePasses(s) \/ StreamBreaks(s) \/ ListenerDies(s)
      PROVE  CurrentInv' /\ [Watcher!Next]_<<row, page.shown, Watch>>
  <2>1. Generates(s) BY <1>3, GeneratorSteps DEF StreamInv
  <2>2. QED BY <2>1, GeneratorCurrent
<1>4. CASE (\E s \in Slots : Opens(s)) \/ RetryTimer \/ Reopens \/ Refused \/ Drops \/ Leaves
  BY <1>4, ConnectionCurrent DEF Watcher!Next
<1>5. CASE Receives \/ Reloads BY <1>5, ShowingCurrent DEF Watcher!Next
<1>6. CASE RetriesByHand BY <1>6, RetryCurrent DEF Watcher!Next
<1>7. QED BY <1>1, <1>2, <1>3, <1>4, <1>5, <1>6 DEF StreamNext, PageStep

\* For any number of requests, revisions, faults and retries, the page is a
\* watcher of the row: notifications lost before LISTEN, requests it abandoned
\* and frames still under way never make it show anything else (job_events,
\* followJob).
THEOREM WatcherRefinement == StreamSpec => ImplementsWatcher
<1>1. StreamInit => CurrentInv /\ Watcher!Init
  BY DEF StreamInit, CurrentInv, NoJob, Watch, Watcher!Init
<1>2. StreamInv /\ CurrentInv /\ [StreamNext]_streamVars
        => CurrentInv' /\ [Watcher!Next]_<<row, page.shown, Watch>>
  BY WatcherStep
<1>3. QED
  BY <1>1, <1>2, StreamInvAlways, PTL DEF StreamSpec, ImplementsWatcher, Watcher!Spec
=============================================================================
