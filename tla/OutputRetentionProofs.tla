------------------------ MODULE OutputRetentionProofs ------------------------
(***************************************************************************)
(* The result files, for any number of jobs, attempts, expiry passes,      *)
(* readers and batch sizes: a manifest that points at a missing object     *)
(* belongs to a job the next pass still selects, and of an expired job     *)
(* nothing is left but what a late upload put there.                       *)
(***************************************************************************)
EXTENDS OutputRetention, TLAPS

\* A job past its retention is completed.
OldInv == \A j \in old : row[j].status = "completed"

\* Before retention, what an upload has not still to put is stored.
UploadInv ==
  \A j \in Jobs \ old : \A n \in Attempts :
    /\ coroutine[j][n] = "uploading" => Files \subseteq objects[j] \cup upload[j][n]
    /\ coroutine[j][n] = "record" => Files \subseteq objects[j]

\* A pass works on jobs past their retention, and knows every key that is left
\* of the one it deletes but those put since it listed them.
PassInv ==
  /\ expired \subseteq old
  /\ \A p \in Passes :
       /\ pass[p].todo \subseteq old
       /\ pass[p].pc = "deleting" => /\ pass[p].job \in old
                                     /\ objects[pass[p].job] \ late[pass[p].job]
                                          \subseteq pass[p].names
       /\ pass[p].pc = "marking" => /\ pass[p].job \in old
                                    /\ objects[pass[p].job] \subseteq late[pass[p].job]

\* A reader who was answered 410 asked for an expired job.
AnswerInv == \A r \in Readers : gone[r] \subseteq expired

IInv ==
  /\ TypeOK /\ OldInv /\ UploadInv /\ PassInv /\ AnswerInv
  /\ ExpiredMeansGone /\ DanglingIsExpirable

-----------------------------------------------------------------------------
(* Types *)

\* The rows the statements write are rows.
LEMMA RowTypes ==
  ASSUME NEW j \in Rows(MaxAttempt), NEW n \in Attempts, MaxAttempt \in Nat
  PROVE  /\ AbsentRow \in Rows(MaxAttempt) /\ QueuedRow \in Rows(MaxAttempt)
         /\ Claimed(j, n) \in Rows(MaxAttempt)
         /\ Completed(j) \in Rows(MaxAttempt)
         /\ Reconciled(j, n) \in Rows(MaxAttempt)
BY DEF Rows, Row, AbsentRow, QueuedRow, Claimed, Completed, Reconciled, ReconciledOwner,
       Attempts, NoOwner, Statuses, TerminalStatuses

\* An update of one job's attempt keeps the type of a table of attempts.
LEMMA NestedUpdate ==
  ASSUME NEW T, NEW f \in [Jobs -> [Attempts -> T]], NEW j \in Jobs, NEW n \in Attempts,
         NEW y \in T
  PROVE  [f EXCEPT ![j][n] = y] \in [Jobs -> [Attempts -> T]]
OBVIOUS

\* An update with a value of the range keeps a function's type.
LEMMA Update ==
  ASSUME NEW S, NEW T, NEW f \in [S -> T], NEW x \in S, NEW y \in T
  PROVE  [f EXCEPT ![x] = y] \in [S -> T]
OBVIOUS

\* Steps of an attempt keep the variables in their types.
LEMMA AttemptType ==
  ASSUME RetentionAssumption, TypeOK, NEW j \in Jobs, NEW n \in Attempts, AttemptNext(j, n)
  PROVE  TypeOK'
<1> USE DEF TypeOK, jobVars, storeVars
<1> DEFINE States == {"idle", "running", "uploading", "record", "ended"}
<1>0. MaxAttempt \in Nat BY DEF RetentionAssumption
<1>1. CASE MarkStarted(j, n)
  <2>1. row' \in [Jobs -> Rows(MaxAttempt)]
    <3>1. Claimed(row[j], n) \in Rows(MaxAttempt) BY <1>0, RowTypes
    <3>2. row' = [row EXCEPT ![j] = Claimed(row[j], n)] BY <1>1 DEF MarkStarted
    <3>3. QED BY <3>1, <3>2, Update
  <2>2. coroutine' \in [Jobs -> [Attempts -> States]]
    BY <1>1, NestedUpdate DEF MarkStarted, Moves
  <2>3. QED BY <1>1, <2>1, <2>2 DEF MarkStarted
<1>2. CASE StartUpload(j, n)
  <2>1. coroutine' \in [Jobs -> [Attempts -> States]]
    BY <1>2, NestedUpdate DEF StartUpload, Moves
  <2>2. upload' \in [Jobs -> [Attempts -> SUBSET Keys]]
    BY <1>2, NestedUpdate DEF StartUpload
  <2>3. QED BY <1>2, <2>1, <2>2 DEF StartUpload
<1>3. ASSUME NEW k \in Keys, PutObject(j, n, k) PROVE TypeOK'
  <2>1. upload' \in [Jobs -> [Attempts -> SUBSET Keys]]
    BY <1>3, NestedUpdate DEF PutObject
  <2>2. objects' \in [Jobs -> SUBSET Keys] BY <1>3, Update DEF PutObject
  <2>3. late' \in [Jobs -> SUBSET Keys] BY <1>3, Update DEF PutObject
  <2>4. QED BY <1>3, <2>1, <2>2, <2>3 DEF PutObject
<1>4. CASE UploadStops(j, n)
  <2>1. upload' \in [Jobs -> [Attempts -> SUBSET Keys]]
    BY <1>4, NestedUpdate DEF UploadStops
  <2>2. coroutine' \in [Jobs -> [Attempts -> States]]
    BY <1>4, NestedUpdate DEF UploadStops
  <2>3. QED BY <1>4, <2>1, <2>2 DEF UploadStops
<1>5. CASE Cancelled(j, n)
  <2>1. coroutine' \in [Jobs -> [Attempts -> States]]
    BY <1>5, NestedUpdate DEF Cancelled
  <2>2. QED BY <1>5, <2>1 DEF Cancelled
<1>6. CASE UploadReturns(j, n)
  <2>1. coroutine' \in [Jobs -> [Attempts -> States]]
    BY <1>6, NestedUpdate DEF UploadReturns, Moves
  <2>2. QED BY <1>6, <2>1 DEF UploadReturns
<1>7. CASE RecordManifest(j, n)
  <2>1. coroutine' \in [Jobs -> [Attempts -> States]]
    BY <1>7, NestedUpdate DEF RecordManifest, Moves
  <2>2. row' \in [Jobs -> Rows(MaxAttempt)]
    <3>1. Completed(row[j]) \in Rows(MaxAttempt) BY <1>0, RowTypes
    <3>2. row' = row \/ row' = [row EXCEPT ![j] = Completed(row[j])]
      BY <1>7 DEF RecordManifest
    <3>3. QED BY <3>1, <3>2, Update
  <2>3. manifest' \in [Jobs -> SUBSET Files] BY <1>7 DEF RecordManifest
  <2>4. QED BY <1>7, <2>1, <2>2, <2>3 DEF RecordManifest
<1>8. CASE FailJob(j, n)
  <2>1. row' \in [Jobs -> Rows(MaxAttempt)]
    <3>1. Reconciled(row[j], n) \in Rows(MaxAttempt) BY <1>0, RowTypes
    <3>2. row' = [row EXCEPT ![j] = Reconciled(row[j], n)] BY <1>8 DEF FailJob
    <3>3. QED BY <3>1, <3>2, Update
  <2>2. QED BY <1>8, <2>1 DEF FailJob, attemptVars
<1>9. QED BY <1>1, <1>2, <1>3, <1>4, <1>5, <1>6, <1>7, <1>8 DEF AttemptNext

\* Steps of an expiry pass keep the variables in their types.
LEMMA PassType ==
  ASSUME RetentionAssumption, TypeOK, PassInv, NEW p \in Passes, PassStep(p) \/ PassAborts(p)
  PROVE  TypeOK'
<1> USE DEF TypeOK, jobVars, storeVars, attemptVars
<1>1. pass[p] \in PassStates OBVIOUS
<1>2. IdlePass \in PassStates BY DEF IdlePass, PassStates
<1>3. CASE ListExpired(p)
  <2>1. PICK S \in SUBSET Jobs : pass' = [pass EXCEPT ![p] =
          [IdlePass EXCEPT !.pc = "working", !.todo = S, !.full = Cardinality(S) = Batch]]
    BY <1>3 DEF ListExpired
  <2>2. [IdlePass EXCEPT !.pc = "working", !.todo = S, !.full = (Cardinality(S) = Batch)]
          \in PassStates
    BY Zenon DEF IdlePass, PassStates
  <2>3. pass' \in [Passes -> PassStates] BY <2>1, <2>2, Update
  <2>4. QED BY <1>3, <2>3 DEF ListExpired
<1>4. ASSUME NEW j \in Jobs, ListObjects(p, j) PROVE TypeOK'
  <2>1. [pass[p] EXCEPT !.pc = "deleting", !.job = j, !.names = objects[j]] \in PassStates
    BY <1>1 DEF PassStates
  <2>2. pass' \in [Passes -> PassStates] BY <1>4, <2>1 DEF ListObjects
  <2>3. QED BY <1>4, <2>2 DEF ListObjects
<1>5. ASSUME NEW k \in Keys, RemoveObject(p, k) PROVE TypeOK'
  <2>1. [pass[p] EXCEPT !.names = @ \ {k}] \in PassStates BY <1>1 DEF PassStates
  <2>2. pass' \in [Passes -> PassStates] BY <1>5, <2>1 DEF RemoveObject
  <2>3. objects' \in [Jobs -> SUBSET Keys] /\ late' \in [Jobs -> SUBSET Keys]
    BY <1>5 DEF RemoveObject
  <2>4. QED BY <1>5, <2>2, <2>3 DEF RemoveObject
<1>6. CASE DeletedAll(p)
  <2>1. [pass[p] EXCEPT !.pc = "marking"] \in PassStates BY <1>1 DEF PassStates
  <2>2. pass' \in [Passes -> PassStates] BY <1>6, <2>1 DEF DeletedAll
  <2>3. QED BY <1>6, <2>2 DEF DeletedAll
<1>7. CASE MarkExpired(p)
  <2>1. [pass[p] EXCEPT !.pc = "working", !.todo = @ \ {pass[p].job}, !.job = NoJob]
          \in PassStates
    BY <1>1 DEF PassStates
  <2>2. pass' \in [Passes -> PassStates] BY <1>7, <2>1 DEF MarkExpired
  <2>3. manifest' \in [Jobs -> SUBSET Files] BY <1>7 DEF MarkExpired
  <2>4. expired' \in SUBSET Jobs BY <1>7 DEF MarkExpired, PassInv
  <2>5. QED BY <1>7, <2>2, <2>3, <2>4 DEF MarkExpired
<1>8. CASE PassReturns(p)
  <2>1. pass' \in [Passes -> PassStates] BY <1>2, <1>8, Update DEF PassReturns
  <2>2. QED BY <1>8, <2>1 DEF PassReturns
<1>9. CASE PassAborts(p)
  <2>1. pass' \in [Passes -> PassStates] BY <1>2, <1>9, Update DEF PassAborts
  <2>2. aborts' \in 0..MaxAborts BY <1>9 DEF PassAborts, RetentionAssumption
  <2>3. QED BY <1>9, <2>1, <2>2 DEF PassAborts
<1>10. QED BY <1>3, <1>4, <1>5, <1>6, <1>7, <1>8, <1>9 DEF PassStep

\* Every step, or stuttering, keeps the variables in their types.
LEMMA TypeStep ==
  ASSUME RetentionAssumption, TypeOK, PassInv, [Next]_vars
  PROVE  TypeOK'
<1> USE DEF TypeOK, jobVars, storeVars, attemptVars
<1>1. ASSUME NEW j \in Jobs, Submit(j) PROVE TypeOK'
  <2>1. QueuedRow \in Rows(MaxAttempt)
    BY DEF Rows, Row, QueuedRow, Statuses
  <2>2. QED BY <1>1, <2>1, Update DEF Submit
<1>2. ASSUME NEW j \in Jobs, PassRetention(j) PROVE TypeOK'
  BY <1>2 DEF PassRetention
<1>3. ASSUME NEW r \in Readers, NEW j \in Jobs, GetOutput(r, j) PROVE TypeOK'
  BY <1>3 DEF GetOutput
<1>4. CASE UNCHANGED vars BY <1>4 DEF vars
<1>5. QED BY <1>1, <1>2, <1>3, <1>4, AttemptType, PassType DEF Next

-----------------------------------------------------------------------------
(* Safety *)

\* Steps of an attempt: an upload only adds objects, late ones once a pass has
\* listed the job; a completed row is neither claimed, completed nor failed again.
LEMMA AttemptSafe ==
  ASSUME IInv, NEW j \in Jobs, NEW n \in Attempts, AttemptNext(j, n)
  PROVE  (OldInv /\ UploadInv /\ PassInv /\ AnswerInv /\ ExpiredMeansGone
            /\ DanglingIsExpirable)'
<1> USE DEF IInv, TypeOK, jobVars, storeVars
<1> DEFINE Safe == OldInv /\ UploadInv /\ PassInv /\ AnswerInv /\ ExpiredMeansGone
                    /\ DanglingIsExpirable
<1>1. CASE MarkStarted(j, n)
  <2>1. row[j].status # "completed" /\ j \notin old
    BY <1>1 DEF MarkStarted, MayClaim, OldInv
  <2>2. \A i \in Jobs : i # j => row'[i] = row[i] BY <1>1 DEF MarkStarted
  <2>3. OldInv' BY <1>1, <2>1, <2>2 DEF MarkStarted, OldInv, Moves
  <2>4. UploadInv' BY <1>1 DEF MarkStarted, UploadInv, Moves
  <2>5. PassInv' /\ AnswerInv' /\ ExpiredMeansGone'
    BY <1>1 DEF MarkStarted, PassInv, AnswerInv, ExpiredMeansGone
  <2>6. DanglingIsExpirable'
    BY <1>1, <2>1, <2>2 DEF MarkStarted, DanglingIsExpirable, Expirable
  <2>7. QED BY <2>3, <2>4, <2>5, <2>6
<1>2. CASE StartUpload(j, n)
  <2>1. OldInv' BY <1>2 DEF StartUpload, OldInv
  <2>2. UploadInv' BY <1>2 DEF StartUpload, UploadInv, Moves, Keys
  <2>3. PassInv' /\ AnswerInv' /\ ExpiredMeansGone' /\ DanglingIsExpirable'
    BY <1>2 DEF StartUpload, PassInv, AnswerInv, ExpiredMeansGone, DanglingIsExpirable,
                Expirable
  <2>4. QED BY <2>1, <2>2, <2>3
<1>3. ASSUME NEW k \in Keys, PutObject(j, n, k) PROVE Safe'
  <2>1. \A i \in Jobs : i # j => /\ objects'[i] = objects[i] /\ late'[i] = late[i]
                                /\ upload'[i] = upload[i]
    BY <1>3 DEF PutObject
  <2>2. /\ objects'[j] = objects[j] \cup {k}
        /\ \A m \in Attempts : m # n => upload'[j][m] = upload[j][m]
        /\ upload'[j][n] = upload[j][n] \ {k}
    BY <1>3 DEF PutObject
  <2>3. /\ late[j] \subseteq late'[j]
        /\ Listed(j) => k \in late'[j]
    BY <1>3 DEF PutObject
  <2>4. OldInv' BY <1>3 DEF PutObject, OldInv
  <2>5. UploadInv' BY <1>3, <2>1, <2>2 DEF PutObject, UploadInv
  <2>6. PassInv'
    <3>1. pass' = pass /\ old' = old /\ expired' = expired BY <1>3 DEF PutObject
    <3>2. ASSUME NEW q \in Passes, pass[q].pc = "deleting"
          PROVE  objects'[pass[q].job] \ late'[pass[q].job] \subseteq pass[q].names
      <4>1. pass[q].job \in old /\ objects[pass[q].job] \ late[pass[q].job] \subseteq pass[q].names
        BY <3>2 DEF PassInv
      <4>2. CASE pass[q].job = j BY <2>2, <2>3, <3>2, <4>1, <4>2 DEF Listed
      <4>3. CASE pass[q].job # j BY <2>1, <4>1, <4>3
      <4>4. QED BY <4>2, <4>3
    <3>3. ASSUME NEW q \in Passes, pass[q].pc = "marking"
          PROVE  objects'[pass[q].job] \subseteq late'[pass[q].job]
      <4>1. pass[q].job \in old /\ objects[pass[q].job] \subseteq late[pass[q].job]
        BY <3>3 DEF PassInv
      <4>2. CASE pass[q].job = j BY <2>2, <2>3, <3>3, <4>1, <4>2 DEF Listed
      <4>3. CASE pass[q].job # j BY <2>1, <4>1, <4>3
      <4>4. QED BY <4>2, <4>3
    <3>4. QED BY <3>1, <3>2, <3>3 DEF PassInv
  <2>7. AnswerInv' BY <1>3 DEF PutObject, AnswerInv
  <2>8. ExpiredMeansGone'
    <3>1. expired' = expired /\ manifest' = manifest BY <1>3 DEF PutObject
    <3>2. ASSUME NEW i \in expired PROVE objects'[i] \subseteq late'[i]
      <4>1. i \in Jobs /\ objects[i] \subseteq late[i] BY DEF ExpiredMeansGone
      <4>2. CASE i = j BY <2>2, <2>3, <4>1, <4>2 DEF Listed
      <4>3. CASE i # j BY <2>1, <4>1, <4>3
      <4>4. QED BY <4>2, <4>3
    <3>3. QED BY <3>1, <3>2 DEF ExpiredMeansGone
  <2>9. DanglingIsExpirable'
    BY <1>3, <2>1, <2>2 DEF PutObject, DanglingIsExpirable, Expirable
  <2>10. QED BY <2>4, <2>5, <2>6, <2>7, <2>8, <2>9
<1>4. CASE UploadStops(j, n)
  <2>1. OldInv' /\ UploadInv' BY <1>4 DEF UploadStops, OldInv, UploadInv
  <2>2. PassInv' /\ AnswerInv' /\ ExpiredMeansGone' /\ DanglingIsExpirable'
    BY <1>4 DEF UploadStops, PassInv, AnswerInv, ExpiredMeansGone, DanglingIsExpirable,
                Expirable
  <2>3. QED BY <2>1, <2>2
<1>5. CASE Cancelled(j, n)
  <2>1. OldInv' /\ UploadInv' BY <1>5 DEF Cancelled, OldInv, UploadInv
  <2>2. PassInv' /\ AnswerInv' /\ ExpiredMeansGone' /\ DanglingIsExpirable'
    BY <1>5 DEF Cancelled, PassInv, AnswerInv, ExpiredMeansGone, DanglingIsExpirable,
                Expirable
  <2>3. QED BY <2>1, <2>2
<1>6. CASE UploadReturns(j, n)
  <2>1. OldInv' /\ UploadInv' BY <1>6 DEF UploadReturns, Moves, OldInv, UploadInv
  <2>2. PassInv' /\ AnswerInv' /\ ExpiredMeansGone' /\ DanglingIsExpirable'
    BY <1>6 DEF UploadReturns, PassInv, AnswerInv, ExpiredMeansGone, DanglingIsExpirable,
                Expirable
  <2>3. QED BY <2>1, <2>2
<1>7. CASE RecordManifest(j, n)
  <2>1. OldInv' /\ UploadInv'
    <3>1. \A i \in Jobs : row[i].status = "completed" => row'[i] = row[i]
      BY <1>7 DEF RecordManifest, MayComplete, TerminalStatuses
    <3>2. QED BY <1>7, <3>1 DEF RecordManifest, Moves, OldInv, UploadInv
  <2>2. PassInv' /\ AnswerInv' BY <1>7 DEF RecordManifest, PassInv, AnswerInv
  <2>3. CASE ~MayComplete(row[j], n)
    <3>1. row' = row /\ manifest' = manifest BY <1>7, <2>3 DEF RecordManifest
    <3>2. ExpiredMeansGone' /\ DanglingIsExpirable'
      BY <1>7, <3>1 DEF RecordManifest, ExpiredMeansGone, DanglingIsExpirable, Expirable
    <3>3. QED BY <2>1, <2>2, <3>2
  <2>4. CASE MayComplete(row[j], n)
    <3>1. j \notin old BY <2>4 DEF MayComplete, TerminalStatuses, OldInv
    <3>2. Files \subseteq objects[j] BY <1>7, <3>1 DEF RecordManifest, Moves, UploadInv
    <3>3. /\ manifest' = [manifest EXCEPT ![j] = Files]
          /\ row' = [row EXCEPT ![j] = Completed(row[j])]
      BY <1>7, <2>4 DEF RecordManifest
    <3>4. ExpiredMeansGone'
      BY <1>7, <3>1, <3>3 DEF RecordManifest, ExpiredMeansGone, PassInv
    <3>5. DanglingIsExpirable'
      BY <1>7, <3>2, <3>3 DEF RecordManifest, DanglingIsExpirable, Expirable
    <3>6. QED BY <2>1, <2>2, <3>4, <3>5
  <2>5. QED BY <2>3, <2>4
<1>8. CASE FailJob(j, n)
  <2>1. row[j].status # "completed" /\ j \notin old
    BY <1>8 DEF FailJob, MayReconcile, TerminalStatuses, OldInv
  <2>2. \A i \in Jobs : i # j => row'[i] = row[i] BY <1>8 DEF FailJob
  <2>3. OldInv' /\ UploadInv'
    BY <1>8, <2>1, <2>2 DEF FailJob, attemptVars, OldInv, UploadInv
  <2>4. PassInv' /\ AnswerInv' /\ ExpiredMeansGone'
    BY <1>8 DEF FailJob, PassInv, AnswerInv, ExpiredMeansGone
  <2>5. DanglingIsExpirable'
    BY <1>8, <2>1, <2>2 DEF FailJob, DanglingIsExpirable, Expirable
  <2>6. QED BY <2>3, <2>4, <2>5
<1>9. QED BY <1>1, <1>2, <1>3, <1>4, <1>5, <1>6, <1>7, <1>8 DEF AttemptNext

\* Steps of an expiry pass: it takes objects only from jobs past their
\* retention, and stamps a job only when no object is left that it listed.
LEMMA PassSafe ==
  ASSUME IInv, NEW p \in Passes, PassStep(p) \/ PassAborts(p)
  PROVE  (OldInv /\ UploadInv /\ PassInv /\ AnswerInv /\ ExpiredMeansGone
            /\ DanglingIsExpirable)'
<1> USE DEF IInv, TypeOK, jobVars, storeVars, attemptVars
<1> DEFINE Safe == OldInv /\ UploadInv /\ PassInv /\ AnswerInv /\ ExpiredMeansGone
                    /\ DanglingIsExpirable
<1>1. \A q \in Passes : pass[q] \in PassStates OBVIOUS
<1>2. CASE ListExpired(p)
  <2>1. PICK S \in SUBSET {j \in Jobs : Expirable(j)} : pass' = [pass EXCEPT ![p] =
          [IdlePass EXCEPT !.pc = "working", !.todo = S, !.full = Cardinality(S) = Batch]]
    BY <1>2 DEF ListExpired
  <2>2. pass'[p].pc = "working" /\ pass'[p].todo = S
    BY <2>1 DEF IdlePass
  <2>3. \A q \in Passes : q # p => pass'[q] = pass[q] BY <2>1
  <2>4. PassInv' BY <1>2, <2>2, <2>3 DEF ListExpired, PassInv, Expirable
  <2>5. (OldInv /\ UploadInv /\ AnswerInv /\ ExpiredMeansGone /\ DanglingIsExpirable)'
    BY <1>2 DEF ListExpired, OldInv, UploadInv, AnswerInv, ExpiredMeansGone,
                DanglingIsExpirable, Expirable
  <2>6. QED BY <2>4, <2>5
<1>3. ASSUME NEW j \in Jobs, ListObjects(p, j) PROVE Safe'
  <2>1. /\ pass'[p].pc = "deleting" /\ pass'[p].todo = pass[p].todo
        /\ pass'[p].job = j /\ pass'[p].names = objects[j]
    BY <1>1, <1>3 DEF ListObjects, PassStates
  <2>2. \A q \in Passes : q # p => pass'[q] = pass[q] BY <1>3 DEF ListObjects
  <2>3. PassInv' BY <1>3, <2>1, <2>2 DEF ListObjects, PassInv
  <2>4. (OldInv /\ UploadInv /\ AnswerInv /\ ExpiredMeansGone /\ DanglingIsExpirable)'
    BY <1>3 DEF ListObjects, OldInv, UploadInv, AnswerInv, ExpiredMeansGone,
                DanglingIsExpirable, Expirable
  <2>5. QED BY <2>3, <2>4
<1>4. ASSUME NEW k \in Keys, RemoveObject(p, k) PROVE Safe'
  <2> DEFINE j == pass[p].job
  <2>1. j \in old /\ objects[j] \ late[j] \subseteq pass[p].names
    BY <1>4 DEF RemoveObject, PassInv
  <2>2. /\ pass'[p].pc = "deleting" /\ pass'[p].todo = pass[p].todo
        /\ pass'[p].job = j /\ pass'[p].names = pass[p].names \ {k}
    BY <1>1, <1>4 DEF RemoveObject, PassStates
  <2>3. \A q \in Passes : q # p => pass'[q] = pass[q] BY <1>4 DEF RemoveObject
  <2>4. /\ objects'[j] = objects[j] \ {k} /\ late'[j] = late[j] \ {k}
        /\ \A i \in Jobs : i # j => objects'[i] = objects[i] /\ late'[i] = late[i]
        /\ \A i \in Jobs : objects'[i] \subseteq objects[i]
        /\ \A i \in Jobs : objects'[i] \ late'[i] \subseteq objects[i] \ late[i]
        /\ \A i \in Jobs : objects[i] \subseteq late[i] => objects'[i] \subseteq late'[i]
    BY <1>4, <2>1 DEF RemoveObject
  <2>5. OldInv' /\ AnswerInv' BY <1>4 DEF RemoveObject, OldInv, AnswerInv
  <2>6. UploadInv' BY <1>4, <2>1, <2>4 DEF RemoveObject, UploadInv
  <2>7. PassInv'
    <3>1. expired' \subseteq old' BY <1>4 DEF RemoveObject, PassInv
    <3>2. ASSUME NEW q \in Passes
          PROVE  /\ pass'[q].todo \subseteq old'
                 /\ pass'[q].pc = "deleting" =>
                      /\ pass'[q].job \in old'
                      /\ objects'[pass'[q].job] \ late'[pass'[q].job] \subseteq pass'[q].names
                 /\ pass'[q].pc = "marking" =>
                      /\ pass'[q].job \in old'
                      /\ objects'[pass'[q].job] \subseteq late'[pass'[q].job]
      <4>1. old' = old BY <1>4 DEF RemoveObject
      <4>2. CASE q = p BY <2>1, <2>2, <2>4, <4>1, <4>2 DEF PassInv
      <4>3. CASE q # p BY <2>3, <2>4, <4>1, <4>3 DEF PassInv
      <4>4. QED BY <4>2, <4>3
    <3>3. QED BY <3>1, <3>2 DEF PassInv
  <2>8. ExpiredMeansGone' BY <1>4, <2>4 DEF RemoveObject, ExpiredMeansGone
  <2>9. DanglingIsExpirable'
    <3>1. Expirable(j) \/ manifest[j] = {}
      BY <2>1 DEF Expirable, OldInv, ExpiredMeansGone
    <3>2. QED BY <1>4, <2>4, <3>1 DEF RemoveObject, DanglingIsExpirable, Expirable
  <2>10. QED BY <2>5, <2>6, <2>7, <2>8, <2>9
<1>5. CASE DeletedAll(p)
  <2>1. /\ pass'[p].pc = "marking" /\ pass'[p].todo = pass[p].todo
        /\ pass'[p].job = pass[p].job
    BY <1>1, <1>5 DEF DeletedAll, PassStates
  <2>2. \A q \in Passes : q # p => pass'[q] = pass[q] BY <1>5 DEF DeletedAll
  <2>3. PassInv' BY <1>5, <2>1, <2>2 DEF DeletedAll, PassInv
  <2>4. (OldInv /\ UploadInv /\ AnswerInv /\ ExpiredMeansGone /\ DanglingIsExpirable)'
    BY <1>5 DEF DeletedAll, OldInv, UploadInv, AnswerInv, ExpiredMeansGone,
                DanglingIsExpirable, Expirable
  <2>5. QED BY <2>3, <2>4
<1>6. CASE MarkExpired(p)
  <2> DEFINE j == pass[p].job
  <2>1. j \in old /\ objects[j] \subseteq late[j] /\ row[j].status = "completed"
    BY <1>6 DEF MarkExpired, PassInv, OldInv
  <2>2. pass'[p].pc = "working" /\ pass'[p].todo \subseteq pass[p].todo
    BY <1>1, <1>6 DEF MarkExpired, PassStates
  <2>3. \A q \in Passes : q # p => pass'[q] = pass[q] BY <1>6 DEF MarkExpired
  <2>4. expired' = expired \cup {j} BY <1>6, <2>1 DEF MarkExpired
  <2>5. /\ manifest'[j] = {}
        /\ \A i \in Jobs : i # j => manifest'[i] = manifest[i]
    BY <1>6, <2>1 DEF MarkExpired, ExpiredMeansGone
  <2>6. PassInv' BY <1>6, <2>1, <2>2, <2>3, <2>4 DEF MarkExpired, PassInv
  <2>7. OldInv' /\ UploadInv' BY <1>6 DEF MarkExpired, OldInv, UploadInv
  <2>8. AnswerInv' BY <1>6, <2>4 DEF MarkExpired, AnswerInv
  <2>9. ExpiredMeansGone'
    BY <1>6, <2>1, <2>4, <2>5 DEF MarkExpired, ExpiredMeansGone
  <2>10. DanglingIsExpirable'
    BY <1>6, <2>4, <2>5 DEF MarkExpired, DanglingIsExpirable, Expirable
  <2>11. QED BY <2>6, <2>7, <2>8, <2>9, <2>10
<1>7. CASE PassReturns(p) \/ PassAborts(p)
  <2>1. pass'[p].pc = "idle" /\ pass'[p].todo = {}
    BY <1>7 DEF PassReturns, PassAborts, IdlePass
  <2>2. \A q \in Passes : q # p => pass'[q] = pass[q] BY <1>7 DEF PassReturns, PassAborts
  <2>3. PassInv' BY <1>7, <2>1, <2>2 DEF PassReturns, PassAborts, PassInv
  <2>4. (OldInv /\ UploadInv /\ AnswerInv /\ ExpiredMeansGone /\ DanglingIsExpirable)'
    BY <1>7 DEF PassReturns, PassAborts, OldInv, UploadInv, AnswerInv, ExpiredMeansGone,
                DanglingIsExpirable, Expirable
  <2>5. QED BY <2>3, <2>4
<1>8. QED BY <1>2, <1>3, <1>4, <1>5, <1>6, <1>7 DEF PassStep

\* Every step, or stuttering, keeps the inductive invariant.
LEMMA InvStep ==
  ASSUME RetentionAssumption, IInv, [Next]_vars
  PROVE  IInv'
<1>1. TypeOK' BY TypeStep DEF IInv
<1> DEFINE Safe == OldInv /\ UploadInv /\ PassInv /\ AnswerInv /\ ExpiredMeansGone
                    /\ DanglingIsExpirable
<1> USE DEF jobVars, storeVars, attemptVars
<1>2. ASSUME NEW j \in Jobs, Submit(j) PROVE Safe'
  <2>1. row[j].status = "absent" /\ j \notin old BY <1>2 DEF Submit, IInv, OldInv
  <2>2. \A i \in Jobs : i # j => row'[i] = row[i] BY <1>2 DEF Submit, IInv, TypeOK
  <2>3. OldInv' BY <1>2, <2>1, <2>2 DEF Submit, IInv, TypeOK, OldInv
  <2>4. (UploadInv /\ PassInv /\ AnswerInv /\ ExpiredMeansGone)'
    BY <1>2 DEF Submit, IInv, UploadInv, PassInv, AnswerInv, ExpiredMeansGone
  <2>5. DanglingIsExpirable'
    BY <1>2, <2>1, <2>2 DEF Submit, IInv, TypeOK, DanglingIsExpirable, Expirable
  <2>6. QED BY <2>3, <2>4, <2>5
<1>3. ASSUME NEW j \in Jobs, PassRetention(j) PROVE Safe'
  <2>1. OldInv' /\ UploadInv' BY <1>3 DEF PassRetention, IInv, OldInv, UploadInv
  <2>2. PassInv' /\ AnswerInv' /\ ExpiredMeansGone' /\ DanglingIsExpirable'
    BY <1>3 DEF PassRetention, IInv, PassInv, AnswerInv, ExpiredMeansGone,
                DanglingIsExpirable, Expirable
  <2>3. QED BY <2>1, <2>2
<1>4. ASSUME NEW r \in Readers, NEW j \in Jobs, GetOutput(r, j) PROVE Safe'
  <2>1. AnswerInv' BY <1>4 DEF GetOutput, IInv, TypeOK, AnswerInv
  <2>2. (OldInv /\ UploadInv /\ PassInv /\ ExpiredMeansGone /\ DanglingIsExpirable)'
    BY <1>4 DEF GetOutput, IInv, OldInv, UploadInv, PassInv, ExpiredMeansGone,
                DanglingIsExpirable, Expirable
  <2>3. QED BY <2>1, <2>2
<1>5. ASSUME UNCHANGED vars PROVE Safe'
  <2>1. (OldInv /\ UploadInv)' BY <1>5 DEF vars, IInv, OldInv, UploadInv
  <2>2. (PassInv /\ AnswerInv)' BY <1>5 DEF vars, IInv, PassInv, AnswerInv
  <2>3. (ExpiredMeansGone /\ DanglingIsExpirable)'
    BY <1>5 DEF vars, IInv, ExpiredMeansGone, DanglingIsExpirable, Expirable
  <2>4. QED BY <2>1, <2>2, <2>3
<1>6. Safe'
  <2>1. ASSUME NEW j \in Jobs, NEW n \in Attempts, AttemptNext(j, n) PROVE Safe'
    BY <2>1, AttemptSafe
  <2>2. ASSUME NEW p \in Passes, PassStep(p) \/ PassAborts(p) PROVE Safe'
    BY <2>2, PassSafe
  <2> HIDE DEF Safe
  <2>3. QED BY <1>2, <1>3, <1>4, <1>5, <2>1, <2>2 DEF Next
<1>7. QED BY <1>1, <1>6 DEF IInv

\* The inductive invariant holds at the start.
LEMMA InitIInv == Init => IInv
<1> SUFFICES ASSUME Init PROVE IInv OBVIOUS
<1>1. AbsentRow \in Rows(MaxAttempt) BY DEF Rows, Row, AbsentRow, Statuses, NoOwner
<1>2. IdlePass \in PassStates BY DEF IdlePass, PassStates
<1>3. TypeOK
  BY <1>1, <1>2, RetentionAssumption DEF Init, TypeOK, RetentionAssumption
<1>4. OldInv /\ UploadInv /\ ExpiredMeansGone /\ DanglingIsExpirable
  BY DEF Init, OldInv, UploadInv, ExpiredMeansGone, DanglingIsExpirable
<1>5. PassInv BY DEF Init, PassInv, IdlePass
<1>6. AnswerInv BY DEF Init, AnswerInv
<1>7. QED BY <1>3, <1>4, <1>5, <1>6 DEF IInv

\* The inductive invariant holds in every reachable state.
LEMMA InductiveIInv == Spec => []IInv
<1>1. IInv /\ [Next]_vars => IInv' BY InvStep, RetentionAssumption
<1>2. QED BY <1>1, InitIInv, PTL DEF Spec

-----------------------------------------------------------------------------
(* Theorems *)

\* For any number of jobs, attempts, passes and readers, every variable keeps
\* its type.
THEOREM TypeCorrect == Spec => []TypeOK
<1>1. IInv => TypeOK BY DEF IInv
<1>2. QED BY <1>1, InductiveIInv, PTL

\* For any number of attempts and passes, a manifest that lists a missing object
\* belongs to a job the next expiry pass still selects (complete_job,
\* expire_old_outputs).
THEOREM DanglingStaysExpirable == Spec => []DanglingIsExpirable
<1>1. IInv => DanglingIsExpirable BY DEF IInv
<1>2. QED BY <1>1, InductiveIInv, PTL

\* For any number of passes working on the same jobs and dying anywhere, expiry
\* leaves no object behind that nothing points at, but for what an upload puts
\* after the keys were listed (delete_simulation_outputs, mark_outputs_expired).
THEOREM ExpiryOrphansNothing == Spec => []ExpiredMeansGone
<1>1. IInv => ExpiredMeansGone BY DEF IInv
<1>2. QED BY <1>1, InductiveIInv, PTL

\* For any number of readers, 410 is answered only for a completed job whose
\* manifest is empty and whose files are deleted, late ones apart (get_outputs).
THEOREM GoneStaysGone == Spec => []GoneIsFinal
<1>1. IInv => GoneIsFinal
  <2> SUFFICES ASSUME IInv, NEW r \in Readers, NEW j \in gone[r]
               PROVE  /\ row[j].status = "completed"
                      /\ objects[j] \subseteq late[j] /\ manifest[j] = {}
    BY DEF GoneIsFinal
  <2>1. j \in expired BY DEF IInv, AnswerInv
  <2>2. QED BY <2>1 DEF IInv, PassInv, OldInv, ExpiredMeansGone
<1>2. QED BY <1>1, InductiveIInv, PTL
=============================================================================
