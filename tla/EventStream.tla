----------------------------- MODULE EventStream -----------------------------
(***************************************************************************)
(* How a page learns of a job's progress: job_events in                    *)
(* packages/api/api/routes.py reads the row, listens on its channel and    *)
(* sends a frame per change; the web server relays the stream; followJob   *)
(* in apps/web/src/lib/job-stream.ts keeps a page on it.                   *)
(*                                                                         *)
(* The row is its status and a revision: every statement that notifies is  *)
(* one revision.  A stream slot is one request to the compute API; a slot  *)
(* whose client is gone runs on until it next tries to send.               *)
(***************************************************************************)
EXTENDS Integers, Sequences

CONSTANTS
  Slots,         \* concurrent requests to job_events
  NoSlot,        \* no request
  MaxRevision,   \* bound: statements that notify
  MaxReruns,     \* bound: failed jobs that run again (redelivery, operator)
  MaxFaults,     \* bound: broken or failing connections
  MaxFailures    \* maxRetries of followJob

ASSUME StreamAssumption ==
  /\ NoSlot \notin Slots
  /\ {MaxRevision, MaxReruns, MaxFaults, MaxFailures} \subseteq Nat

VARIABLES
  row,      \* the compute.jobs row as status_from_row shows it
  stream,   \* the generator of each request
  frames,   \* what each request has sent and the page has not yet seen
  page,     \* followJob and the page around it
  reruns,   \* failed jobs run again so far
  faults    \* connections broken so far

streamVars == <<row, stream, frames, page, reruns, faults>>

\* _TERMINAL of routes.py, and isFinished of simulation-status.ts.
Terminal == {"completed", "failed"}
JobStates == [status: {"queued", "running"} \cup Terminal, revision: 0..MaxRevision]

\* "start": before the first read; "connect": db.connect; "listen":
\* add_listener; "loop": the deadline test; "wait": _wait_for_notification;
\* "reread": the read after it.
Streams ==
  [pc: {"idle", "start", "connect", "listen", "loop", "wait", "reread"},
   last: JobStates, listening: BOOLEAN, wakeup: BOOLEAN, notified: BOOLEAN,
   connected: BOOLEAN, late: BOOLEAN, client: BOOLEAN]

Pages ==
  [source: {"connecting", "open", "waiting", "finished", "stopped", "left"},
   slot: Slots \cup {NoSlot}, failures: 0..MaxFailures, shown: JobStates, lost: BOOLEAN]

StreamTypeOK ==
  /\ row \in JobStates
  /\ stream \in [Slots -> Streams]
  /\ frames \in [Slots -> Seq(JobStates)]
  /\ page \in Pages
  /\ reruns \in 0..MaxReruns
  /\ faults \in 0..MaxFaults

NoJob == [status |-> "queued", revision |-> 0]
IdleStream ==
  [pc |-> "idle", last |-> NoJob, listening |-> FALSE, wakeup |-> FALSE,
   notified |-> FALSE, connected |-> FALSE, late |-> FALSE, client |-> FALSE]

StreamInit ==
  /\ row = NoJob
  /\ stream = [s \in Slots |-> IdleStream]
  /\ frames = [s \in Slots |-> <<>>]
  /\ page = [source |-> "connecting", slot |-> NoSlot, failures |-> 0,
             shown |-> NoJob, lost |-> FALSE]
  /\ reruns = 0
  /\ faults = 0

Fault == faults < MaxFaults /\ faults' = faults + 1

-----------------------------------------------------------------------------
(* The worker's statements: each commits with a NOTIFY (_notify) *)

\* on_notify puts a token into a one-slot queue, so a burst is one wake-up.
Commits(status) ==
  /\ row.revision < MaxRevision
  /\ row' = [status |-> status, revision |-> row.revision + 1]
  /\ stream' = [s \in Slots |->
       IF stream[s].listening THEN [stream[s] EXCEPT !.wakeup = TRUE] ELSE stream[s]]
  /\ UNCHANGED <<frames, page, faults>>

Runs == row.status \in {"queued", "running"} /\ Commits("running") /\ UNCHANGED reruns

\* complete_job, record_failure or reconciliation.
Finishes ==
  /\ row.status \in {"queued", "running"}
  /\ \E status \in Terminal : Commits(status)
  /\ UNCHANGED reruns

\* mark_outputs_expired
Expires == row.status = "completed" /\ Commits("completed") /\ UNCHANGED reruns

\* mark_started of a newer attempt reclaims a failed row.
RunsAgain ==
  /\ row.status = "failed" /\ reruns < MaxReruns
  /\ Commits("running")
  /\ reruns' = reruns + 1

-----------------------------------------------------------------------------
(* job_events: the generator behind slot s *)

Becomes(s, new) == stream' = [stream EXCEPT ![s] = new]

\* The generator is over; `finally` closes its connection.
Over(s) == Becomes(s, IdleStream)

\* `yield`: a client that is gone ends the generator instead.
Sends(s, sent, new) ==
  IF stream[s].client
    THEN frames' = [frames EXCEPT ![s] = @ \o sent] /\ Becomes(s, new)
    ELSE UNCHANGED frames /\ Over(s)

ReadStatusLate(s) ==
  /\ stream[s].pc = "start"
  /\ Sends(s, <<stream[s].last>>, [stream[s] EXCEPT !.pc = "connect", !.last = row])
  /\ UNCHANGED <<row, page, reruns, faults>>

\* The first read and its frame; a finished job needs no more.
ReadStatus(s) ==
  /\ stream[s].pc = "start"
  /\ Sends(s, <<row>>,
       IF row.status \in Terminal THEN IdleStream
       ELSE [stream[s] EXCEPT !.pc = "connect", !.last = row])
  /\ UNCHANGED <<row, page, reruns, faults>>

\* db.connect, outside the pool.
ConnectListener(s) ==
  /\ stream[s].pc = "connect"
  /\ Becomes(s, [stream[s] EXCEPT !.pc = "listen", !.connected = TRUE])
  /\ UNCHANGED <<row, frames, page, reruns, faults>>

\* add_listener: what was committed since the first read is notified to nobody.
AddListener(s) ==
  /\ stream[s].pc = "listen"
  /\ Becomes(s, [stream[s] EXCEPT !.pc = "loop", !.listening = TRUE])
  /\ UNCHANGED <<row, frames, page, reruns, faults>>

\* `while anyio.current_time() < deadline`
LoopForever(s) ==
  /\ stream[s].pc = "loop"
  /\ Becomes(s, [stream[s] EXCEPT !.pc = "wait"])
  /\ UNCHANGED <<row, frames, page, reruns, faults>>

Loop(s) ==
  /\ stream[s].pc = "loop"
  /\ IF stream[s].late THEN Over(s) ELSE Becomes(s, [stream[s] EXCEPT !.pc = "wait"])
  /\ UNCHANGED <<row, frames, page, reruns, faults>>

Notified(s) ==
  /\ stream[s].pc = "wait" /\ stream[s].wakeup
  /\ Becomes(s, [stream[s] EXCEPT !.pc = "reread", !.wakeup = FALSE, !.notified = TRUE])
  /\ UNCHANGED <<row, frames, page, reruns, faults>>

\* The keepalive alone, without the read.
KeepaliveBlind(s) ==
  /\ stream[s].pc = "wait"
  /\ Sends(s, <<>>, [stream[s] EXCEPT !.pc = "loop"])
  /\ UNCHANGED <<row, page, reruns, faults>>

\* Twenty seconds without a notification: the row is read all the same.
KeepaliveDue(s) ==
  /\ stream[s].pc = "wait"
  /\ Becomes(s, [stream[s] EXCEPT !.pc = "reread", !.notified = FALSE])
  /\ UNCHANGED <<row, frames, page, reruns, faults>>

\* A changed row is sent and a finished one ends the stream; an unchanged one
\* sends a comment, after a timeout only.
Reread(s) ==
  LET again == [stream[s] EXCEPT !.pc = "loop"] IN
  /\ stream[s].pc = "reread"
  /\ CASE row # stream[s].last ->
            Sends(s, <<row>>, IF row.status \in Terminal THEN IdleStream
                              ELSE [again EXCEPT !.last = row])
       [] row = stream[s].last /\ ~stream[s].notified -> Sends(s, <<>>, again)
       [] OTHER -> Becomes(s, again) /\ UNCHANGED frames
  /\ UNCHANGED <<row, page, reruns, faults>>

\* SSE_MAX_DURATION is over.
DeadlinePasses(s) ==
  /\ stream[s].connected /\ ~stream[s].late
  /\ Becomes(s, [stream[s] EXCEPT !.late = TRUE])
  /\ UNCHANGED <<row, frames, page, reruns, faults>>

\* A read, the connection or the process fails: the first read sends an error
\* event (which followJob does not take for a frame), the others raise.
StreamBreaks(s) ==
  /\ Fault
  /\ stream[s].pc # "idle"
  /\ Over(s)
  /\ UNCHANGED <<row, frames, page, reruns>>

\* The listening connection dies; the loop does not notice.
ListenerDies(s) ==
  /\ Fault
  /\ stream[s].listening
  /\ Becomes(s, [stream[s] EXCEPT !.listening = FALSE])
  /\ UNCHANGED <<row, frames, page, reruns>>

-----------------------------------------------------------------------------
(* The relay and followJob *)

\* new EventSource, through the relay to a new request; onopen.
Opens(s) ==
  /\ page.source = "connecting"
  /\ stream[s].pc = "idle"
  /\ Becomes(s, [IdleStream EXCEPT !.pc = "start", !.client = TRUE])
  /\ frames' = [frames EXCEPT ![s] = <<>>]
  /\ page' = [page EXCEPT !.source = "open", !.slot = s, !.failures = 0]
  /\ UNCHANGED <<row, reruns, faults>>

GivesUpQuietly ==
  /\ page.source = "connecting"
  /\ page' = IF page.failures >= MaxFailures
               THEN [page EXCEPT !.source = "stopped"]
               ELSE [page EXCEPT !.source = "waiting", !.failures = @ + 1]
  /\ UNCHANGED <<row, stream, frames, reruns, faults>>

\* The relay answers with an error and the browser closes the source: wait and
\* reopen, or call onGaveUp.
Refused ==
  /\ page.source = "connecting"
  /\ page' = IF page.failures >= MaxFailures
               THEN [page EXCEPT !.source = "stopped", !.lost = TRUE]
               ELSE [page EXCEPT !.source = "waiting", !.failures = @ + 1]
  /\ UNCHANGED <<row, stream, frames, reruns, faults>>

RetryTimer ==
  /\ page.source = "waiting"
  /\ page' = [page EXCEPT !.source = "connecting"]
  /\ UNCHANGED <<row, stream, frames, reruns, faults>>

\* onmessage: show the frame; a finished one closes the source.
Receives ==
  LET s == page.slot IN
  /\ page.source = "open" /\ frames[s] # <<>>
  /\ frames' = [frames EXCEPT ![s] = Tail(@)]
  /\ page' = [page EXCEPT !.shown = Head(frames[s]),
               !.source = IF Head(frames[s]).status \in Terminal THEN "finished" ELSE @,
               !.slot = IF Head(frames[s]).status \in Terminal THEN NoSlot ELSE @]
  /\ stream' = IF Head(frames[s]).status \in Terminal
                 THEN [stream EXCEPT ![s].client = FALSE] ELSE stream
  /\ UNCHANGED <<row, reruns, faults>>

\* onFinished: invalidateAll loads the page again, and $effect follows the job
\* if the row it loaded is not finished.
Reloads ==
  /\ page.source = "finished"
  /\ page' = [page EXCEPT !.shown = row, !.failures = 0,
               !.source = IF row.status \in Terminal THEN "stopped" ELSE "connecting"]
  /\ UNCHANGED <<row, stream, frames, reruns, faults>>

\* The user presses "Reintentar", which a lost stream offers while the job shown
\* is in progress: invalidateAll, and $effect starts over.
RetriesByHand ==
  /\ page.source = "stopped" /\ page.lost /\ page.shown.status \notin Terminal
  /\ page' = [page EXCEPT !.shown = row, !.failures = 0, !.lost = FALSE,
               !.source = IF row.status \in Terminal THEN "stopped" ELSE "connecting"]
  /\ UNCHANGED <<row, stream, frames, reruns, faults>>

\* The stream ended: the browser opens another by itself.
Reopens ==
  LET s == page.slot IN
  /\ page.source = "open" /\ frames[s] = <<>> /\ stream[s].pc = "idle"
  /\ page' = [page EXCEPT !.source = "connecting", !.slot = NoSlot]
  /\ UNCHANGED <<row, stream, frames, reruns, faults>>

\* The connection drops with what it carries; the generator learns of it when
\* it next sends.
Drops ==
  /\ Fault
  /\ page.source = "open"
  /\ stream' = [stream EXCEPT ![page.slot].client = FALSE]
  /\ frames' = [frames EXCEPT ![page.slot] = <<>>]
  /\ page' = [page EXCEPT !.source = "connecting", !.slot = NoSlot]
  /\ UNCHANGED <<row, reruns>>

\* The user leaves: stop().
Leaves ==
  /\ page.source # "left"
  /\ page' = [page EXCEPT !.source = "left", !.slot = NoSlot]
  /\ stream' = IF page.slot = NoSlot THEN stream
               ELSE [stream EXCEPT ![page.slot].client = FALSE]
  /\ UNCHANGED <<row, frames, reruns, faults>>

-----------------------------------------------------------------------------
StreamStep(s) ==
  \/ ReadStatus(s) \/ ConnectListener(s) \/ AddListener(s) \/ Loop(s)
  \/ Notified(s) \/ KeepaliveDue(s) \/ Reread(s)

PageStep == (\E s \in Slots : Opens(s)) \/ RetryTimer \/ Receives \/ Reloads \/ Reopens

StreamNext ==
  \/ Runs \/ Finishes \/ Expires \/ RunsAgain
  \/ \E s \in Slots : StreamStep(s) \/ DeadlinePasses(s) \/ StreamBreaks(s) \/ ListenerDies(s)
  \/ PageStep \/ Refused \/ RetriesByHand \/ Drops \/ Leaves

\* Generators run, keepalives fire, the browser reconnects and delivers.  Jobs
\* need not finish, faults need not happen, no deadline need pass, and the user
\* need not press anything.
Fairness ==
  /\ \A s \in Slots : WF_streamVars(StreamStep(s))
  /\ WF_streamVars(PageStep)

StreamSpec == StreamInit /\ [][StreamNext]_streamVars /\ Fairness

-----------------------------------------------------------------------------
(* Properties *)

\* A page that follows a job to the end sees the end: whatever connections
\* break, time out or are refused, and although a change between the first
\* read and LISTEN is notified to nobody, the final status is shown or the
\* page is told that the stream is lost.  No deadline is needed for it.  A page
\* that stopped at a failure does not follow the job that runs again after it.
FinalStatusShown ==
  (row.status \in Terminal) ~>
     \/ page.shown.status = row.status
     \/ page.lost \/ page.source = "left"
     \/ reruns > 0 /\ page.shown.status = "failed"
     \/ row.status = "running"

\* A page stops following only with a finished status on screen or the notice
\* that the stream is lost (followJob's onGaveUp).
NoSilentEnd ==
  page.source = "stopped" => page.shown.status \in Terminal \/ page.lost

\* What a page shows never goes back to an older state of the row, although
\* requests it abandoned are still being served.
ShownNeverGoesBack == [][page'.shown.revision >= page.shown.revision]_streamVars

\* A stream past SSE_MAX_DURATION gives its listening connection back, also
\* when nothing changes, notifications keep coming or the client has left
\* without a word: streams hold connections outside the pool.
ConnectionsReleased == \A s \in Slots : stream[s].late ~> ~stream[s].connected

\* The page as a watcher of the row.
Watch ==
  CASE page.source = "left" -> "left"
    [] page.source = "stopped" -> IF page.lost THEN "lost" ELSE "finished"
    [] OTHER -> "watching"

Watcher == INSTANCE JobWatcher WITH shown <- page.shown, watch <- Watch

\* Whatever requests overlap, break and are abandoned, the page is a watcher: a
\* shown state of the row's revision is the row, and what stopped shows no more
\* until the user retries.
ImplementsWatcher == Watcher!Spec
=============================================================================
