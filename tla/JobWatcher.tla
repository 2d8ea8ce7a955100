------------------------------ MODULE JobWatcher ------------------------------
(***************************************************************************)
(* What following a job promises a page: it looks at the row, some time    *)
(* after each change and never backwards, until it shows a finished row,   *)
(* is told that the stream is lost, or is left.  Looking at the row's last *)
(* revision is looking at the row.                                         *)
(*                                                                         *)
(* EventStream implements this with notifications, requests, frames and    *)
(* reconnections.                                                          *)
(***************************************************************************)
EXTENDS Integers

VARIABLES
  row,    \* the job's row: a status and a revision
  shown,  \* the state of it on screen
  watch   \* "watching", or why the page stopped: "finished", "lost", "left"

Finished == {"completed", "failed"}

Init == row.revision = 0 /\ shown = row /\ watch = "watching"

\* Each statement is a revision; a completed job stays completed.
Write ==
  /\ row'.revision = row.revision + 1
  /\ row.status = "completed" => row'.status = "completed"
  /\ UNCHANGED <<shown, watch>>

\* Intermediate states may be skipped, and the page may stop at a finished one.
Look ==
  /\ watch = "watching"
  /\ shown'.revision \in shown.revision..row.revision
  /\ shown'.revision = row.revision => shown' = row
  /\ \/ UNCHANGED watch
     \/ shown'.status \in Finished /\ watch' = "finished"
  /\ UNCHANGED row

GiveUp == watch = "watching" /\ watch' = "lost" /\ UNCHANGED <<row, shown>>

\* The user may take up a lost stream again, from the row as it is.
Retry ==
  /\ watch = "lost"
  /\ shown' = row
  /\ watch' = IF row.status \in Finished THEN "finished" ELSE "watching"
  /\ UNCHANGED row

Leave == watch' = "left" /\ UNCHANGED <<row, shown>>

Next == Write \/ Look \/ GiveUp \/ Retry \/ Leave

Spec == Init /\ [][Next]_<<row, shown, watch>>
=============================================================================
