------------------------------- MODULE Pipeline -------------------------------
(***************************************************************************)
(* One simulation workspace and the runs of SimulationEngine over it       *)
(* (engine.py, utils/processing.py, utils/file_utils.py,                   *)
(* pipeline/registry.py).  A run can be killed between any two writes; a   *)
(* later run, of the same or of another pipeline version, resumes in what  *)
(* it left and skips the steps whose marker and outputs it finds.          *)
(*                                                                         *)
(* A file's content is where it comes from: the versions whose code is in  *)
(* it, and whether it is whole.  A write that is not atomic first leaves   *)
(* the file torn.                                                          *)
(***************************************************************************)
EXTENDS Integers, Sequences

CONSTANTS
  Steps,      \* the engine's steps, of those in DEFAULT_PIPELINE
  Versions,   \* values of PIPELINE_VERSION
  MaxRuns     \* bound: runs started in the workspace

\* pipeline/registry.py: the outputs in the order the step writes them, the
\* files of earlier steps it reads, and whether it writes through atomic_write.
Registry ==
  [fault_plane  |-> [outputs |-> <<"pfalla.inp", "xyo.dat", "meca.dat">>,
                     reads   |-> {"hypo.dat"}, atomic |-> TRUE],
   deform       |-> [outputs |-> <<"deform_a.grd">>,
                     reads   |-> {"pfalla.inp", "xyo.dat"}, atomic |-> TRUE],
   tsunami      |-> [outputs |-> <<"green.dat", "zmax_a.grd">>,
                     reads   |-> {"xyo.dat", "deform_a.grd"}, atomic |-> TRUE],
   maxola       |-> [outputs |-> <<"maxola.pdf">>,
                     reads   |-> {"zmax_a.grd", "meca.dat"}, atomic |-> FALSE],
   ttt_max      |-> [outputs |-> <<"green_rev.dat", "ttt_max.dat", "mareograma.svg">>,
                     reads   |-> {"green.dat"}, atomic |-> FALSE],
   ttt_inverso  |-> [outputs |-> <<"ttt.b">>,
                     reads   |-> {"meca.dat"}, atomic |-> FALSE],
   point_ttt    |-> [outputs |-> <<"ttt_mundo/ttt.pdf">>,
                     reads   |-> {"ttt.b", "meca.dat"}, atomic |-> FALSE],
   copy_ttt_pdf |-> [outputs |-> <<"ttt.pdf">>,
                     reads   |-> {"ttt_mundo/ttt.pdf"}, atomic |-> FALSE]]

DEFAULT_PIPELINE ==
  <<"fault_plane", "deform", "tsunami", "maxola", "ttt_max",
    "ttt_inverso", "point_ttt", "copy_ttt_pdf">>

Outputs(s) == {Registry[s].outputs[i] : i \in 1..Len(Registry[s].outputs)}

\* Steps in an order in which each reads what earlier ones wrote.
Pipelined(seq) ==
  /\ \A i \in 1..Len(seq) : seq[i] \in DOMAIN Registry
  /\ \A i, j \in 1..Len(seq) : i # j => seq[i] # seq[j]
  /\ \A i \in 1..Len(seq) : \A f \in Registry[seq[i]].reads \ {"hypo.dat"} :
       \E j \in 1..i-1 : f \in Outputs(seq[j])

StepNames == {Steps[i] : i \in 1..Len(Steps)}
Files == {"hypo.dat", "checkpoint"} \cup UNION {Outputs(s) : s \in StepNames}
NoVersion == 0

ASSUME PipelineAssumption ==
  /\ Len(Steps) \in Nat
  /\ Pipelined(Steps) /\ Pipelined(DEFAULT_PIPELINE)
  /\ Versions \subseteq Nat \ {NoVersion}
  /\ MaxRuns \in Nat

VARIABLES
  file,     \* the files' contents
  marker,   \* .{step}.complete: the version in the fingerprint
  saved,    \* pipeline_version inside the tsunami checkpoint
  version,  \* the code that runs, or ran last
  resume,   \* request.resume
  pc,       \* where the run is
  index,    \* the step it is at
  written,  \* outputs of that step already written
  made,     \* what it computes from the files it read
  runs,     \* runs started
  cut,      \* a run was killed while it emptied what the workspace still holds
  mixed     \* an earlier version ran after a later one over what it still holds

vars == <<file, marker, saved, version, resume, pc, index, written, made, runs, cut, mixed>>
runVars == <<version, resume, runs, cut, mixed>>

Absent == [by |-> {}, whole |-> FALSE]
Fresh(v) == [by |-> {v}, whole |-> TRUE]
Torn(v) == [by |-> {v}, whole |-> FALSE]
Exists(f) == file[f].by # {}
Contents == [by : SUBSET Versions, whole : BOOLEAN]
step == Steps[index]
outputs == Registry[step].outputs

TypeOK ==
  /\ file \in [Files -> Contents]
  /\ marker \in [StepNames -> Versions \cup {NoVersion}]
  /\ saved \in Versions \cup {NoVersion}
  /\ version \in Versions \cup {NoVersion}
  /\ resume \in BOOLEAN
  /\ pc \in {"idle", "removing", "hypo", "calculating", "steps", "running", "torn", "done"}
  /\ index \in 1..Len(Steps) + 1
  /\ written \in 0..3
  /\ made \in Contents
  /\ runs \in 0..MaxRuns
  /\ cut \in BOOLEAN /\ mixed \in BOOLEAN

Init ==
  /\ file = [f \in Files |-> Absent]
  /\ marker = [s \in StepNames |-> NoVersion]
  /\ saved = NoVersion
  /\ version = NoVersion
  /\ resume = FALSE
  /\ pc = "idle"
  /\ index = 1
  /\ written = 0
  /\ made = Absent
  /\ runs = 0
  /\ cut = FALSE
  /\ mixed = FALSE

-----------------------------------------------------------------------------
(* Starting: prepare_simulation_workspace, calculate_earthquake_parameters *)

\* The worker resumes when the directory exists (claim_workspace); the command
\* line resumes when asked to.
StartRun(v, r) ==
  /\ pc \in {"idle", "done"} /\ runs < MaxRuns
  /\ version' = v
  /\ mixed' = (mixed \/ v < version)
  /\ resume' = r
  /\ runs' = runs + 1
  /\ pc' = IF r THEN "hypo" ELSE "removing"
  /\ index' = 1
  /\ UNCHANGED <<file, marker, saved, written, made, cut>>

\* shutil.rmtree, to its end or one path at a time.
Removed ==
  /\ pc = "removing"
  /\ file' = [f \in Files |-> Absent]
  /\ marker' = [s \in StepNames |-> NoVersion]
  /\ saved' = NoVersion
  /\ cut' = FALSE
  /\ mixed' = FALSE
  /\ pc' = "hypo"
  /\ UNCHANGED <<version, resume, runs, index, written, made>>

RemoveFile(f) ==
  /\ pc = "removing" /\ Exists(f)
  /\ file' = [file EXCEPT ![f] = Absent]
  /\ saved' = IF f = "checkpoint" THEN NoVersion ELSE saved
  /\ UNCHANGED <<marker, runVars, pc, index, written, made>>

RemoveMarker(s) ==
  /\ pc = "removing"
  /\ marker[s] # NoVersion
  /\ marker' = [marker EXCEPT ![s] = NoVersion]
  /\ UNCHANGED <<file, saved, runVars, pc, index, written, made>>

\* _write_hypo_dat opens the file and writes it, in every run.
OpenHypo ==
  /\ pc = "hypo"
  /\ file' = [file EXCEPT !["hypo.dat"] = Torn(version)]
  /\ pc' = "calculating"
  /\ UNCHANGED <<marker, saved, runVars, index, written, made>>

WriteHypo ==
  /\ pc = "calculating"
  /\ file' = [file EXCEPT !["hypo.dat"] = Fresh(version)]
  /\ pc' = "steps"
  /\ UNCHANGED <<marker, saved, runVars, index, written, made>>

-----------------------------------------------------------------------------
(* The loop over the steps *)

validate_outputs(s) == \A f \in Outputs(s) : Exists(f)

complete_by_marker(s) == marker[s] = version

is_step_complete(s) == marker[s] = version /\ validate_outputs(s)

SkipStep ==
  /\ pc = "steps" /\ index <= Len(Steps)
  /\ resume /\ is_step_complete(step)
  /\ index' = index + 1
  /\ UNCHANGED <<file, marker, saved, runVars, pc, written, made>>

load_checkpoint_blindly == step = "tsunami" /\ Exists("checkpoint")

\* _read_checkpoint accepts a checkpoint of this pipeline version.
UseCheckpoint == step = "tsunami" /\ Exists("checkpoint") /\ saved = version

\* The step reads its inputs: the files of earlier steps, or the checkpoint in
\* place of the deformation.
BeginStep ==
  /\ pc = "steps" /\ index <= Len(Steps)
  /\ ~(resume /\ is_step_complete(step))
  /\ LET reads == IF UseCheckpoint THEN {"checkpoint", "xyo.dat"} ELSE Registry[step].reads
     IN made' = [by    |-> {version} \cup UNION {file[f].by : f \in reads},
                 whole |-> \A f \in reads : file[f].whole]
  /\ pc' = "running"
  /\ written' = 0
  /\ UNCHANGED <<file, marker, saved, runVars, index>>

SaveCheckpoint ==
  /\ pc = "running" /\ step = "tsunami" /\ written = 0
  /\ file' = [file EXCEPT !["checkpoint"] = made]
  /\ saved' = version
  /\ UNCHANGED <<marker, runVars, pc, index, written, made>>

OpenOutput ==
  /\ pc = "running" /\ written < Len(outputs)
  /\ ~Registry[step].atomic
  /\ file' = [file EXCEPT ![outputs[written + 1]] = Torn(version)]
  /\ pc' = "torn"
  /\ UNCHANGED <<marker, saved, runVars, index, written, made>>

\* atomic_write's os.replace, or the end of a plain write.
WriteOutput ==
  /\ \/ pc = "torn"
     \/ pc = "running" /\ written < Len(outputs) /\ Registry[step].atomic
  /\ file' = [file EXCEPT ![outputs[written + 1]] = made]
  /\ written' = written + 1
  /\ pc' = "running"
  /\ UNCHANGED <<marker, saved, runVars, index, made>>

\* run_tsunami ends by unlinking its checkpoint.
UnlinkCheckpoint ==
  /\ pc = "running" /\ step = "tsunami" /\ written = Len(outputs)
  /\ Exists("checkpoint")
  /\ file' = [file EXCEPT !["checkpoint"] = Absent]
  /\ saved' = NoVersion
  /\ UNCHANGED <<marker, runVars, pc, index, written, made>>

\* The end of process_step: validate_outputs, then the marker.
WriteMarker ==
  /\ pc = "running" /\ written = Len(outputs)
  /\ ~(step = "tsunami" /\ Exists("checkpoint"))
  /\ validate_outputs(step)
  /\ marker' = [marker EXCEPT ![step] = version]
  /\ index' = index + 1
  /\ pc' = "steps"
  /\ UNCHANGED <<file, saved, runVars, written, made>>

\* write_simulation_outputs: the run returns the files it lists.
Finish ==
  /\ pc = "steps" /\ index = Len(Steps) + 1
  /\ pc' = "done"
  /\ UNCHANGED <<file, marker, saved, runVars, index, written, made>>

\* A step raises, the thread is abandoned, or the process dies.  What
\* atomic_write had under its temporary name is not a file any run reads.
Killed ==
  /\ pc \notin {"idle", "done"}
  /\ pc' = "idle"
  /\ cut' = (cut \/ pc = "removing")
  /\ UNCHANGED <<file, marker, saved, version, resume, runs, mixed, index, written, made>>

-----------------------------------------------------------------------------
Next ==
  \/ \E v \in Versions, r \in BOOLEAN : StartRun(v, r)
  \/ Removed \/ (\E f \in Files : RemoveFile(f)) \/ (\E s \in StepNames : RemoveMarker(s))
  \/ OpenHypo \/ WriteHypo
  \/ SkipStep \/ BeginStep \/ SaveCheckpoint \/ OpenOutput \/ WriteOutput
  \/ UnlinkCheckpoint \/ WriteMarker \/ Finish \/ Killed

Spec == Init /\ [][Next]_vars

-----------------------------------------------------------------------------
(* Properties *)

\* What is claimed of the files of step s: a step that writes in place may be
\* skipped over a torn file once a run was killed while it emptied the
\* workspace (its old marker outlives an output), and any step may be skipped
\* over another version's files once an earlier version is back.
Vouched(s) == ~mixed /\ (Registry[s].atomic \/ ~cut)

\* What a run returns is what one run of its own version in an empty
\* workspace would have returned, whatever the killed and resumed runs before
\* it left behind (engine.run, is_step_complete, atomic_write).
ResultIsFresh ==
  pc = "done" =>
    \A s \in StepNames : Vouched(s) => \A f \in Outputs(s) : file[f] = Fresh(version)

\* No step computes from a torn file or from what another version's step
\* wrote: every input of a step, checkpoint included, is fresh when read.
InputsAreFresh ==
  pc \in {"running", "torn"} /\ Vouched(step) => made = Fresh(version)
=============================================================================
