---------------------------- MODULE PipelineProofs ----------------------------
(***************************************************************************)
(* Resumed pipelines, for every order of steps that read what earlier      *)
(* steps wrote, any number of versions and of runs killed anywhere: a run  *)
(* returns what a run in an empty workspace would have returned.           *)
(***************************************************************************)
EXTENDS Pipeline, TLAPS

\* Versions only grow while `mixed` is not set.
VersionInv ==
  /\ pc # "idle" => version \in Versions
  /\ ~mixed => saved <= version /\ \A s \in StepNames : marker[s] <= version

\* What a marker and the checkpoint's version vouch for.
MarkerInv ==
  /\ ~cut /\ pc # "removing" =>
       \A s \in StepNames : marker[s] # NoVersion => validate_outputs(s)
  /\ version # NoVersion =>
       \A s \in StepNames : Vouched(s) /\ marker[s] = version =>
         \A f \in Outputs(s) : Exists(f) => file[f] = Fresh(version)
  /\ version # NoVersion /\ ~mixed /\ saved = version /\ Exists("checkpoint") =>
       file["checkpoint"] = Fresh(version)

\* The steps a run has behind it, skipped or run.
PassedInv ==
  pc \in {"steps", "running", "torn", "done"} =>
    /\ file["hypo.dat"] = Fresh(version)
    /\ \A i \in 1..index-1 : marker[Steps[i]] = version /\ validate_outputs(Steps[i])

\* A run that did not resume meets no marker.
EmptiedInv ==
  ~resume /\ pc \in {"hypo", "calculating", "steps", "running", "torn"} =>
    \A i \in index..Len(Steps) : marker[Steps[i]] = NoVersion

\* The step that runs: what it read, and what it has written.
StepInv ==
  /\ pc \in {"removing", "hypo", "calculating"} => index = 1
  /\ pc = "done" => index = Len(Steps) + 1
  /\ pc = "torn" => ~Registry[step].atomic /\ written < Len(outputs)
  /\ pc \in {"running", "torn"} =>
       /\ index <= Len(Steps)
       /\ made.by # {}
       /\ ~cut => marker[step] # version
       /\ written <= Len(outputs)
       /\ \A i \in 1..written : file[outputs[i]] = made

IInv ==
  TypeOK /\ VersionInv /\ MarkerInv /\ PassedInv /\ EmptiedInv /\ StepInv /\ InputsAreFresh

-----------------------------------------------------------------------------
(* The registry *)

\* Every step has one to three outputs, all different.
LEMMA OutputList ==
  ASSUME NEW s \in DOMAIN Registry
  PROVE  /\ Len(Registry[s].outputs) \in 1..3
         /\ \A i \in 1..Len(Registry[s].outputs) : Registry[s].outputs[i] \in Outputs(s)
         /\ \A f \in Outputs(s) :
              \E i \in 1..Len(Registry[s].outputs) : f = Registry[s].outputs[i]
         /\ \A i, j \in 1..Len(Registry[s].outputs) :
              i # j => Registry[s].outputs[i] # Registry[s].outputs[j]
<1> DEFINE Fine(o) == /\ Len(o) \in 1..3
                      /\ \A i, j \in 1..Len(o) : i # j => o[i] # o[j]
<1>1. ASSUME s = "fault_plane"
      PROVE  Fine(Registry[s].outputs)
  <2>1. Registry[s].outputs = <<"pfalla.inp", "xyo.dat", "meca.dat">>
    BY <1>1 DEF Registry
  <2>2. Fine(<<"pfalla.inp", "xyo.dat", "meca.dat">>) OBVIOUS
  <2>3. QED BY <2>1, <2>2
<1>2. ASSUME s = "deform"
      PROVE  Fine(Registry[s].outputs)
  <2>1. Registry[s].outputs = <<"deform_a.grd">>
    BY <1>2 DEF Registry
  <2>2. Fine(<<"deform_a.grd">>) OBVIOUS
  <2>3. QED BY <2>1, <2>2
<1>3. ASSUME s = "tsunami"
      PROVE  Fine(Registry[s].outputs)
  <2>1. Registry[s].outputs = <<"green.dat", "zmax_a.grd">>
    BY <1>3 DEF Registry
  <2>2. Fine(<<"green.dat", "zmax_a.grd">>) OBVIOUS
  <2>3. QED BY <2>1, <2>2
<1>4. ASSUME s = "maxola"
      PROVE  Fine(Registry[s].outputs)
  <2>1. Registry[s].outputs = <<"maxola.pdf">>
    BY <1>4 DEF Registry
  <2>2. Fine(<<"maxola.pdf">>) OBVIOUS
  <2>3. QED BY <2>1, <2>2
<1>5. ASSUME s = "ttt_max"
      PROVE  Fine(Registry[s].outputs)
  <2>1. Registry[s].outputs = <<"green_rev.dat", "ttt_max.dat", "mareograma.svg">>
    BY <1>5 DEF Registry
  <2>2. Fine(<<"green_rev.dat", "ttt_max.dat", "mareograma.svg">>) OBVIOUS
  <2>3. QED BY <2>1, <2>2
<1>6. ASSUME s = "ttt_inverso"
      PROVE  Fine(Registry[s].outputs)
  <2>1. Registry[s].outputs = <<"ttt.b">>
    BY <1>6 DEF Registry
  <2>2. Fine(<<"ttt.b">>) OBVIOUS
  <2>3. QED BY <2>1, <2>2
<1>7. ASSUME s = "point_ttt"
      PROVE  Fine(Registry[s].outputs)
  <2>1. Registry[s].outputs = <<"ttt_mundo/ttt.pdf">>
    BY <1>7 DEF Registry
  <2>2. Fine(<<"ttt_mundo/ttt.pdf">>) OBVIOUS
  <2>3. QED BY <2>1, <2>2
<1>8. ASSUME s = "copy_ttt_pdf"
      PROVE  Fine(Registry[s].outputs)
  <2>1. Registry[s].outputs = <<"ttt.pdf">>
    BY <1>8 DEF Registry
  <2>2. Fine(<<"ttt.pdf">>) OBVIOUS
  <2>3. QED BY <2>1, <2>2
<1>9. DOMAIN Registry = {"fault_plane", "deform", "tsunami", "maxola", "ttt_max",
                         "ttt_inverso", "point_ttt", "copy_ttt_pdf"}
  BY DEF Registry
<1>10. Fine(Registry[s].outputs)
  BY <1>1, <1>2, <1>3, <1>4, <1>5, <1>6, <1>7, <1>8, <1>9
<1>11. QED BY <1>10 DEF Outputs

\* The outputs as sets.
LEMMA OutputSets ==
  /\ Outputs("fault_plane") = {"pfalla.inp", "xyo.dat", "meca.dat"}
  /\ Outputs("deform") = {"deform_a.grd"}
  /\ Outputs("tsunami") = {"green.dat", "zmax_a.grd"}
  /\ Outputs("maxola") = {"maxola.pdf"}
  /\ Outputs("ttt_max") = {"green_rev.dat", "ttt_max.dat", "mareograma.svg"}
  /\ Outputs("ttt_inverso") = {"ttt.b"}
  /\ Outputs("point_ttt") = {"ttt_mundo/ttt.pdf"}
  /\ Outputs("copy_ttt_pdf") = {"ttt.pdf"}
<1>1. Outputs("fault_plane") = {"pfalla.inp", "xyo.dat", "meca.dat"} BY DEF Outputs, Registry
<1>2. Outputs("deform") = {"deform_a.grd"} BY DEF Outputs, Registry
<1>3. Outputs("tsunami") = {"green.dat", "zmax_a.grd"} BY DEF Outputs, Registry
<1>4. Outputs("maxola") = {"maxola.pdf"} BY DEF Outputs, Registry
<1>5. Outputs("ttt_max") = {"green_rev.dat", "ttt_max.dat", "mareograma.svg"}
  BY DEF Outputs, Registry
<1>6. Outputs("ttt_inverso") = {"ttt.b"} BY DEF Outputs, Registry
<1>7. Outputs("point_ttt") = {"ttt_mundo/ttt.pdf"} BY DEF Outputs, Registry
<1>8. Outputs("copy_ttt_pdf") = {"ttt.pdf"} BY DEF Outputs, Registry
<1>9. QED BY <1>1, <1>2, <1>3, <1>4, <1>5, <1>6, <1>7, <1>8

\* No file is written by two steps, and none is the input or the checkpoint.
LEMMA OutputsDisjoint ==
  /\ \A s, t \in DOMAIN Registry : s # t => Outputs(s) \cap Outputs(t) = {}
  /\ \A s \in DOMAIN Registry : "hypo.dat" \notin Outputs(s) /\ "checkpoint" \notin Outputs(s)
<1>1. DOMAIN Registry = {"fault_plane", "deform", "tsunami", "maxola", "ttt_max",
                         "ttt_inverso", "point_ttt", "copy_ttt_pdf"}
  BY DEF Registry
<1>2. QED BY <1>1, OutputSets

\* What a step that writes atomically reads was written atomically.
LEMMA AtomicReads ==
  /\ \A s, t \in DOMAIN Registry :
       Registry[s].atomic /\ ~Registry[t].atomic => Registry[s].reads \cap Outputs(t) = {}
  /\ "tsunami" \in DOMAIN Registry /\ Registry["tsunami"].atomic
  /\ "xyo.dat" \in Registry["tsunami"].reads
<1>1. \A s \in DOMAIN Registry :
        /\ Registry[s].atomic => s \in {"fault_plane", "deform", "tsunami"}
        /\ ~Registry[s].atomic => s \in {"maxola", "ttt_max", "ttt_inverso",
                                         "point_ttt", "copy_ttt_pdf"}
  BY DEF Registry
<1>2. Registry["fault_plane"].reads = {"hypo.dat"} BY DEF Registry
<1>3. Registry["deform"].reads = {"pfalla.inp", "xyo.dat"} BY DEF Registry
<1>4. Registry["tsunami"].reads = {"xyo.dat", "deform_a.grd"} BY DEF Registry
<1>5. "tsunami" \in DOMAIN Registry /\ Registry["tsunami"].atomic BY DEF Registry
<1>6. QED BY <1>1, <1>2, <1>3, <1>4, <1>5, OutputSets

-----------------------------------------------------------------------------
(* The steps of this pipeline and their files *)

\* A step is in the registry, and reads and writes files of the workspace.
LEMMA StepFacts ==
  ASSUME NEW i \in 1..Len(Steps)
  PROVE  /\ Steps[i] \in StepNames /\ Steps[i] \in DOMAIN Registry
         /\ Outputs(Steps[i]) \subseteq Files
         /\ Registry[Steps[i]].reads \subseteq Files
         /\ \A f \in Registry[Steps[i]].reads \ {"hypo.dat"} :
              \E j \in 1..i-1 : f \in Outputs(Steps[j])
<1>1. \A k \in 1..Len(Steps) : Steps[k] \in StepNames BY DEF StepNames
<1>2. /\ Steps[i] \in DOMAIN Registry
      /\ \A f \in Registry[Steps[i]].reads \ {"hypo.dat"} :
           \E j \in 1..i-1 : f \in Outputs(Steps[j])
  BY PipelineAssumption DEF PipelineAssumption, Pipelined
<1>3. \A k \in 1..Len(Steps) : Outputs(Steps[k]) \subseteq Files BY <1>1 DEF Files
<1>4. 1..i-1 \subseteq 1..Len(Steps) BY PipelineAssumption DEF PipelineAssumption
<1>5. "hypo.dat" \in Files BY DEF Files
<1>6. Registry[Steps[i]].reads \subseteq Files BY <1>2, <1>3, <1>4, <1>5
<1>7. QED BY <1>1, <1>2, <1>3, <1>6

\* Steps have names of their own.
LEMMA NameFacts ==
  /\ StepNames \subseteq DOMAIN Registry
  /\ \A s \in StepNames : Outputs(s) \subseteq Files
  /\ \A i, j \in 1..Len(Steps) : i # j => Steps[i] # Steps[j]
<1>1. \A i, j \in 1..Len(Steps) : i # j => Steps[i] # Steps[j]
  BY PipelineAssumption DEF PipelineAssumption, Pipelined
<1>2. QED BY <1>1, StepFacts DEF StepNames

\* Writing a file that is not an output of s leaves its outputs alone.
LEMMA OtherFile ==
  ASSUME file \in [Files -> Contents], NEW f \in Files, NEW c,
         file' = [file EXCEPT ![f] = c], NEW s \in StepNames, f \notin Outputs(s)
  PROVE  /\ validate_outputs(s)' <=> validate_outputs(s)
         /\ \A g \in Outputs(s) : file'[g] = file[g] /\ (Exists(g)' <=> Exists(g))
<1>1. \A g \in Outputs(s) : file'[g] = file[g] BY NameFacts
<1>2. QED BY <1>1 DEF validate_outputs, Exists

\* Writing anything keeps what was complete complete.
LEMMA FilesStay ==
  ASSUME file \in [Files -> Contents], NEW f \in Files, NEW c, c.by # {},
         file' = [file EXCEPT ![f] = c], NEW s \in StepNames, validate_outputs(s)
  PROVE  validate_outputs(s)'
<1>1. \A g \in Outputs(s) : g \in Files BY NameFacts
<1>2. \A g \in Outputs(s) : file'[g] = file[g] \/ file'[g] = c BY <1>1
<1>3. QED BY <1>2 DEF validate_outputs, Exists

-----------------------------------------------------------------------------
(* The invariant, action by action *)

\* The workspace is empty at first.
LEMMA InitIInv == ASSUME Init PROVE IInv
<1>1. TypeOK
  <2>1. Absent \in Contents BY DEF Absent, Contents
  <2>2. index \in 1..Len(Steps) + 1 /\ written \in 0..3 /\ runs \in 0..MaxRuns
    BY PipelineAssumption DEF Init, PipelineAssumption
  <2>3. file \in [Files -> Contents] /\ marker \in [StepNames -> Versions \cup {NoVersion}]
    BY <2>1 DEF Init
  <2>4. resume \in BOOLEAN /\ cut \in BOOLEAN /\ mixed \in BOOLEAN BY DEF Init
  <2>5. QED BY <2>1, <2>2, <2>3, <2>4 DEF Init, TypeOK
<1>2. VersionInv BY DEF Init, VersionInv, NoVersion
<1>3. MarkerInv BY DEF Init, MarkerInv
<1>4. PassedInv /\ EmptiedInv /\ StepInv /\ InputsAreFresh
  BY DEF Init, PassedInv, EmptiedInv, StepInv, InputsAreFresh
<1>5. QED BY <1>1, <1>2, <1>3, <1>4 DEF IInv

\* A run of a later version is vouched for by no marker.
LEMMA StartRunStep ==
  ASSUME IInv, NEW v \in Versions, NEW r \in BOOLEAN, StartRun(v, r) PROVE IInv'
<1> USE DEF IInv
<1>1. /\ pc \in {"idle", "done"} /\ version' = v /\ resume' = r /\ index' = 1
      /\ mixed' = (mixed \/ v < version) /\ runs' \in 0..MaxRuns
      /\ pc' = IF r THEN "hypo" ELSE "removing"
      /\ UNCHANGED <<file, marker, saved, written, made, cut>>
  BY PipelineAssumption DEF StartRun, TypeOK, PipelineAssumption
<1>2. pc' \in {"hypo", "removing"} /\ (pc' = "hypo" => resume') BY <1>1
<1>3. TypeOK'
  <2>1. mixed' \in BOOLEAN BY <1>1
  <2>2. index' \in 1..Len(Steps) + 1 BY <1>1, PipelineAssumption DEF PipelineAssumption
  <2>3. QED BY <1>1, <1>2, <2>1, <2>2 DEF TypeOK
<1>4. v \in Nat /\ v # NoVersion /\ version \in Nat
  BY PipelineAssumption DEF PipelineAssumption, TypeOK, NoVersion
<1>5. \A s \in StepNames : marker[s] \in Nat
  <2>1. Versions \cup {NoVersion} \subseteq Nat
    BY PipelineAssumption DEF PipelineAssumption, NoVersion
  <2>2. marker \in [StepNames -> Versions \cup {NoVersion}] BY DEF TypeOK
  <2>3. QED BY <2>1, <2>2
<1>6. saved \in Nat BY PipelineAssumption DEF PipelineAssumption, TypeOK, NoVersion
<1>7. ~mixed' => ~mixed /\ version <= v
  <2>1. ~mixed' => ~mixed /\ ~(v < version) BY <1>1
  <2>2. ~(v < version) => version <= v BY <1>4
  <2>3. QED BY <2>1, <2>2
<1>8. VersionInv' BY <1>1, <1>2, <1>4, <1>5, <1>6, <1>7 DEF VersionInv
<1>9. MarkerInv'
  <2>1. ~cut' /\ pc' # "removing" =>
          \A s \in StepNames : marker'[s] # NoVersion => validate_outputs(s)'
    BY <1>1 DEF MarkerInv, validate_outputs, Exists
  <2>2. ASSUME NEW s \in StepNames, Vouched(s)', marker'[s] = version',
               NEW f \in Outputs(s), Exists(f)'
        PROVE  file'[f] = Fresh(version)'
    <3>1. ~mixed' /\ Vouched(s) BY <1>1, <2>2 DEF Vouched
    <3>2. marker[s] <= version BY <1>7, <3>1 DEF VersionInv
    <3>3. v = version BY <1>1, <1>4, <1>5, <1>7, <2>2, <3>1, <3>2
    <3>4. QED BY <1>1, <1>4, <2>2, <3>1, <3>3 DEF MarkerInv, Exists, Fresh
  <2>3. ASSUME ~mixed', saved' = version', Exists("checkpoint")'
        PROVE  file'["checkpoint"] = Fresh(version)'
    <3>1. v = version BY <1>1, <1>4, <1>6, <1>7, <2>3 DEF VersionInv
    <3>2. QED BY <1>1, <1>4, <1>7, <2>3, <3>1 DEF MarkerInv, Exists, Fresh
  <2>4. QED BY <2>1, <2>2, <2>3 DEF MarkerInv
<1>10. PassedInv' /\ EmptiedInv' /\ StepInv' /\ InputsAreFresh'
  BY <1>1, <1>2 DEF PassedInv, EmptiedInv, StepInv, InputsAreFresh
<1>11. QED BY <1>3, <1>8, <1>9, <1>10

\* Emptying the workspace to the end takes every marker along.
LEMMA RemovedStep == ASSUME IInv, Removed PROVE IInv'
<1> USE DEF IInv
<1>1. /\ pc = "removing" /\ pc' = "hypo" /\ cut' = FALSE /\ mixed' = FALSE
      /\ file' = [f \in Files |-> Absent] /\ saved' = NoVersion
      /\ marker' = [s \in StepNames |-> NoVersion]
      /\ UNCHANGED <<version, resume, runs, index, written, made>>
  BY DEF Removed
<1>2. TypeOK'
  <2>1. Absent \in Contents BY DEF Absent, Contents
  <2>2. QED BY <1>1, <2>1 DEF TypeOK
<1>3. version \in Nat /\ version \in Versions /\ version # NoVersion
  BY <1>1, PipelineAssumption DEF PipelineAssumption, VersionInv, NoVersion
<1>4. VersionInv' BY <1>1, <1>3 DEF VersionInv, NoVersion
<1>5. MarkerInv' BY <1>1, <1>3 DEF MarkerInv
<1>6. EmptiedInv'
  <2> DEFINE n == Len(Steps)
  <2>0. n \in Nat /\ index \in 1..n+1 BY PipelineAssumption DEF TypeOK, PipelineAssumption
  <2> HIDE DEF n
  <2>1. \A i \in index..n : i \in 1..n BY <2>0
  <2>2. \A i \in index..Len(Steps) : Steps[i] \in StepNames BY <2>1, StepFacts DEF n
  <2>3. QED BY <1>1, <2>2 DEF EmptiedInv
<1>7. PassedInv' /\ StepInv' /\ InputsAreFresh'
  BY <1>1 DEF PassedInv, StepInv, InputsAreFresh
<1>8. QED BY <1>2, <1>4, <1>5, <1>6, <1>7

\* Removing one path while emptying takes away nothing that is vouched for.
LEMMA RemoveOneStep ==
  ASSUME IInv, (\E f \in Files : RemoveFile(f)) \/ (\E s \in StepNames : RemoveMarker(s))
  PROVE  IInv'
<1> USE DEF IInv
<1>1. /\ pc = "removing" /\ pc' = pc
      /\ UNCHANGED <<version, resume, runs, cut, mixed, index, written, made>>
  BY DEF RemoveFile, RemoveMarker, runVars
<1>2. version \in Nat /\ version \in Versions /\ version # NoVersion
  BY <1>1, PipelineAssumption DEF PipelineAssumption, VersionInv, NoVersion
<1>3. PassedInv' /\ EmptiedInv' /\ StepInv' /\ InputsAreFresh'
  BY <1>1 DEF PassedInv, EmptiedInv, StepInv, InputsAreFresh
<1>4. CASE \E f \in Files : RemoveFile(f)
  <2>1. PICK f \in Files : RemoveFile(f) BY <1>4
  <2>2. /\ file' = [file EXCEPT ![f] = Absent] /\ marker' = marker
        /\ saved' = IF f = "checkpoint" THEN NoVersion ELSE saved
    BY <2>1 DEF RemoveFile
  <2>3. TypeOK'
    <3>1. Absent \in Contents BY DEF Absent, Contents
    <3>2. file' \in [Files -> Contents] /\ saved' \in Versions \cup {NoVersion}
      BY <2>2, <3>1 DEF TypeOK
    <3>3. QED BY <1>1, <2>2, <3>2 DEF TypeOK
  <2>4. VersionInv' BY <1>1, <1>2, <2>2 DEF VersionInv, NoVersion
  <2>5. \A g \in Files : Exists(g)' => file'[g] = file[g] /\ Exists(g) /\ g # f
    BY <2>2 DEF TypeOK, Exists, Absent
  <2>6. "checkpoint" \in Files BY DEF Files
  <2>7. MarkerInv'
    BY <1>1, <1>2, <2>2, <2>5, <2>6, NameFacts DEF MarkerInv, Vouched, Fresh
  <2>8. QED BY <1>3, <2>3, <2>4, <2>7
<1>5. CASE \E s \in StepNames : RemoveMarker(s)
  <2>1. PICK s \in StepNames : RemoveMarker(s) BY <1>5
  <2>2. marker' = [marker EXCEPT ![s] = NoVersion] /\ file' = file /\ saved' = saved
    BY <2>1 DEF RemoveMarker
  <2>3. TypeOK' BY <1>1, <2>2 DEF TypeOK
  <2>4. \A t \in StepNames : marker'[t] = marker[t] \/ marker'[t] = NoVersion
    BY <2>2 DEF TypeOK
  <2>5. VersionInv' BY <1>1, <1>2, <2>2, <2>4 DEF VersionInv, NoVersion
  <2>6. MarkerInv' BY <1>1, <1>2, <2>2, <2>4 DEF MarkerInv, Vouched, Fresh, Exists
  <2>7. QED BY <1>3, <2>3, <2>5, <2>6
<1>6. QED BY <1>4, <1>5

-----------------------------------------------------------------------------
(* A run that writes *)

\* The step a run is at.
LEMMA CurrentStep ==
  ASSUME TypeOK, index <= Len(Steps)
  PROVE  /\ index \in 1..Len(Steps) /\ step = Steps[index]
         /\ step \in StepNames /\ step \in DOMAIN Registry
         /\ Outputs(step) \subseteq Files
         /\ Len(outputs) \in 1..3
         /\ \A i \in 1..Len(outputs) : outputs[i] \in Outputs(step)
         /\ \A g \in Outputs(step) : \E i \in 1..Len(outputs) : g = outputs[i]
         /\ \A i, j \in 1..Len(outputs) : i # j => outputs[i] # outputs[j]
<1>1. index \in 1..Len(Steps) BY PipelineAssumption DEF TypeOK, PipelineAssumption
<1>2. step \in StepNames /\ step \in DOMAIN Registry /\ Outputs(step) \subseteq Files
  BY <1>1, StepFacts DEF step
<1>3. QED BY <1>1, <1>2, OutputList DEF step, outputs

\* A write to a file keeps the markers true when what it writes is what the
\* markers over that file vouch for.
LEMMA WriteKeeps ==
  ASSUME TypeOK, MarkerInv, NEW f \in Files, NEW c \in Contents, c.by # {},
         file' = [file EXCEPT ![f] = c],
         UNCHANGED <<marker, version, cut, mixed>>,
         pc # "removing", version # NoVersion,
         \A s \in StepNames : f \in Outputs(s) /\ Vouched(s) /\ marker[s] = version =>
           c = Fresh(version),
         f = "checkpoint" => (~mixed => c = Fresh(version)),
         f # "checkpoint" => saved' = saved
  PROVE  /\ MarkerInv'
         /\ file' \in [Files -> Contents]
         /\ \A s \in StepNames : validate_outputs(s) => validate_outputs(s)'
<1>1. \A s \in StepNames : validate_outputs(s) => validate_outputs(s)'
  BY FilesStay DEF TypeOK
<1>2. \A g \in Files : g # f => file'[g] = file[g] /\ (Exists(g)' <=> Exists(g))
  BY DEF TypeOK, Exists
<1>3. file'[f] = c BY DEF TypeOK
<1>4. ~cut' /\ pc' # "removing" =>
        \A s \in StepNames : marker'[s] # NoVersion => validate_outputs(s)'
  BY <1>1 DEF MarkerInv
<1>5. ASSUME NEW s \in StepNames, Vouched(s)', marker'[s] = version',
             NEW g \in Outputs(s), Exists(g)'
      PROVE  file'[g] = Fresh(version)'
  <2>1. Vouched(s) /\ marker[s] = version BY <1>5 DEF Vouched
  <2>2. g \in Files BY NameFacts
  <2>3. CASE g = f BY <1>3, <2>1, <2>3 DEF Fresh
  <2>4. CASE g # f
    <3>1. file'[g] = file[g] /\ Exists(g) BY <1>2, <1>5, <2>2, <2>4
    <3>2. file[g] = Fresh(version) BY <2>1, <3>1 DEF MarkerInv
    <3>3. QED BY <3>1, <3>2 DEF Fresh
  <2>5. QED BY <2>3, <2>4
<1>6. ASSUME ~mixed', saved' = version', Exists("checkpoint")'
      PROVE  file'["checkpoint"] = Fresh(version)'
  <2>1. "checkpoint" \in Files BY DEF Files
  <2>2. CASE f = "checkpoint" BY <1>3, <1>6, <2>2 DEF Fresh
  <2>3. CASE f # "checkpoint"
    <3>1. file'["checkpoint"] = file["checkpoint"] /\ Exists("checkpoint")
      BY <1>2, <1>6, <2>1, <2>3
    <3>2. saved = version /\ ~mixed BY <1>6, <2>3
    <3>3. file["checkpoint"] = Fresh(version) BY <3>1, <3>2 DEF MarkerInv
    <3>4. QED BY <3>1, <3>3 DEF Fresh
  <2>4. QED BY <2>2, <2>3
<1>7. MarkerInv' BY <1>4, <1>5, <1>6 DEF MarkerInv
<1>8. file' \in [Files -> Contents] BY DEF TypeOK
<1>9. QED BY <1>1, <1>7, <1>8

\* A run's version, in a run.
LEMMA RunningVersion ==
  ASSUME VersionInv, pc # "idle"
  PROVE  /\ version \in Nat /\ version \in Versions /\ version # NoVersion
         /\ Fresh(version) \in Contents /\ Fresh(version).by # {}
         /\ Torn(version) \in Contents /\ Torn(version).by # {}
<1>1. version \in Nat /\ version \in Versions /\ version # NoVersion
  BY PipelineAssumption DEF PipelineAssumption, VersionInv, NoVersion
<1>2. {version} \in SUBSET Versions BY <1>1
<1>3. Fresh(version) \in Contents /\ Torn(version) \in Contents
  BY <1>2 DEF Fresh, Torn, Contents
<1>4. version \in Fresh(version).by /\ version \in Torn(version).by BY DEF Fresh, Torn
<1>5. QED BY <1>1, <1>3, <1>4

\* hypo.dat is no step's output; when it is written the run's steps begin.
LEMMA HypoStep ==
  ASSUME IInv, OpenHypo \/ WriteHypo
  PROVE  IInv'
<1> USE DEF IInv
<1>1. PICK c \in {Fresh(version), Torn(version)} :
        /\ file' = [file EXCEPT !["hypo.dat"] = c]
        /\ pc' # "calculating" => c = Fresh(version)
  BY DEF OpenHypo, WriteHypo
<1>2. /\ pc \in {"hypo", "calculating"} /\ pc' \in {"calculating", "steps"}
      /\ UNCHANGED <<marker, saved, version, resume, runs, cut, mixed, index, written, made>>
  BY DEF OpenHypo, WriteHypo, runVars
<1>3. c \in Contents /\ c.by # {} /\ version # NoVersion BY <1>2, RunningVersion
<1>4. "hypo.dat" \in Files /\ "hypo.dat" # "checkpoint" BY DEF Files
<1>5. \A s \in StepNames : "hypo.dat" \notin Outputs(s) BY NameFacts, OutputsDisjoint
<1>6. MarkerInv' /\ file' \in [Files -> Contents]
  BY <1>1, <1>2, <1>3, <1>4, <1>5, WriteKeeps
<1>7. TypeOK' BY <1>2, <1>6 DEF TypeOK
<1>8. VersionInv' BY <1>2 DEF VersionInv
<1>9. EmptiedInv' BY <1>2 DEF EmptiedInv
<1>10. StepInv' /\ InputsAreFresh' BY <1>2 DEF StepInv, InputsAreFresh
<1>11. PassedInv'
  <2>1. pc' = "steps" => file'["hypo.dat"] = Fresh(version)
    BY <1>1, <1>4 DEF TypeOK
  <2>2. index = 1 BY <1>2 DEF StepInv
  <2>3. QED BY <1>2, <2>1, <2>2 DEF PassedInv, Fresh
<1>12. QED BY <1>6, <1>7, <1>8, <1>9, <1>10, <1>11

\* Passing a step adds it to those behind the run.
LEMMA PassedOne ==
  ASSUME TypeOK, index <= Len(Steps), index' = index + 1, version' = version,
         \A i \in 1..index-1 : marker[Steps[i]] = version /\ validate_outputs(Steps[i]),
         \A s \in StepNames \ {step} : marker'[s] = marker[s],
         marker'[step] = version, validate_outputs(step), file' = file
  PROVE  \A i \in 1..index'-1 : marker'[Steps[i]] = version' /\ validate_outputs(Steps[i])'
<1>1. SUFFICES ASSUME NEW i \in 1..index
               PROVE  marker'[Steps[i]] = version /\ validate_outputs(Steps[i])'
  BY DEF TypeOK
<1>2. CASE i = index BY <1>2 DEF step, validate_outputs, Exists
<1>3. CASE i # index
  <2>1. i \in 1..index-1 /\ i \in 1..Len(Steps) /\ index \in 1..Len(Steps)
    BY <1>3, PipelineAssumption, CurrentStep DEF TypeOK, PipelineAssumption
  <2>2. Steps[i] \in StepNames \ {step} BY <1>3, <2>1, StepFacts, NameFacts DEF step
  <2>3. validate_outputs(Steps[i]) BY <2>1
  <2>4. validate_outputs(Steps[i])' BY <2>3 DEF validate_outputs, Exists
  <2>5. QED BY <2>1, <2>2, <2>4
<1>4. QED BY <1>2, <1>3

\* A step is skipped when its marker and its files are there.
LEMMA SkipStepStep == ASSUME IInv, SkipStep PROVE IInv'
<1> USE DEF IInv
<1>1. /\ pc = "steps" /\ pc' = pc /\ index <= Len(Steps) /\ resume
      /\ marker[step] = version /\ validate_outputs(step) /\ index' = index + 1
      /\ UNCHANGED <<file, marker, saved, version, resume, runs, cut, mixed, written, made>>
  BY DEF SkipStep, is_step_complete, runVars
<1>2. index' \in 1..Len(Steps) + 1 BY <1>1, PipelineAssumption DEF TypeOK, PipelineAssumption
<1>3. TypeOK' BY <1>1, <1>2 DEF TypeOK
<1>4. VersionInv' BY <1>1 DEF VersionInv
<1>5. MarkerInv' BY <1>1 DEF MarkerInv, Vouched, Fresh, validate_outputs, Exists
<1>6. PassedInv' BY <1>1, PassedOne DEF PassedInv, Fresh
<1>7. EmptiedInv' /\ StepInv' /\ InputsAreFresh'
  BY <1>1 DEF EmptiedInv, StepInv, InputsAreFresh
<1>8. QED BY <1>3, <1>4, <1>5, <1>6, <1>7

\* Every file a vouched step reads is whole and of this version.
LEMMA ReadsAreFresh ==
  ASSUME IInv, pc = "steps", index <= Len(Steps), Vouched(step),
         NEW f \in Registry[step].reads
  PROVE  file[f] = Fresh(version)
<1> USE DEF IInv
<1>1. index \in 1..Len(Steps) /\ step = Steps[index] /\ step \in DOMAIN Registry
  BY CurrentStep
<1>2. CASE f = "hypo.dat" BY <1>2 DEF PassedInv
<1>3. CASE f # "hypo.dat"
  <2>1. PICK j \in 1..index-1 : f \in Outputs(Steps[j]) BY <1>1, <1>3, StepFacts
  <2>2. j \in 1..Len(Steps) BY <1>1, PipelineAssumption DEF PipelineAssumption
  <2>3. marker[Steps[j]] = version /\ validate_outputs(Steps[j]) BY <2>1 DEF PassedInv
  <2>4. Steps[j] \in StepNames /\ Steps[j] \in DOMAIN Registry BY <2>2, StepFacts
  <2>5. Vouched(Steps[j])
    <3>1. Registry[step].atomic => Registry[Steps[j]].atomic
      BY <1>1, <2>1, <2>4, AtomicReads
    <3>2. QED BY <3>1 DEF Vouched
  <2>6. Exists(f) BY <2>1, <2>3 DEF validate_outputs
  <2>7. version # NoVersion BY RunningVersion
  <2>8. QED BY <2>1, <2>3, <2>4, <2>5, <2>6, <2>7 DEF MarkerInv
<1>4. QED BY <1>2, <1>3

\* A step that begins reads fresh files, or a fresh checkpoint.
LEMMA BeginStepStep == ASSUME IInv, BeginStep PROVE IInv'
<1> USE DEF IInv
<1> DEFINE reads == IF UseCheckpoint THEN {"checkpoint", "xyo.dat"} ELSE Registry[step].reads
<1> DEFINE got == [by    |-> {version} \cup UNION {file[f].by : f \in reads},
                   whole |-> \A f \in reads : file[f].whole]
<1>1. /\ pc = "steps" /\ pc' = "running" /\ index <= Len(Steps) /\ written' = 0
      /\ ~(resume /\ is_step_complete(step)) /\ made' = got
      /\ UNCHANGED <<file, marker, saved, version, resume, runs, cut, mixed, index>>
  BY DEF BeginStep, runVars
<1>2. version # NoVersion /\ version \in Versions BY <1>1, RunningVersion
<1>3. index \in 1..Len(Steps) /\ step \in StepNames /\ step = Steps[index]
      /\ Len(outputs) \in 1..3
  BY <1>1, CurrentStep
<1>4. reads \subseteq Files
  <2>1. "checkpoint" \in Files BY DEF Files
  <2>2. Registry[step].reads \subseteq Files BY <1>3, StepFacts
  <2>3. UseCheckpoint => "xyo.dat" \in Registry[step].reads BY AtomicReads DEF UseCheckpoint
  <2>4. QED BY <2>1, <2>2, <2>3
<1>5. ASSUME Vouched(step)
      PROVE  \A f \in reads : file[f] = Fresh(version)
  <2>1. \A f \in Registry[step].reads : file[f] = Fresh(version)
    BY <1>1, <1>5, ReadsAreFresh
  <2>2. UseCheckpoint => "xyo.dat" \in Registry[step].reads BY AtomicReads DEF UseCheckpoint
  <2>3. UseCheckpoint => file["checkpoint"] = Fresh(version)
    BY <1>2, <1>5 DEF UseCheckpoint, MarkerInv, Vouched
  <2>4. QED BY <2>1, <2>2, <2>3
<1>6. InputsAreFresh'
  <2>1. SUFFICES ASSUME Vouched(step) PROVE made' = Fresh(version)
    <3>1. Vouched(step)' <=> Vouched(step) BY <1>1 DEF Vouched, step
    <3>2. Fresh(version)' = Fresh(version) BY <1>1 DEF Fresh
    <3>3. QED BY <3>1, <3>2 DEF InputsAreFresh
  <2>2. \A f \in reads : file[f].by = {version} /\ file[f].whole = TRUE
    BY <1>5, <2>1 DEF Fresh
  <2>3. {version} \cup UNION {file[f].by : f \in reads} = {version} BY <2>2
  <2>4. (\A f \in reads : file[f].whole) = TRUE BY <2>2
  <2>5. QED BY <1>1, <2>3, <2>4 DEF Fresh
<1>7. made' \in Contents /\ made'.by # {}
  <2>1. \A f \in reads : file[f].by \in SUBSET Versions
    <3>1. \A f \in Files : file[f] \in Contents BY DEF TypeOK
    <3>2. QED BY <1>4, <3>1 DEF Contents
  <2>2. {version} \cup UNION {file[f].by : f \in reads} \in SUBSET Versions
    BY <1>2, <2>1
  <2>3. (\A f \in reads : file[f].whole) \in BOOLEAN OBVIOUS
  <2> HIDE DEF reads
  <2>4. got \in Contents BY <2>2, <2>3 DEF Contents
  <2>5. version \in got.by OBVIOUS
  <2>6. QED BY <1>1, <2>4, <2>5
<1>8. ~cut => marker[step] # version
  <2>1. CASE ~resume
    <3>1. index \in index..Len(Steps) BY <1>3, PipelineAssumption DEF PipelineAssumption
    <3>2. QED BY <1>1, <1>2, <1>3, <2>1, <3>1 DEF EmptiedInv
  <2>2. CASE resume
    BY <1>1, <1>2, <1>3, <2>2 DEF is_step_complete, MarkerInv
  <2>3. QED BY <2>1, <2>2
<1> HIDE DEF got
<1>9. TypeOK' BY <1>1, <1>7 DEF TypeOK
<1>10. VersionInv' BY <1>1 DEF VersionInv
<1>11. MarkerInv' BY <1>1 DEF MarkerInv, Vouched, Fresh, validate_outputs, Exists
<1>12. PassedInv' BY <1>1 DEF PassedInv, Fresh, validate_outputs, Exists
<1>13. EmptiedInv' BY <1>1 DEF EmptiedInv
<1>14. StepInv'
  <2>1. marker'[step'] = marker[step] /\ outputs' = outputs BY <1>1 DEF step, outputs
  <2>2. QED BY <1>1, <1>3, <1>7, <1>8, <2>1 DEF StepInv
<1>15. QED BY <1>6, <1>9, <1>10, <1>11, <1>12, <1>13, <1>14

\* While a run writes in a step: what a write of its file must keep.
LEMMA StepWrite ==
  ASSUME IInv, pc \in {"running", "torn"}, pc' \in {"running", "torn"},
         NEW f \in Files, f # "hypo.dat", NEW c \in Contents, c.by # {},
         file' = [file EXCEPT ![f] = c],
         UNCHANGED <<marker, version, resume, runs, cut, mixed, index, made>>,
         \A s \in StepNames : f \in Outputs(s) /\ Vouched(s) /\ marker[s] = version =>
           c = Fresh(version),
         f = "checkpoint" => (~mixed => c = Fresh(version)),
         saved' = IF f = "checkpoint" THEN version ELSE saved,
         written' \in 0..3
  PROVE  /\ TypeOK' /\ VersionInv' /\ MarkerInv' /\ PassedInv' /\ EmptiedInv'
         /\ InputsAreFresh'
<1> USE DEF IInv
<1>1. version \in Nat /\ version \in Versions /\ version # NoVersion BY RunningVersion
<1>2. /\ MarkerInv' /\ file' \in [Files -> Contents]
      /\ \A s \in StepNames : validate_outputs(s) => validate_outputs(s)'
  BY <1>1, WriteKeeps
<1>3. saved' \in Versions \cup {NoVersion} BY <1>1 DEF TypeOK
<1>4. TypeOK' BY <1>2, <1>3 DEF TypeOK
<1>5. VersionInv' BY <1>1 DEF VersionInv
<1>6. PassedInv'
  <2>1. file'["hypo.dat"] = file["hypo.dat"] BY DEF TypeOK, Files
  <2>2. index <= Len(Steps) BY DEF StepInv
  <2>3. \A i \in 1..index-1 : i \in 1..Len(Steps)
    BY <2>2, PipelineAssumption, CurrentStep DEF PipelineAssumption
  <2>4. \A i \in 1..index-1 : Steps[i] \in StepNames BY <2>3, StepFacts
  <2>5. \A i \in 1..index-1 : marker[Steps[i]] = version /\ validate_outputs(Steps[i])
    BY DEF PassedInv
  <2>6. \A i \in 1..index-1 : validate_outputs(Steps[i])' BY <1>2, <2>4, <2>5
  <2>7. QED BY <2>1, <2>5, <2>6 DEF PassedInv, Fresh
<1>7. EmptiedInv' BY DEF EmptiedInv
<1>8. InputsAreFresh'
  <2>1. Vouched(step)' <=> Vouched(step) BY DEF Vouched, step
  <2>2. QED BY <2>1 DEF InputsAreFresh, Fresh
<1>9. QED BY <1>2, <1>4, <1>5, <1>6, <1>7, <1>8

\* The checkpoint holds what the step computed from.
LEMMA SaveCheckpointStep == ASSUME IInv, SaveCheckpoint PROVE IInv'
<1> USE DEF IInv
<1>1. /\ pc = "running" /\ pc' = pc /\ step = "tsunami" /\ written = 0 /\ written' = 0
      /\ file' = [file EXCEPT !["checkpoint"] = made] /\ saved' = version
      /\ UNCHANGED <<marker, version, resume, runs, cut, mixed, index, made>>
  BY DEF SaveCheckpoint, runVars
<1>2. "checkpoint" \in Files /\ "checkpoint" # "hypo.dat" BY DEF Files
<1>3. \A s \in StepNames : "checkpoint" \notin Outputs(s) BY NameFacts, OutputsDisjoint
<1>4. ~mixed => made = Fresh(version)
  BY <1>1, AtomicReads DEF InputsAreFresh, Vouched
<1>5. made \in Contents /\ made.by # {} BY <1>1 DEF TypeOK, StepInv
<1>6. TypeOK' /\ VersionInv' /\ MarkerInv' /\ PassedInv' /\ EmptiedInv' /\ InputsAreFresh'
  <2> DEFINE f == "checkpoint"
  <2>1. /\ f \in Files /\ f # "hypo.dat" /\ file' = [file EXCEPT ![f] = made]
        /\ \A s \in StepNames : f \notin Outputs(s)
        /\ f = "checkpoint" /\ written' \in 0..3
    BY <1>1, <1>2, <1>3
  <2> HIDE DEF f
  <2>2. saved' = IF f = "checkpoint" THEN version ELSE saved BY <1>1, <2>1
  <2>3. QED BY <1>1, <1>4, <1>5, <2>1, <2>2, StepWrite
<1>7. StepInv'
  <2>1. outputs' = outputs /\ step' = step BY <1>1 DEF outputs, step
  <2>2. QED BY <1>1, <2>1 DEF StepInv
<1>8. QED BY <1>6, <1>7

\* The file a step writes next is an output of that step alone.
LEMMA NextOutput ==
  ASSUME IInv, pc \in {"running", "torn"}, written < Len(outputs)
  PROVE  /\ outputs[written + 1] \in Outputs(step)
         /\ outputs[written + 1] \in Files
         /\ outputs[written + 1] \notin {"hypo.dat", "checkpoint"}
         /\ \A s \in StepNames : outputs[written + 1] \in Outputs(s) => s = step
         /\ \A i \in 1..written : outputs[i] # outputs[written + 1] /\ outputs[i] \in Files
         /\ written + 1 \in 0..3 /\ written \in Nat
         /\ written + 1 <= Len(outputs)
<1> USE DEF IInv
<1>1. index <= Len(Steps) BY DEF StepInv
<1>2. /\ Len(outputs) \in 1..3 /\ step \in DOMAIN Registry
      /\ Outputs(step) \subseteq Files
      /\ \A i \in 1..Len(outputs) : outputs[i] \in Outputs(step)
      /\ \A i, j \in 1..Len(outputs) : i # j => outputs[i] # outputs[j]
  BY <1>1, CurrentStep
<1>3. written \in 0..3 BY DEF TypeOK
<1>4. written + 1 \in 1..Len(outputs) /\ written + 1 \in 0..3 /\ written \in Nat
      /\ written + 1 <= Len(outputs)
  BY <1>2, <1>3
<1>5. \A i \in 1..written : i \in 1..Len(outputs) /\ i # written + 1 BY <1>2, <1>3
<1>6. \A i \in 1..written : outputs[i] # outputs[written + 1] /\ outputs[i] \in Files
  BY <1>2, <1>4, <1>5
<1>7. outputs[written + 1] \in Outputs(step) BY <1>2, <1>4
<1>8. outputs[written + 1] \in Files BY <1>2, <1>7
<1>9. outputs[written + 1] \notin {"hypo.dat", "checkpoint"}
  BY <1>2, <1>7, OutputsDisjoint
<1>10. \A s \in StepNames : outputs[written + 1] \in Outputs(s) => s = step
  BY <1>2, <1>7, OutputsDisjoint, NameFacts
<1>11. QED BY <1>4, <1>6, <1>7, <1>8, <1>9, <1>10

\* A torn output belongs to a step whose marker is not this version's.
LEMMA OpenOutputStep == ASSUME IInv, OpenOutput PROVE IInv'
<1> USE DEF IInv
<1> DEFINE f == outputs[written + 1]
<1>1. /\ pc = "running" /\ pc' = "torn" /\ written < Len(outputs) /\ written' = written
      /\ ~Registry[step].atomic /\ saved' = saved
      /\ file' = [file EXCEPT ![f] = Torn(version)]
      /\ UNCHANGED <<marker, version, resume, runs, cut, mixed, index, made>>
  BY DEF OpenOutput, runVars
<1>2. /\ f \in Files /\ f # "hypo.dat" /\ f # "checkpoint"
      /\ \A s \in StepNames : f \in Outputs(s) => s = step
      /\ \A i \in 1..written : outputs[i] # f /\ outputs[i] \in Files
  BY <1>1, NextOutput
<1> HIDE DEF f
<1>3. Torn(version) \in Contents /\ Torn(version).by # {} BY <1>1, RunningVersion
<1>4. ~(Vouched(step) /\ marker[step] = version) BY <1>1 DEF StepInv, Vouched
<1>5. written' \in 0..3 BY <1>1 DEF TypeOK
<1>6. TypeOK' /\ VersionInv' /\ MarkerInv' /\ PassedInv' /\ EmptiedInv' /\ InputsAreFresh'
  BY <1>1, <1>2, <1>3, <1>4, <1>5, StepWrite
<1>7. StepInv'
  <2>1. outputs' = outputs /\ step' = step BY <1>1 DEF outputs, step
  <2>2. \A i \in 1..written : file'[outputs[i]] = made
    BY <1>1, <1>2 DEF StepInv, TypeOK
  <2>3. QED BY <1>1, <2>1, <2>2 DEF StepInv
<1>8. QED BY <1>6, <1>7

\* A whole output holds what the step computed.
LEMMA WriteOutputStep == ASSUME IInv, WriteOutput PROVE IInv'
<1> USE DEF IInv
<1> DEFINE f == outputs[written + 1]
<1>1. /\ pc \in {"running", "torn"} /\ pc' = "running" /\ written < Len(outputs)
      /\ written' = written + 1 /\ saved' = saved
      /\ file' = [file EXCEPT ![f] = made]
      /\ UNCHANGED <<marker, version, resume, runs, cut, mixed, index, made>>
  BY DEF WriteOutput, runVars, StepInv
<1>2. /\ f \in Files /\ f # "hypo.dat" /\ f # "checkpoint"
      /\ \A s \in StepNames : f \in Outputs(s) => s = step
      /\ \A i \in 1..written : outputs[i] # f /\ outputs[i] \in Files
      /\ written + 1 \in 0..3 /\ written \in Nat /\ written + 1 <= Len(outputs)
  BY <1>1, NextOutput
<1>3. made \in Contents /\ made.by # {} BY <1>1 DEF TypeOK, StepInv
<1>4. Vouched(step) => made = Fresh(version) BY <1>1 DEF InputsAreFresh
<1>5. \A i \in 1..written : file'[outputs[i]] = made
  <2> HIDE DEF f
  <2>1. QED BY <1>1, <1>2 DEF StepInv, TypeOK
<1>6. file'[outputs[written + 1]] = made
  <2>1. file'[f] = made
    <3> HIDE DEF f
    <3>1. QED BY <1>1, <1>2 DEF TypeOK
  <2>2. QED BY <2>1
<1> HIDE DEF f
<1>7. TypeOK' /\ VersionInv' /\ MarkerInv' /\ PassedInv' /\ EmptiedInv' /\ InputsAreFresh'
  BY <1>1, <1>2, <1>3, <1>4, StepWrite
<1>8. StepInv'
  <2>1. outputs' = outputs /\ step' = step BY <1>1 DEF outputs, step
  <2>2. \A i \in 1..written + 1 : i \in 1..written \/ i = written + 1 BY <1>2
  <2>3. \A i \in 1..written + 1 : file'[outputs[i]] = made BY <1>5, <1>6, <2>2
  <2>4. QED BY <1>1, <1>2, <2>1, <2>3 DEF StepInv
<1>9. QED BY <1>7, <1>8

\* Unlinking the checkpoint leaves every output.
LEMMA UnlinkCheckpointStep == ASSUME IInv, UnlinkCheckpoint PROVE IInv'
<1> USE DEF IInv
<1>1. /\ pc = "running" /\ pc' = pc /\ written' = written
      /\ file' = [file EXCEPT !["checkpoint"] = Absent] /\ saved' = NoVersion
      /\ UNCHANGED <<marker, version, resume, runs, cut, mixed, index, made>>
  BY DEF UnlinkCheckpoint, runVars
<1>2. version \in Nat /\ version \in Versions /\ version # NoVersion
  BY <1>1, RunningVersion
<1>3. \A g \in Files : g # "checkpoint" => file'[g] = file[g] BY <1>1 DEF TypeOK
<1>4. \A s \in StepNames : \A g \in Outputs(s) : g \in Files /\ g # "checkpoint"
  BY NameFacts, OutputsDisjoint
<1>5. \A s \in StepNames : \A g \in Outputs(s) : file'[g] = file[g] BY <1>3, <1>4
<1>6. \A s \in StepNames : validate_outputs(s) => validate_outputs(s)'
  BY <1>5 DEF validate_outputs, Exists
<1>7. TypeOK'
  <2>1. Absent \in Contents BY DEF Absent, Contents
  <2>2. file' \in [Files -> Contents] BY <1>1, <2>1 DEF TypeOK
  <2>3. QED BY <1>1, <2>2 DEF TypeOK
<1>8. VersionInv' BY <1>1, <1>2 DEF VersionInv, NoVersion
<1>9. MarkerInv' BY <1>1, <1>2, <1>5, <1>6 DEF MarkerInv, Vouched, Fresh, Exists
<1>10. index <= Len(Steps) BY <1>1 DEF StepInv
<1>11. PassedInv'
  <2>1. "hypo.dat" \in Files /\ "hypo.dat" # "checkpoint" BY DEF Files
  <2>2. \A i \in 1..index-1 : i \in 1..Len(Steps)
    BY <1>10, PipelineAssumption, CurrentStep DEF PipelineAssumption
  <2>3. \A i \in 1..index-1 : Steps[i] \in StepNames BY <2>2, StepFacts
  <2>4. \A i \in 1..index-1 : marker[Steps[i]] = version /\ validate_outputs(Steps[i])
    BY <1>1 DEF PassedInv
  <2>5. \A i \in 1..index-1 : validate_outputs(Steps[i])' BY <1>6, <2>3, <2>4
  <2>6. QED BY <1>1, <1>3, <2>1, <2>4, <2>5 DEF PassedInv, Fresh
<1>12. EmptiedInv' BY <1>1 DEF EmptiedInv
<1>13. outputs' = outputs /\ step' = step BY <1>1 DEF outputs, step
<1>14. StepInv'
  <2>1. /\ step \in StepNames /\ Len(outputs) \in 1..3
        /\ \A i \in 1..Len(outputs) : outputs[i] \in Outputs(step)
    BY <1>10, CurrentStep
  <2>2. written <= Len(outputs) /\ written \in 0..3 BY <1>1 DEF StepInv, TypeOK
  <2>3. \A i \in 1..written : i \in 1..Len(outputs) BY <2>1, <2>2
  <2>4. \A i \in 1..written : file'[outputs[i]] = made
    BY <1>1, <1>5, <2>1, <2>3 DEF StepInv
  <2>5. QED BY <1>1, <1>13, <2>4 DEF StepInv
<1>15. InputsAreFresh' BY <1>1, <1>13 DEF InputsAreFresh, Vouched, Fresh
<1>16. QED BY <1>7, <1>8, <1>9, <1>11, <1>12, <1>14, <1>15

\* A marker of this version is written over files this step wrote.
LEMMA WriteMarkerStep == ASSUME IInv, WriteMarker PROVE IInv'
<1> USE DEF IInv
<1>1. /\ pc = "running" /\ pc' = "steps" /\ written = Len(outputs)
      /\ validate_outputs(step) /\ index' = index + 1
      /\ marker' = [marker EXCEPT ![step] = version]
      /\ UNCHANGED <<file, saved, version, resume, runs, cut, mixed, written, made>>
  BY DEF WriteMarker, runVars
<1>2. index <= Len(Steps) BY <1>1 DEF StepInv
<1>3. version \in Nat /\ version \in Versions /\ version # NoVersion
  BY <1>1, RunningVersion
<1>4. /\ index \in 1..Len(Steps) /\ step = Steps[index] /\ step \in StepNames
      /\ \A g \in Outputs(step) : \E i \in 1..Len(outputs) : g = outputs[i]
  BY <1>2, CurrentStep
<1>5. /\ marker'[step] = version
      /\ \A s \in StepNames \ {step} : marker'[s] = marker[s]
  BY <1>1, <1>4 DEF TypeOK
<1>6. index' \in 1..Len(Steps) + 1 BY <1>1, <1>4, PipelineAssumption DEF PipelineAssumption
<1>7. TypeOK'
  <2>1. marker' \in [StepNames -> Versions \cup {NoVersion}] BY <1>1, <1>3 DEF TypeOK
  <2>2. QED BY <1>1, <1>6, <2>1 DEF TypeOK
<1>8. VersionInv' BY <1>1, <1>3, <1>5 DEF VersionInv
<1>9. MarkerInv'
  <2>1. \A g \in Outputs(step) : file[g] = made BY <1>1, <1>4 DEF StepInv
  <2>2. Vouched(step) => made = Fresh(version) BY <1>1 DEF InputsAreFresh
  <2>3. \A s \in StepNames : validate_outputs(s) => validate_outputs(s)'
    BY <1>1 DEF validate_outputs, Exists
  <2>4. ~cut' /\ pc' # "removing" =>
          \A s \in StepNames : marker'[s] # NoVersion => validate_outputs(s)'
    BY <1>1, <1>5, <2>3 DEF MarkerInv
  <2>5. ASSUME NEW s \in StepNames, Vouched(s)', marker'[s] = version',
               NEW g \in Outputs(s), Exists(g)'
        PROVE  file'[g] = Fresh(version)'
    <3>1. Vouched(s) /\ Exists(g) BY <1>1, <2>5 DEF Vouched, Exists
    <3>2. CASE s = step BY <1>1, <2>1, <2>2, <3>1, <3>2 DEF Fresh
    <3>3. CASE s # step
      <4>1. marker[s] = version BY <1>1, <1>5, <2>5, <3>3
      <4>2. file[g] = Fresh(version) BY <1>3, <3>1, <4>1 DEF MarkerInv
      <4>3. QED BY <1>1, <4>2 DEF Fresh
    <3>4. QED BY <3>2, <3>3
  <2>6. version' # NoVersion /\ ~mixed' /\ saved' = version' /\ Exists("checkpoint")' =>
          file'["checkpoint"] = Fresh(version)'
    BY <1>1 DEF MarkerInv, Exists, Fresh
  <2>7. QED BY <2>4, <2>5, <2>6 DEF MarkerInv
<1>10. PassedInv' BY <1>1, <1>2, <1>5, PassedOne DEF PassedInv, Fresh
<1>11. EmptiedInv'
  <2>1. SUFFICES ASSUME ~resume, NEW i \in index+1..Len(Steps)
                 PROVE  marker'[Steps[i]] = NoVersion
    BY <1>1 DEF EmptiedInv
  <2>2. i \in 1..Len(Steps) /\ i \in index..Len(Steps) /\ i # index
    BY <1>4, PipelineAssumption DEF PipelineAssumption
  <2>3. Steps[i] \in StepNames \ {step} BY <1>4, <2>2, StepFacts, NameFacts
  <2>4. marker[Steps[i]] = NoVersion BY <1>1, <2>1, <2>2 DEF EmptiedInv
  <2>5. QED BY <1>5, <2>3, <2>4
<1>12. StepInv' /\ InputsAreFresh' BY <1>1 DEF StepInv, InputsAreFresh
<1>13. QED BY <1>7, <1>8, <1>9, <1>10, <1>11, <1>12

\* Ending a run, or killing it, changes no file.
LEMMA EndStep ==
  ASSUME IInv, Finish \/ Killed \/ UNCHANGED vars
  PROVE  IInv'
<1> USE DEF IInv
<1>1. UNCHANGED <<file, marker, saved, version, resume, runs, mixed, index, written, made>>
  BY DEF Finish, Killed, vars, runVars
<1>2. \/ pc = "steps" /\ index = Len(Steps) + 1 /\ pc' = "done" /\ cut' = cut
      \/ pc # "idle" /\ pc' = "idle" /\ cut' = (cut \/ pc = "removing")
      \/ pc' = pc /\ cut' = cut
  BY DEF Finish, Killed, vars, runVars
<1>3. cut' \in BOOLEAN
  <2>1. (cut \/ pc = "removing") \in BOOLEAN BY DEF TypeOK
  <2>2. QED BY <1>2, <2>1 DEF TypeOK
<1>4. TypeOK' BY <1>1, <1>2, <1>3 DEF TypeOK
<1>5. VersionInv' BY <1>1, <1>2 DEF VersionInv
<1>6. ~cut' => ~cut /\ (pc' # "removing" => pc # "removing") BY <1>2
<1>7. MarkerInv'
  <2>1. \A s \in StepNames : Vouched(s)' => Vouched(s) BY <1>1, <1>6 DEF Vouched
  <2>2. QED BY <1>1, <1>6, <2>1 DEF MarkerInv, Fresh, validate_outputs, Exists
<1>8. PassedInv' BY <1>1, <1>2 DEF PassedInv, Fresh, validate_outputs, Exists
<1>9. EmptiedInv' BY <1>1, <1>2 DEF EmptiedInv
<1>10. outputs' = outputs /\ step' = step BY <1>1 DEF outputs, step
<1>11. StepInv' BY <1>1, <1>2, <1>10 DEF StepInv
<1>12. InputsAreFresh' BY <1>1, <1>2, <1>10 DEF InputsAreFresh, Fresh, Vouched
<1>13. QED BY <1>4, <1>5, <1>7, <1>8, <1>9, <1>11, <1>12

-----------------------------------------------------------------------------
(* The theorems *)

\* Every step keeps the invariant.
LEMMA InductiveIInv == IInv /\ [Next]_vars => IInv'
<1>1. SUFFICES ASSUME IInv, Next \/ UNCHANGED vars PROVE IInv' OBVIOUS
<1>2. CASE \E v \in Versions, r \in BOOLEAN : StartRun(v, r) BY <1>1, <1>2, StartRunStep
<1>3. CASE Removed BY <1>1, <1>3, RemovedStep
<1>4. CASE (\E f \in Files : RemoveFile(f)) \/ (\E s \in StepNames : RemoveMarker(s))
  BY <1>1, <1>4, RemoveOneStep
<1>5. CASE OpenHypo \/ WriteHypo BY <1>1, <1>5, HypoStep
<1>6. CASE SkipStep BY <1>1, <1>6, SkipStepStep
<1>7. CASE BeginStep BY <1>1, <1>7, BeginStepStep
<1>8. CASE SaveCheckpoint BY <1>1, <1>8, SaveCheckpointStep
<1>9. CASE OpenOutput BY <1>1, <1>9, OpenOutputStep
<1>10. CASE WriteOutput BY <1>1, <1>10, WriteOutputStep
<1>11. CASE UnlinkCheckpoint BY <1>1, <1>11, UnlinkCheckpointStep
<1>12. CASE WriteMarker BY <1>1, <1>12, WriteMarkerStep
<1>13. CASE Finish \/ Killed \/ UNCHANGED vars BY <1>1, <1>13, EndStep
<1>14. QED
  BY <1>1, <1>2, <1>3, <1>4, <1>5, <1>6, <1>7, <1>8, <1>9, <1>10, <1>11, <1>12, <1>13
  DEF Next

\* The invariant holds in every reachable state.
LEMMA Reachable == Spec => []IInv
<1>1. Init => IInv BY InitIInv
<1>2. QED BY <1>1, InductiveIInv, PTL DEF Spec

\* The variables keep their types: a run never leaves its list of steps, and a
\* step never writes past its outputs.
THEOREM TypeCorrect == Spec => []TypeOK
<1>1. IInv => TypeOK BY DEF IInv
<1>2. QED BY <1>1, Reachable, PTL

\* No step of any run computes from a torn file or from another version's
\* (engine.run, is_step_complete, _read_checkpoint).
THEOREM InputsStayFresh == Spec => []InputsAreFresh
<1>1. IInv => InputsAreFresh BY DEF IInv
<1>2. QED BY <1>1, Reachable, PTL

\* A run returns what a run in an empty workspace would have returned, after
\* any number of killed and resumed ones (engine.run).
THEOREM ResultsAreFresh == Spec => []ResultIsFresh
<1>1. IInv => ResultIsFresh
  <2>1. SUFFICES ASSUME IInv, pc = "done", NEW s \in StepNames, Vouched(s),
                        NEW f \in Outputs(s)
                 PROVE  file[f] = Fresh(version)
    BY DEF ResultIsFresh
  <2>2. index = Len(Steps) + 1 BY <2>1 DEF IInv, StepInv
  <2>3. PICK i \in 1..Len(Steps) : s = Steps[i] BY DEF StepNames
  <2>4. i \in 1..index-1 BY <2>2, <2>3, PipelineAssumption DEF PipelineAssumption
  <2>5. marker[s] = version /\ validate_outputs(s) BY <2>1, <2>3, <2>4 DEF IInv, PassedInv
  <2>6. version # NoVersion BY <2>1, RunningVersion DEF IInv
  <2>7. QED BY <2>1, <2>5, <2>6 DEF IInv, MarkerInv, validate_outputs
<1>2. QED BY <1>1, Reachable, PTL
===============================================================================
