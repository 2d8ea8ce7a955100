-------------------------- MODULE InstallationProofs --------------------------
(***************************************************************************)
(* What is put in place before a simulation can run.                       *)
(*                                                                         *)
(* The model dataset, for any number of installers, files and installs     *)
(* stopped anywhere: a dataset that passes validation is whole.            *)
(*                                                                         *)
(* The migrations of a shared database, for any number of stacks, releases *)
(* and migration files, and wherever commands fail: no file is executed    *)
(* twice or out of order.                                                  *)
(***************************************************************************)
EXTENDS ModelAssets, Deployment, SequenceTheorems, TLAPS

Pcs == {"idle", "clear", "clearing", "mkdir", "extract", "replace", "replacing", "rename",
        "cleanup", "cleaning", "validate"}
Results == {"none", "error", "installed", "stopped"}
States == {"absent", "torn", "whole"} \cup Installers
Installer == [pc : Pcs, dir : Inodes \cup {None}, todo : SUBSET (1..Files),
              next : 1..(Files + 1), result : Results]

StateType ==
  /\ content \in [Inodes -> [1..Files -> States]]
  /\ staging \in Inodes \cup {None}
  /\ target \in Inodes \cup {None}
  /\ inst \in [Installers -> Installer]
  /\ runs \in 0..MaxRuns /\ stops \in 0..MaxStops /\ overlapped \in BOOLEAN

\* The two paths never lead to one inode; a directory is held while it is
\* removed and while one of its files is open, at no other time.
HoldInv ==
  /\ staging # None => staging # target
  /\ \A p \in Installers :
       /\ inst[p].pc \in Removing => inst[p].dir # None
       /\ inst[p].dir # None => inst[p].pc \in Removing \cup {"extract"}
       /\ inst[p].pc = "extract" /\ inst[p].dir # None => inst[p].next <= Files

\* A file that is being written is the open file of its writer, and only a stop
\* leaves a torn one.
WriterInv ==
  /\ \A i \in Inodes, f \in 1..Files : \A p \in Installers :
       content[i][f] = p => /\ inst[p].pc = "extract" /\ inst[p].dir = i /\ inst[p].next = f
  /\ stops = 0 => \A i \in Inodes, f \in 1..Files : content[i][f] # "torn"

\* What an install that runs alone has done so far.
InstallProgress(p, r) ==
  /\ r.pc \in {"clear", "clearing", "mkdir"} => r.next = 1
  /\ r.pc \in {"clearing", "cleaning"} => r.dir = staging
  /\ r.pc = "replacing" => r.dir = target
  /\ r.pc = "extract" =>
       /\ staging # None
       /\ \A f \in 1..Files : f < r.next => content[staging][f] = "whole"
       /\ r.dir # None => r.dir = staging /\ content[staging][r.next] = p
  /\ r.pc \in {"replace", "replacing", "rename"} => staging # None /\ Whole(staging)

AloneInv ==
  ~overlapped =>
    /\ \A p, q \in Installers : inst[p].pc # "idle" /\ inst[q].pc # "idle" => p = q
    /\ target # None => \A f \in 1..Files : content[target][f] \in {"absent", "whole"}
    /\ \A p \in Installers : InstallProgress(p, inst[p])

IInv == StateType /\ HoldInv /\ WriterInv /\ AloneInv

------------------------------------------------------------------------------
\* Files are counted from one, and no inode or mark of a file is taken for
\* something else.
LEMMA Constants ==
  /\ Files \in Nat /\ Files >= 1
  /\ None \notin Inodes
  /\ \A p \in Installers : p # "absent" /\ p # "torn" /\ p # "whole"
  /\ Empty \in [1..Files -> States] /\ \A f \in 1..Files : Empty[f] = "absent"
BY AssetsAssumption DEF AssetsAssumption, Empty, States

\* An installer that is not running has done nothing yet.
LEMMA IdleProgress ==
  ASSUME NEW p, NEW r, r.pc \in {"idle", "validate", "cleanup"}
  PROVE  InstallProgress(p, r)
BY DEF InstallProgress

\* An installer that has ended holds no directory.
LEMMA IdleInstaller ==
  ASSUME NEW x \in Results
  PROVE  Idle(x) \in Installer /\ Idle(x).pc = "idle" /\ Idle(x).dir = None
<1>1. 1 \in 1..(Files + 1) BY Constants
<1> QED BY <1>1 DEF Idle, Installer, Pcs

\* What a step of p does to the installers.
Only(p) ==
  /\ inst' \in [Installers -> Installer]
  /\ \A q \in Installers : q # p => inst'[q] = inst[q]

\* An assignment of p's record leaves the other installers alone.
LEMMA Updated ==
  ASSUME NEW p \in Installers, NEW r \in Installer, inst \in [Installers -> Installer],
         inst' = [inst EXCEPT ![p] = r]
  PROVE  Only(p) /\ inst'[p] = r
BY DEF Only

\* p's record satisfies what HoldInv says of it.
Holds(p) ==
  /\ inst[p].pc \in Removing => inst[p].dir # None
  /\ inst[p].dir # None => inst[p].pc \in Removing \cup {"extract"}
  /\ inst[p].pc = "extract" /\ inst[p].dir # None => inst[p].next <= Files

\* p's steps that change neither the directories nor a file.
LEMMA MoveKeeps ==
  ASSUME IInv, NEW p \in Installers, UNCHANGED <<content, staging, target>>, Only(p),
         runs' \in 0..MaxRuns, stops' \in 0..MaxStops, overlapped' \in BOOLEAN,
         stops' = 0 => stops = 0,
         overlapped => overlapped',
         ~overlapped' => \A q \in Installers : q # p => inst[q].pc = "idle",
         inst[p].dir = None \/ inst[p].pc # "extract",
         Holds(p)',
         ~overlapped' => InstallProgress(p, inst[p])'
  PROVE  IInv'
<1>1. StateType' BY DEF IInv, StateType, Only
<1>2. HoldInv' BY DEF IInv, HoldInv, Holds, Only
<1>3. WriterInv'
  <2>1. ASSUME NEW i \in Inodes, NEW f \in 1..Files, NEW q \in Installers, content[i][f] = q
        PROVE  inst'[q].pc = "extract" /\ inst'[q].dir = i /\ inst'[q].next = f
    <3>1. inst[q].pc = "extract" /\ inst[q].dir = i /\ inst[q].next = f
      BY <2>1 DEF IInv, WriterInv
    <3>2. q # p BY <3>1, Constants
    <3> QED BY <3>1, <3>2 DEF Only
  <2> QED BY <2>1 DEF IInv, WriterInv
<1>4. AloneInv'
  <2> SUFFICES ASSUME ~overlapped' PROVE AloneInv' BY DEF AloneInv
  <2>1. \A q \in Installers : q # p => inst'[q].pc = "idle" BY DEF Only
  <2>2. \A q \in Installers : InstallProgress(q, inst[q])'
    <3> TAKE q \in Installers
    <3>1. CASE q = p BY <3>1
    <3>2. CASE q # p BY <2>1, <3>2 DEF InstallProgress
    <3> QED BY <3>1, <3>2
  <2> QED BY <2>1, <2>2 DEF IInv, AloneInv
<1> QED BY <1>1, <1>2, <1>3, <1>4 DEF IInv

\* A running installer that has never met another is the only one.
LEMMA Alone ==
  ASSUME IInv, NEW p \in Installers, inst[p].pc # "idle", ~overlapped
  PROVE  \A q \in Installers : q # p => inst[q].pc = "idle"
BY DEF IInv, AloneInv

\* An installer that ends, whatever the outcome, without an open file.
LEMMA EndKeeps ==
  ASSUME IInv, NEW p \in Installers, NEW x \in Results, inst' = [inst EXCEPT ![p] = Idle(x)],
         inst[p].dir = None \/ inst[p].pc # "extract",
         UNCHANGED <<content, staging, target>>,
         runs' \in 0..MaxRuns, stops' \in 0..MaxStops, overlapped' \in BOOLEAN,
         stops' = 0 => stops = 0, overlapped => overlapped',
         ~overlapped' => \A q \in Installers : q # p => inst[q].pc = "idle"
  PROVE  IInv'
<1>1. Only(p) /\ inst'[p] = Idle(x) BY IdleInstaller, Updated DEF IInv, StateType
<1>2. inst'[p].pc = "idle" /\ inst'[p].dir = None BY <1>1, IdleInstaller
<1>3. Holds(p)' BY <1>2 DEF Holds, Removing
<1>4. InstallProgress(p, inst[p])' BY <1>2 DEF InstallProgress
<1> QED BY <1>1, <1>3, <1>4, MoveKeeps

\* install starts, alone or beside another install.
LEMMA BeginKeeps ==
  ASSUME IInv, NEW p \in Installers, NEW force \in BOOLEAN, Begin(p, force)
  PROVE  IInv'
<1>1. /\ inst[p].pc = "idle" /\ runs < MaxRuns /\ runs' = runs + 1
      /\ overlapped' = (overlapped \/ \E q \in Installers : inst[q].pc # "idle")
      /\ UNCHANGED <<content, staging, target, stops>>
  BY DEF Begin
<1>2. runs' \in 0..MaxRuns /\ stops' \in 0..MaxStops
  BY <1>1, AssetsAssumption DEF IInv, StateType, AssetsAssumption
<1>3. overlapped' \in BOOLEAN /\ (overlapped => overlapped')
  BY <1>1
<1>4. ~overlapped' => \A q \in Installers : inst[q].pc = "idle" BY <1>1
<1>5. CASE \E x \in {"installed", "error"} : inst' = [inst EXCEPT ![p] = Idle(x)]
  <2>1. PICK x \in Results : inst' = [inst EXCEPT ![p] = Idle(x)] BY <1>5 DEF Results
  <2> QED BY <1>1, <1>2, <1>3, <1>4, <2>1, EndKeeps
<1>6. CASE inst' = [inst EXCEPT ![p] = [Idle("none") EXCEPT !.pc = "clear"]]
  <2> DEFINE r == [Idle("none") EXCEPT !.pc = "clear"]
  <2>1. 1 \in 1..(Files + 1) BY Constants
  <2>2. r \in Installer /\ r.pc = "clear" /\ r.dir = None /\ r.next = 1
    BY <2>1 DEF Idle, Installer, Pcs, Results
  <2> HIDE DEF r
  <2>3. Only(p) /\ inst'[p] = r BY <1>6, <2>2, Updated DEF IInv, StateType, r
  <2>4. Holds(p)' BY <2>2, <2>3 DEF Holds, Removing
  <2>5. InstallProgress(p, inst[p])' BY <2>2, <2>3 DEF InstallProgress
  <2> QED BY <1>1, <1>2, <1>3, <1>4, <2>3, <2>4, <2>5, MoveKeeps
<1> QED BY <1>5, <1>6 DEF Begin, Return, Raise

\* A step of a running installer that changes its record alone.
LEMMA RunningKeeps ==
  ASSUME IInv, NEW p \in Installers, inst[p].pc # "idle", Only(p),
         UNCHANGED <<content, staging, target, runs, stops, overlapped>>,
         inst[p].dir = None \/ inst[p].pc # "extract",
         Holds(p)', ~overlapped => InstallProgress(p, inst[p])'
  PROVE  IInv'
<1>1. runs' \in 0..MaxRuns /\ stops' \in 0..MaxStops /\ overlapped' \in BOOLEAN
  BY DEF IInv, StateType
<1>2. ~overlapped' => \A q \in Installers : q # p => inst[q].pc = "idle" BY Alone
<1> QED BY <1>1, <1>2, MoveKeeps

\* An install raises or returns.
LEMMA RaiseKeeps ==
  ASSUME IInv, NEW p \in Installers, inst[p].pc # "idle", Raise(p) \/ Return(p),
         UNCHANGED <<content, staging, target, runs, stops, overlapped>>,
         inst[p].dir = None \/ inst[p].pc # "extract"
  PROVE  IInv'
<1>1. PICK x \in Results : inst' = [inst EXCEPT ![p] = Idle(x)]
  BY DEF Raise, Return, Results
<1>2. runs' \in 0..MaxRuns /\ stops' \in 0..MaxStops /\ overlapped' \in BOOLEAN
  BY DEF IInv, StateType
<1>3. ~overlapped' => \A q \in Installers : q # p => inst[q].pc = "idle" BY Alone
<1> QED BY <1>1, <1>2, <1>3, EndKeeps

\* An install goes on to its next step with what it holds.
LEMMA GotoUpdates ==
  ASSUME IInv, NEW p \in Installers, NEW pc \in Pcs, Goto(p, pc)
  PROVE  /\ Only(p) /\ inst'[p].pc = pc
         /\ inst'[p].dir = inst[p].dir /\ inst'[p].next = inst[p].next
<1>1. inst[p] \in Installer BY DEF IInv, StateType
<1> DEFINE r == [inst[p] EXCEPT !.pc = pc]
<1>2. r \in Installer /\ r.pc = pc /\ r.dir = inst[p].dir /\ r.next = inst[p].next
  BY <1>1 DEF Installer
<1>3. inst' = [inst EXCEPT ![p] = r] BY DEF Goto
<1> HIDE DEF r
<1> QED BY <1>2, <1>3, Updated DEF IInv, StateType

\* rmtree lists the directory it will empty.
LEMMA ListUpdates ==
  ASSUME IInv, NEW p \in Installers, NEW dir \in Inodes, NEW found \in Pcs, NEW absent,
         List(p, dir, found, absent)
  PROVE  /\ Only(p) /\ inst'[p].pc = found
         /\ inst'[p].dir = dir /\ inst'[p].next = inst[p].next
<1>1. inst[p] \in Installer BY DEF IInv, StateType
<1> DEFINE r == [inst[p] EXCEPT !.pc = found, !.dir = dir, !.todo = Present(dir)]
<1>2. Present(dir) \subseteq 1..Files BY DEF Present
<1>3. r \in Installer /\ r.pc = found /\ r.dir = dir /\ r.next = inst[p].next
  BY <1>1, <1>2 DEF Installer
<1>4. dir # None BY Constants
<1>5. inst' = [inst EXCEPT ![p] = r] BY <1>4 DEF List
<1> HIDE DEF r
<1> QED BY <1>3, <1>5, Updated DEF IInv, StateType

\* install removes what an earlier install staged.
LEMMA ClearKeeps ==
  ASSUME IInv, NEW p \in Installers, Clear(p) PROVE IInv'
<1>1. /\ inst[p].pc = "clear" /\ List(p, staging, "clearing", "mkdir")
      /\ UNCHANGED <<content, staging, target, runs, stops, overlapped>>
  BY DEF Clear
<1>2. inst[p].dir = None /\ (~overlapped => inst[p].next = 1)
  BY <1>1 DEF IInv, HoldInv, Removing, AloneInv, InstallProgress
<1>3. CASE staging = None
  <2>1. Goto(p, "mkdir") BY <1>1, <1>3 DEF List
  <2>2. /\ Only(p) /\ inst'[p].pc = "mkdir"
        /\ inst'[p].dir = inst[p].dir /\ inst'[p].next = inst[p].next
    BY <2>1, GotoUpdates DEF Pcs
  <2>3. Holds(p)' BY <1>2, <2>2 DEF Holds, Removing
  <2>4. ~overlapped => InstallProgress(p, inst[p])' BY <1>2, <2>2 DEF InstallProgress
  <2> QED BY <1>1, <1>2, <2>2, <2>3, <2>4, RunningKeeps
<1>4. CASE staging # None
  <2>1. staging \in Inodes BY <1>4 DEF IInv, StateType
  <2>2. /\ Only(p) /\ inst'[p].pc = "clearing"
        /\ inst'[p].dir = staging /\ inst'[p].next = inst[p].next
    BY <1>1, <2>1, ListUpdates DEF Pcs
  <2>3. Holds(p)' BY <1>4, <2>2 DEF Holds, Removing
  <2>4. ~overlapped => InstallProgress(p, inst[p])' BY <1>1, <1>2, <2>2 DEF InstallProgress
  <2> QED BY <1>1, <1>2, <2>2, <2>3, <2>4, RunningKeeps
<1> QED BY <1>3, <1>4

\* install removes the target's old directory.
LEMMA ReplaceKeeps ==
  ASSUME IInv, NEW p \in Installers, Replace(p) PROVE IInv'
<1>1. /\ inst[p].pc = "replace" /\ List(p, target, "replacing", "rename")
      /\ UNCHANGED <<content, staging, target, runs, stops, overlapped>>
  BY DEF Replace
<1>2. inst[p].dir = None /\ (~overlapped => staging # None /\ Whole(staging))
  BY <1>1 DEF IInv, HoldInv, Removing, AloneInv, InstallProgress
<1>3. Whole(staging)' <=> Whole(staging) BY <1>1 DEF Whole
<1>4. CASE target = None
  <2>1. Goto(p, "rename") BY <1>1, <1>4 DEF List
  <2>2. /\ Only(p) /\ inst'[p].pc = "rename"
        /\ inst'[p].dir = inst[p].dir /\ inst'[p].next = inst[p].next
    BY <2>1, GotoUpdates DEF Pcs
  <2>3. Holds(p)' BY <1>2, <2>2 DEF Holds, Removing
  <2>4. ~overlapped => InstallProgress(p, inst[p])' BY <1>1, <1>2, <1>3, <2>2 DEF InstallProgress
  <2> QED BY <1>1, <1>2, <2>2, <2>3, <2>4, RunningKeeps
<1>5. CASE target # None
  <2>1. target \in Inodes BY <1>5 DEF IInv, StateType
  <2>2. /\ Only(p) /\ inst'[p].pc = "replacing"
        /\ inst'[p].dir = target /\ inst'[p].next = inst[p].next
    BY <1>1, <2>1, ListUpdates DEF Pcs
  <2>3. Holds(p)' BY <1>5, <2>2 DEF Holds, Removing
  <2>4. ~overlapped => InstallProgress(p, inst[p])' BY <1>1, <1>2, <1>3, <2>2 DEF InstallProgress
  <2> QED BY <1>1, <1>2, <2>2, <2>3, <2>4, RunningKeeps
<1> QED BY <1>4, <1>5

\* The finally clause removes the staging directory.
LEMMA CleanupKeeps ==
  ASSUME IInv, NEW p \in Installers, Cleanup(p) PROVE IInv'
<1>1. /\ inst[p].pc = "cleanup" /\ List(p, staging, "cleaning", "validate")
      /\ UNCHANGED <<content, staging, target, runs, stops, overlapped>>
  BY DEF Cleanup
<1>2. inst[p].dir = None BY <1>1 DEF IInv, HoldInv, Removing
<1>3. CASE staging = None
  <2>1. Goto(p, "validate") BY <1>1, <1>3 DEF List
  <2>2. Only(p) /\ inst'[p].pc = "validate" /\ inst'[p].dir = inst[p].dir
    BY <2>1, GotoUpdates DEF Pcs
  <2>3. Holds(p)' BY <1>2, <2>2 DEF Holds, Removing
  <2>4. InstallProgress(p, inst[p])' BY <2>2 DEF InstallProgress
  <2> QED BY <1>1, <1>2, <2>2, <2>3, <2>4, RunningKeeps
<1>4. CASE staging # None
  <2>1. staging \in Inodes BY <1>4 DEF IInv, StateType
  <2>2. Only(p) /\ inst'[p].pc = "cleaning" /\ inst'[p].dir = staging
    BY <1>1, <2>1, ListUpdates DEF Pcs
  <2>3. Holds(p)' BY <1>4, <2>2 DEF Holds, Removing
  <2>4. InstallProgress(p, inst[p])' BY <1>1, <2>2 DEF InstallProgress
  <2> QED BY <1>1, <1>2, <2>2, <2>3, <2>4, RunningKeeps
<1> QED BY <1>3, <1>4

\* The extracted tree is searched for the model's root.
LEMMA FindRootKeeps ==
  ASSUME IInv, NEW p \in Installers, _find_model_root(p) PROVE IInv'
<1>1. /\ inst[p].pc = "extract" /\ inst[p].next > Files
      /\ Goto(p, "replace") \/ Raise(p)
      /\ UNCHANGED <<content, staging, target, runs, stops, overlapped>>
  BY DEF _find_model_root
<1>2. inst[p].next \in Nat BY Constants DEF IInv, StateType, Installer
<1>3. inst[p].dir = None BY <1>1, <1>2, Constants DEF IInv, HoldInv
<1>4. CASE Raise(p) BY <1>1, <1>3, <1>4, RaiseKeeps
<1>5. CASE Goto(p, "replace")
  <2>1. Only(p) /\ inst'[p].pc = "replace" /\ inst'[p].dir = inst[p].dir
    BY <1>5, GotoUpdates DEF Pcs
  <2>2. Holds(p)' BY <1>3, <2>1 DEF Holds, Removing
  <2>3. ~overlapped => InstallProgress(p, inst[p])'
    <3>1. \A f \in 1..Files : f < inst[p].next BY <1>1, <1>2, Constants
    <3>2. ~overlapped => staging # None /\ Whole(staging)
      BY <1>1, <3>1 DEF IInv, AloneInv, InstallProgress, Whole
    <3> QED BY <1>1, <2>1, <3>2 DEF InstallProgress, Whole
  <2> QED BY <1>1, <1>3, <2>1, <2>2, <2>3, RunningKeeps
<1> QED BY <1>1, <1>4, <1>5

\* validate_model_dir accepts the target or raises.
LEMMA ValidateKeeps ==
  ASSUME IInv, NEW p \in Installers, Validate(p) PROVE IInv'
BY RaiseKeeps DEF Validate

------------------------------------------------------------------------------
(* The steps that change a directory or a path *)

\* rmtree unlinks one file, possibly one that another install has open.
LEMMA RemoveFileKeeps ==
  ASSUME IInv, NEW p \in Installers, NEW f \in 1..Files, RemoveFile(p, f) PROVE IInv'
<1> DEFINE d == inst[p].dir
<1>1. /\ inst[p].pc \in Removing
      /\ content' = [content EXCEPT ![d][f] = "absent"]
      /\ inst' = [inst EXCEPT ![p].todo = @ \ {f}]
      /\ UNCHANGED <<staging, target, runs, stops, overlapped>>
  BY DEF RemoveFile
<1>2. inst[p] \in Installer /\ inst \in [Installers -> Installer] BY DEF IInv, StateType
<1>3. d # None BY <1>1 DEF IInv, HoldInv
<1>4. d \in Inodes BY <1>2, <1>3 DEF Installer
<1> HIDE DEF d
<1>5. /\ Only(p) /\ inst'[p].pc = inst[p].pc /\ inst'[p].dir = d
      /\ inst'[p].next = inst[p].next
  BY <1>1, <1>2 DEF Only, Installer, d
<1>6. /\ content' \in [Inodes -> [1..Files -> States]]
      /\ \A i \in Inodes, g \in 1..Files :
           content'[i][g] = IF i = d /\ g = f THEN "absent" ELSE content[i][g]
  BY <1>1, <1>4 DEF IInv, StateType, States
<1>7. StateType' BY <1>1, <1>5, <1>6 DEF IInv, StateType, Only
<1>8. HoldInv' BY <1>1, <1>5 DEF IInv, HoldInv, Only, d
<1>9. WriterInv'
  <2>1. ASSUME NEW i \in Inodes, NEW g \in 1..Files, NEW q \in Installers, content'[i][g] = q
        PROVE  inst'[q].pc = "extract" /\ inst'[q].dir = i /\ inst'[q].next = g
    <3>1. content[i][g] = q BY <1>6, <2>1, Constants
    <3>2. inst[q].pc = "extract" /\ inst[q].dir = i /\ inst[q].next = g
      BY <3>1 DEF IInv, WriterInv
    <3>3. q # p BY <1>1, <3>2 DEF Removing
    <3> QED BY <1>5, <3>2, <3>3 DEF Only
  <2>2. stops' = 0 => \A i \in Inodes, g \in 1..Files : content'[i][g] # "torn"
    BY <1>1, <1>6 DEF IInv, WriterInv
  <2> QED BY <2>1, <2>2 DEF WriterInv
<1>10. AloneInv'
  <2> SUFFICES ASSUME ~overlapped' PROVE AloneInv' BY DEF AloneInv
  <2>1. ~overlapped /\ InstallProgress(p, inst[p]) BY <1>1 DEF IInv, AloneInv
  <2>2. \A q \in Installers : q # p => inst'[q].pc = "idle"
    BY <1>1, <1>5, <2>1, Alone DEF Only, Removing
  <2>3. target # None => \A g \in 1..Files : content'[target][g] \in {"absent", "whole"}
    BY <1>6, <2>1 DEF IInv, AloneInv, StateType
  <2>4. InstallProgress(p, inst[p])'
    <3>1. CASE inst[p].pc = "replacing"
      <4>1. staging # None /\ Whole(staging) /\ d = target BY <2>1, <3>1 DEF InstallProgress, d
      <4>2. staging \in Inodes /\ staging # d BY <4>1 DEF IInv, StateType, HoldInv
      <4>3. Whole(staging)' BY <1>1, <1>6, <4>1, <4>2 DEF Whole
      <4> QED BY <1>1, <1>5, <3>1, <4>1, <4>3 DEF InstallProgress
    <3>2. CASE inst[p].pc \in {"clearing", "cleaning"}
      BY <1>1, <1>5, <2>1, <3>2 DEF InstallProgress, d
    <3> QED BY <1>1, <3>1, <3>2 DEF Removing
  <2>5. \A q \in Installers : InstallProgress(q, inst[q])'
    <3> TAKE q \in Installers
    <3>1. CASE q = p BY <2>4, <3>1
    <3>2. CASE q # p BY <2>2, <3>2 DEF InstallProgress
    <3> QED BY <3>1, <3>2
  <2> QED BY <1>1, <2>2, <2>3, <2>5 DEF AloneInv
<1> QED BY <1>7, <1>8, <1>9, <1>10 DEF IInv

\* Steps of p that change a path and no file, and leave p without a directory.
LEMMA PathKeeps ==
  ASSUME IInv, NEW p \in Installers, inst[p].pc \notin {"idle", "extract"}, Only(p),
         inst'[p].dir = None, inst'[p].pc \notin Removing,
         UNCHANGED <<content, runs, stops, overlapped>>,
         staging' \in {staging, None}, target' \in {staging, target, None},
         staging' # None => staging' # target',
         ~overlapped => /\ target' = staging /\ staging # None => Whole(staging)
                        /\ InstallProgress(p, inst[p])'
  PROVE  IInv'
<1>1. StateType' BY DEF IInv, StateType, Only
<1>2. HoldInv' BY DEF IInv, HoldInv, Only
<1>3. WriterInv'
  <2>1. ASSUME NEW i \in Inodes, NEW g \in 1..Files, NEW q \in Installers, content[i][g] = q
        PROVE  inst'[q].pc = "extract" /\ inst'[q].dir = i /\ inst'[q].next = g
    <3>1. inst[q].pc = "extract" /\ inst[q].dir = i /\ inst[q].next = g
      BY <2>1 DEF IInv, WriterInv
    <3> QED BY <3>1 DEF Only
  <2> QED BY <2>1 DEF IInv, WriterInv
<1>4. AloneInv'
  <2> SUFFICES ASSUME ~overlapped' PROVE AloneInv' BY DEF AloneInv
  <2>1. \A q \in Installers : q # p => inst'[q].pc = "idle" BY Alone DEF Only
  <2>2. target' # None => \A g \in 1..Files : content[target'][g] \in {"absent", "whole"}
    BY DEF IInv, AloneInv, Whole
  <2>3. \A q \in Installers : InstallProgress(q, inst[q])'
    <3> TAKE q \in Installers
    <3>1. CASE q = p BY <3>1
    <3>2. CASE q # p BY <2>1, <3>2 DEF InstallProgress
    <3> QED BY <3>1, <3>2
  <2> QED BY <2>1, <2>2, <2>3 DEF AloneInv
<1> QED BY <1>1, <1>2, <1>3, <1>4 DEF IInv

\* rmtree removes the directory: its inode's path leads nowhere.
LEMMA RemoveDirKeeps ==
  ASSUME IInv, NEW p \in Installers, RemoveDir(p) PROVE IInv'
<1> DEFINE after == [clearing |-> "mkdir", replacing |-> "rename",
                     cleaning |-> "validate"][inst[p].pc]
<1>1. /\ inst[p].pc \in Removing /\ UNCHANGED <<content, runs, stops, overlapped>>
  BY DEF RemoveDir
<1>2. inst[p] \in Installer /\ inst \in [Installers -> Installer] BY DEF IInv, StateType
<1>3. CASE Raise(p) /\ UNCHANGED <<staging, target>>
  BY <1>1, <1>3, RaiseKeeps DEF Removing
<1>4. CASE /\ IF inst[p].pc = "replacing"
              THEN target' = None /\ UNCHANGED staging
              ELSE staging' = None /\ UNCHANGED target
           /\ inst' = [inst EXCEPT ![p].pc = after, ![p].dir = None]
  <2>1. \/ inst[p].pc = "clearing" /\ after = "mkdir"
        \/ inst[p].pc = "replacing" /\ after = "rename"
        \/ inst[p].pc = "cleaning" /\ after = "validate"
    BY <1>1 DEF Removing
  <2> HIDE DEF after
  <2>2. after \in Pcs BY <2>1 DEF Pcs
  <2> DEFINE r == [inst[p] EXCEPT !.pc = after, !.dir = None]
  <2>3. r \in Installer /\ r.pc = after /\ r.dir = None /\ r.next = inst[p].next
    BY <1>2, <2>2 DEF Installer
  <2>4. inst' = [inst EXCEPT ![p] = r] BY <1>4
  <2> HIDE DEF r
  <2>5. Only(p) /\ inst'[p].pc = after /\ inst'[p].dir = None /\ inst'[p].next = inst[p].next
    BY <1>2, <2>3, <2>4, Updated
  <2>6. staging' # None => staging' # target' BY <1>4 DEF IInv, HoldInv
  <2>7. target' = staging /\ staging # None => FALSE
    BY <1>4 DEF IInv, HoldInv
  <2>8. ~overlapped => InstallProgress(p, inst[p])'
    <3> SUFFICES ASSUME ~overlapped PROVE InstallProgress(p, inst[p])' OBVIOUS
    <3>1. InstallProgress(p, inst[p]) BY DEF IInv, AloneInv
    <3>2. CASE after = "mkdir" BY <2>1, <2>5, <3>1, <3>2 DEF InstallProgress
    <3>3. CASE after = "rename"
      <4>1. staging' = staging /\ staging # None /\ Whole(staging)
        BY <1>4, <2>1, <3>1, <3>3 DEF InstallProgress
      <4>2. Whole(staging)' BY <1>1, <4>1 DEF Whole
      <4> QED BY <2>5, <3>3, <4>1, <4>2 DEF InstallProgress
    <3>4. CASE after = "validate" BY <2>5, <3>4 DEF InstallProgress
    <3> QED BY <2>1, <3>2, <3>3, <3>4
  <2>9. inst[p].pc \notin {"idle", "extract"} /\ inst'[p].pc \notin Removing
    BY <2>1, <2>5 DEF Removing
  <2>10. staging' \in {staging, None} /\ target' \in {staging, target, None} BY <1>4
  <2> QED BY <1>1, <2>5, <2>6, <2>7, <2>8, <2>9, <2>10, PathKeeps
<1> QED BY <1>3, <1>4 DEF RemoveDir

\* The staged tree is moved to the target path.
LEMMA RenameKeeps ==
  ASSUME IInv, NEW p \in Installers, Rename(p) PROVE IInv'
<1>1. inst[p].pc = "rename" /\ UNCHANGED <<content, runs, stops, overlapped>> BY DEF Rename
<1>2. inst[p].dir = None BY <1>1 DEF IInv, HoldInv, Removing
<1>3. CASE Raise(p) /\ UNCHANGED <<staging, target>>
  BY <1>1, <1>3, RaiseKeeps
<1>4. CASE target' = staging /\ staging' = None /\ Goto(p, "cleanup")
  <2>1. Only(p) /\ inst'[p].pc = "cleanup" /\ inst'[p].dir = None
    BY <1>2, <1>4, GotoUpdates DEF Pcs
  <2>2. ~overlapped => Whole(staging) BY <1>1 DEF IInv, AloneInv, InstallProgress
  <2>3. InstallProgress(p, inst[p])' BY <2>1 DEF InstallProgress
  <2> QED BY <1>1, <1>4, <2>1, <2>2, <2>3, PathKeeps DEF Removing
<1> QED BY <1>3, <1>4 DEF Rename

\* Steps of p that change files of one directory d.
LEMMA FilesKeep ==
  ASSUME IInv, NEW p \in Installers, NEW d \in Inodes, inst[p].pc # "idle", Only(p), Holds(p)',
         content' \in [Inodes -> [1..Files -> States]],
         \A i \in Inodes : i # d => content'[i] = content[i],
         \A f \in 1..Files :
           \/ content'[d][f] \in {"absent", "torn", "whole"}
           \/ content'[d][f] = content[d][f] /\ content[d][f] # p
           \/ /\ content'[d][f] = p
              /\ inst'[p].pc = "extract" /\ inst'[p].dir = d /\ inst'[p].next = f,
         inst[p].pc = "extract" /\ inst[p].dir # None => inst[p].dir = d,
         UNCHANGED <<target, runs, overlapped>>, stops' \in 0..MaxStops,
         stops' = 0 =>
           stops = 0 /\ \A f \in 1..Files : content'[d][f] = "torn" => content[d][f] = "torn",
         staging' \in Inodes \cup {None}, staging' # None => staging' # target,
         ~overlapped => d # target /\ InstallProgress(p, inst[p])'
  PROVE  IInv'
<1>1. StateType' BY DEF IInv, StateType, Only
<1>2. HoldInv' BY DEF IInv, HoldInv, Holds, Only
<1>3. WriterInv'
  <2>1. ASSUME NEW i \in Inodes, NEW f \in 1..Files, NEW q \in Installers, content'[i][f] = q
        PROVE  inst'[q].pc = "extract" /\ inst'[q].dir = i /\ inst'[q].next = f
    <3>1. CASE i = d /\ content'[d][f] = p
      BY <2>1, <3>1, Constants DEF IInv, WriterInv
    <3>2. CASE i = d /\ content'[d][f] = content[d][f] /\ content[d][f] # p
      <4>1. inst[q].pc = "extract" /\ inst[q].dir = i /\ inst[q].next = f
        BY <2>1, <3>2 DEF IInv, WriterInv
      <4> QED BY <2>1, <3>2, <4>1 DEF Only
    <3>3. CASE i # d
      <4>1. content[i][f] = q BY <2>1, <3>3
      <4>2. inst[q].pc = "extract" /\ inst[q].dir = i /\ inst[q].next = f
        BY <4>1 DEF IInv, WriterInv
      <4>3. q # p BY <3>3, <4>2, Constants
      <4> QED BY <4>2, <4>3 DEF Only
    <3>4. i = d => content'[d][f] \notin {"absent", "torn", "whole"} BY <2>1, Constants
    <3> QED BY <3>1, <3>2, <3>3, <3>4
  <2>2. stops' = 0 => \A i \in Inodes, f \in 1..Files : content'[i][f] # "torn"
    BY DEF IInv, WriterInv
  <2> QED BY <2>1, <2>2 DEF WriterInv
<1>4. AloneInv'
  <2> SUFFICES ASSUME ~overlapped' PROVE AloneInv' BY DEF AloneInv
  <2>1. \A q \in Installers : q # p => inst'[q].pc = "idle" BY Alone DEF Only
  <2>2. target # None => \A g \in 1..Files : content'[target][g] \in {"absent", "whole"}
    BY DEF IInv, AloneInv, StateType
  <2>3. \A q \in Installers : InstallProgress(q, inst[q])'
    <3> TAKE q \in Installers
    <3>1. CASE q = p BY <3>1
    <3>2. CASE q # p BY <2>1, <3>2 DEF InstallProgress
    <3> QED BY <3>1, <3>2
  <2> QED BY <2>1, <2>2, <2>3 DEF AloneInv
<1> QED BY <1>1, <1>2, <1>3, <1>4 DEF IInv

\* The staging directory is made: an unused inode gets the path.
LEMMA MkdirKeeps ==
  ASSUME IInv, NEW p \in Installers, Mkdir(p) PROVE IInv'
<1>1. inst[p].pc = "mkdir" /\ UNCHANGED <<target, runs, stops, overlapped>> BY DEF Mkdir
<1>2. inst[p].dir = None BY <1>1 DEF IInv, HoldInv, Removing
<1>3. CASE Raise(p) /\ UNCHANGED <<content, staging>> BY <1>1, <1>3, RaiseKeeps
<1>4. CASE Goto(p, "extract") /\ \E i \in Inodes : Unused(i) /\ Create(i)
  <2>1. PICK i \in Inodes : Unused(i) /\ Create(i) BY <1>4
  <2>2. staging' = i /\ i # target /\ i # None BY <2>1, Constants DEF Unused, Create
  <2>3. /\ content' \in [Inodes -> [1..Files -> States]]
        /\ content'[i] = Empty
        /\ \A j \in Inodes : j # i => content'[j] = content[j]
    BY <2>1, Constants DEF Create, IInv, StateType
  <2>4. /\ Only(p) /\ inst'[p].pc = "extract"
        /\ inst'[p].dir = inst[p].dir /\ inst'[p].next = inst[p].next
    BY <1>4, GotoUpdates DEF Pcs
  <2>5. Holds(p)' BY <1>2, <2>4 DEF Holds, Removing
  <2>6. ~overlapped => InstallProgress(p, inst[p])'
    <3> SUFFICES ASSUME ~overlapped PROVE InstallProgress(p, inst[p])' OBVIOUS
    <3>1. inst[p].next = 1 BY <1>1 DEF IInv, AloneInv, InstallProgress
    <3>2. \A f \in 1..Files : ~(f < 1) BY Constants
    <3> QED BY <1>2, <2>2, <2>4, <3>1, <3>2 DEF InstallProgress
  <2>7. \A f \in 1..Files : content'[i][f] = "absent" BY <2>3, Constants
  <2>8. stops' \in 0..MaxStops BY <1>1 DEF IInv, StateType
  <2> QED BY <1>1, <2>2, <2>3, <2>4, <2>5, <2>6, <2>7, <2>8, FilesKeep
<1> QED BY <1>3, <1>4 DEF Mkdir

\* The archive's next file is opened in the staging directory.
LEMMA OpenFileKeeps ==
  ASSUME IInv, NEW p \in Installers, OpenFile(p) PROVE IInv'
<1> DEFINE n == inst[p].next
           old(i) == IF staging = None THEN Empty ELSE content[i]
<1>1. /\ inst[p].pc = "extract" /\ n <= Files /\ inst[p].dir = None
      /\ UNCHANGED <<target, runs, stops, overlapped>>
  BY DEF OpenFile
<1>2. PICK i \in Inodes :
        /\ staging = None => Unused(i)
        /\ staging # None => i = staging
        /\ staging' = i
        /\ content' = [content EXCEPT ![i] =
                          [(IF staging = None THEN Empty ELSE @) EXCEPT ![n] = p]]
        /\ inst' = [inst EXCEPT ![p].dir = i]
  BY DEF OpenFile
<1>3. inst[p] \in Installer /\ inst \in [Installers -> Installer] BY DEF IInv, StateType
<1>4. n \in 1..Files BY <1>1, <1>3, Constants DEF Installer
<1>5. i # target /\ i # None BY <1>2, Constants DEF Unused, IInv, HoldInv
<1>6. old(i) \in [1..Files -> States] BY Constants DEF IInv, StateType
<1>7. content' = [content EXCEPT ![i] = [old(i) EXCEPT ![n] = p]] BY <1>2 DEF IInv, StateType
<1> HIDE DEF n
<1>8. /\ content' \in [Inodes -> [1..Files -> States]]
      /\ \A j \in Inodes : j # i => content'[j] = content[j]
      /\ \A f \in 1..Files : content'[i][f] = IF f = n THEN p ELSE old(i)[f]
  <2>1. p \in States BY DEF States
  <2> HIDE DEF old
  <2> QED BY <1>4, <1>6, <1>7, <2>1 DEF IInv, StateType
<1>9. /\ Only(p) /\ inst'[p].pc = "extract" /\ inst'[p].dir = i /\ inst'[p].next = n
  <2> DEFINE r == [inst[p] EXCEPT !.dir = i]
  <2>1. r \in Installer /\ r.pc = inst[p].pc /\ r.dir = i /\ r.next = n
    BY <1>3 DEF Installer, n
  <2>2. inst' = [inst EXCEPT ![p] = r] BY <1>2
  <2> HIDE DEF r
  <2> QED BY <1>1, <1>3, <2>1, <2>2, Updated
<1>10. Holds(p)' BY <1>4, <1>9, Constants DEF Holds, Removing
<1>11. ASSUME NEW f \in 1..Files
       PROVE  \/ content'[i][f] \in {"absent", "torn", "whole"}
              \/ content'[i][f] = content[i][f] /\ content[i][f] # p
              \/ /\ content'[i][f] = p
                 /\ inst'[p].pc = "extract" /\ inst'[p].dir = i /\ inst'[p].next = f
  <2>1. CASE f = n BY <1>8, <1>9, <2>1
  <2>2. CASE f # n /\ staging = None BY <1>8, <2>2, Constants
  <2>3. CASE f # n /\ staging # None
    <3>1. content'[i][f] = content[i][f] BY <1>8, <2>3
    <3>2. content[i][f] # p BY <1>1, <1>5 DEF IInv, WriterInv
    <3> QED BY <3>1, <3>2
  <2> QED BY <2>1, <2>2, <2>3
<1>12. ~overlapped => InstallProgress(p, inst[p])'
  <2> SUFFICES ASSUME ~overlapped PROVE InstallProgress(p, inst[p])' OBVIOUS
  <2>1. /\ staging # None
        /\ \A f \in 1..Files : f < n => content[staging][f] = "whole"
    BY <1>1 DEF IInv, AloneInv, InstallProgress, n
  <2>2. \A f \in 1..Files : f < n => content'[i][f] = "whole"
    BY <1>2, <1>4, <1>8, <2>1, Constants
  <2>3. content'[i][n] = p BY <1>4, <1>8
  <2> QED BY <1>2, <1>5, <1>9, <2>2, <2>3 DEF InstallProgress
<1>13. stops' = 0 =>
         stops = 0 /\ \A f \in 1..Files : content'[i][f] = "torn" => content[i][f] = "torn"
  BY <1>1, <1>8, Constants
<1>14. stops' \in 0..MaxStops BY <1>1 DEF IInv, StateType
<1> HIDE DEF old
<1> QED BY <1>1, <1>2, <1>5, <1>8, <1>9, <1>10, <1>11, <1>12, <1>13, <1>14, FilesKeep

\* The open file of a directory gets its last state: nobody writes it any more.
LEMMA EndFile ==
  ASSUME IInv, NEW p \in Installers, NEW x \in {"whole", "torn"},
         inst[p].pc = "extract", inst[p].dir # None,
         content' = [content EXCEPT ![inst[p].dir][inst[p].next] = IF @ = p THEN x ELSE @]
  PROVE  /\ inst[p].dir \in Inodes /\ inst[p].next \in 1..Files
         /\ content' \in [Inodes -> [1..Files -> States]]
         /\ \A i \in Inodes : i # inst[p].dir => content'[i] = content[i]
         /\ \A f \in 1..Files :
              content'[inst[p].dir][f] = IF content[inst[p].dir][f] = p THEN x
                                         ELSE content[inst[p].dir][f]
<1> DEFINE d == inst[p].dir
           n == inst[p].next
<1>1. inst[p] \in Installer BY DEF IInv, StateType
<1>2. d \in Inodes /\ n \in 1..Files
  BY <1>1, Constants DEF Installer, IInv, HoldInv
<1>3. \A f \in 1..Files : content[d][f] = p => f = n BY <1>2 DEF IInv, WriterInv
<1> HIDE DEF d, n
<1> DEFINE v == IF content[d][n] = p THEN x ELSE content[d][n]
<1>4. content' = [content EXCEPT ![d][n] = v]
  BY <1>2 DEF d, n, IInv, StateType
<1>5. v \in States BY <1>2 DEF IInv, StateType, States
<1> HIDE DEF v
<1>6. content \in [Inodes -> [1..Files -> States]] BY DEF IInv, StateType
<1>7. /\ content' \in [Inodes -> [1..Files -> States]]
      /\ \A i \in Inodes : i # d => content'[i] = content[i]
      /\ \A f \in 1..Files : content'[d][f] = IF f = n THEN v ELSE content[d][f]
  <2> DEFINE row == [content[d] EXCEPT ![n] = v]
  <2>1. content[d] \in [1..Files -> States] BY <1>2, <1>6
  <2>2. row \in [1..Files -> States] /\ \A f \in 1..Files : row[f] = IF f = n THEN v ELSE content[d][f]
    BY <1>2, <1>5, <2>1
  <2>3. content' = [content EXCEPT ![d] = row] BY <1>4
  <2> HIDE DEF row
  <2> QED BY <1>2, <1>6, <2>2, <2>3
<1> QED BY <1>2, <1>3, <1>7 DEF d, n, v

\* A file's last byte is written, unless another install opened it anew.
LEMMA CloseFileKeeps ==
  ASSUME IInv, NEW p \in Installers, CloseFile(p) PROVE IInv'
<1> DEFINE d == inst[p].dir
           n == inst[p].next
<1>1. /\ inst[p].pc = "extract" /\ d # None
      /\ content' = [content EXCEPT ![d][n] = IF @ = p THEN "whole" ELSE @]
      /\ inst' = [inst EXCEPT ![p].dir = None, ![p].next = @ + 1]
      /\ UNCHANGED <<staging, target, runs, stops, overlapped>>
  BY DEF CloseFile, Written
<1>2. inst[p] \in Installer /\ inst \in [Installers -> Installer] BY DEF IInv, StateType
<1>3. /\ d \in Inodes /\ n \in 1..Files
      /\ content' \in [Inodes -> [1..Files -> States]]
      /\ \A i \in Inodes : i # d => content'[i] = content[i]
      /\ \A f \in 1..Files : content'[d][f] = IF content[d][f] = p THEN "whole" ELSE content[d][f]
  BY <1>1, EndFile
<1>4. Only(p) /\ inst'[p].pc = "extract" /\ inst'[p].dir = None /\ inst'[p].next = n + 1
  <2> DEFINE r == [inst[p] EXCEPT !.dir = None, !.next = n + 1]
  <2>1. n + 1 \in 1..(Files + 1) BY <1>3, Constants
  <2>2. r \in Installer /\ r.pc = inst[p].pc /\ r.dir = None /\ r.next = n + 1
    BY <1>2, <2>1 DEF Installer
  <2>3. inst' = [inst EXCEPT ![p] = r] BY <1>1, <1>2 DEF Installer
  <2> HIDE DEF r, n, d
  <2> QED BY <1>1, <1>2, <2>2, <2>3, Updated
<1> HIDE DEF d, n
<1>5. Holds(p)' BY <1>4 DEF Holds, Removing
<1>6. ~overlapped => d # target /\ InstallProgress(p, inst[p])'
  <2> SUFFICES ASSUME ~overlapped PROVE d # target /\ InstallProgress(p, inst[p])' OBVIOUS
  <2>1. /\ staging # None /\ d = staging /\ content[staging][n] = p
        /\ \A f \in 1..Files : f < n => content[staging][f] = "whole"
    BY <1>1 DEF IInv, AloneInv, InstallProgress, n, d
  <2>2. \A f \in 1..Files : f < n + 1 => f < n \/ f = n BY <1>3, Constants
  <2>3. \A f \in 1..Files : f < n + 1 => content'[staging][f] = "whole"
    BY <1>3, <2>1, <2>2
  <2> QED BY <1>1, <1>4, <2>1, <2>3 DEF InstallProgress, IInv, HoldInv
<1>7. stops' \in 0..MaxStops /\ staging' \in Inodes \cup {None} BY <1>1 DEF IInv, StateType
<1>8. staging' # None => staging' # target BY <1>1 DEF IInv, HoldInv
<1>9. \A f \in 1..Files : \/ content'[d][f] \in {"absent", "torn", "whole"}
                          \/ content'[d][f] = content[d][f] /\ content[d][f] # p
  BY <1>3
<1>10. \A f \in 1..Files : content'[d][f] = "torn" => content[d][f] = "torn" BY <1>3
<1> QED BY <1>1, <1>3, <1>4, <1>5, <1>6, <1>7, <1>8, <1>9, <1>10, FilesKeep DEF d

\* An install is stopped anywhere, and the file it had open is left torn.
LEMMA StopKeeps ==
  ASSUME IInv, NEW p \in Installers, Stop(p) PROVE IInv'
<1>1. /\ inst[p].pc # "idle" /\ stops < MaxStops /\ stops' = stops + 1
      /\ inst' = [inst EXCEPT ![p] = Idle("stopped")]
      /\ UNCHANGED <<staging, target, runs, overlapped>>
  BY DEF Stop
<1>2. stops' \in 0..MaxStops /\ stops' # 0
  BY <1>1, AssetsAssumption DEF IInv, StateType, AssetsAssumption
<1>3. runs' \in 0..MaxRuns /\ overlapped' \in BOOLEAN BY <1>1 DEF IInv, StateType
<1>4. CASE inst[p].pc = "extract" /\ inst[p].dir # None
  <2> DEFINE d == inst[p].dir
  <2>1. content' = [content EXCEPT ![d][inst[p].next] = IF @ = p THEN "torn" ELSE @]
    BY <1>4 DEF Stop
  <2>2. /\ d \in Inodes
        /\ content' \in [Inodes -> [1..Files -> States]]
        /\ \A i \in Inodes : i # d => content'[i] = content[i]
        /\ \A f \in 1..Files : content'[d][f] = IF content[d][f] = p THEN "torn" ELSE content[d][f]
    BY <1>4, <2>1, EndFile
  <2>3. Only(p) /\ inst'[p] = Idle("stopped")
    BY <1>1, IdleInstaller, Updated DEF IInv, StateType, Results
  <2>4. inst'[p].pc = "idle" /\ inst'[p].dir = None BY <2>3, IdleInstaller DEF Results
  <2>5. Holds(p)' BY <2>4 DEF Holds, Removing
  <2>6. InstallProgress(p, inst[p])' BY <2>4 DEF InstallProgress
  <2>7. ~overlapped => d # target
    <3>1. ~overlapped => staging # None /\ d = staging BY <1>4 DEF IInv, AloneInv, InstallProgress
    <3> QED BY <3>1 DEF IInv, HoldInv
  <2>8. staging' \in Inodes \cup {None} /\ (staging' # None => staging' # target)
    BY <1>1 DEF IInv, StateType, HoldInv
  <2>9. \A f \in 1..Files : \/ content'[d][f] \in {"absent", "torn", "whole"}
                            \/ content'[d][f] = content[d][f] /\ content[d][f] # p
    BY <2>2
  <2> HIDE DEF d
  <2> QED BY <1>1, <1>2, <1>4, <2>2, <2>3, <2>5, <2>6, <2>7, <2>8, <2>9, FilesKeep DEF d
<1>5. CASE ~(inst[p].pc = "extract" /\ inst[p].dir # None)
  <2>1. UNCHANGED <<content, staging, target>> BY <1>1, <1>5 DEF Stop
  <2>2. ~overlapped' => \A q \in Installers : q # p => inst[q].pc = "idle" BY <1>1, Alone
  <2> QED BY <1>1, <1>2, <1>3, <1>5, <2>1, <2>2, EndKeeps DEF Results
<1> QED BY <1>4, <1>5

------------------------------------------------------------------------------
\* The invariant holds before any install.
LEMMA InitIInv == Init => IInv
<1> SUFFICES ASSUME Init PROVE IInv OBVIOUS
<1>1. /\ content = [i \in Inodes |-> Empty] /\ staging = None /\ target = None
      /\ inst = [p \in Installers |-> Idle("none")] /\ runs = 0 /\ stops = 0 /\ overlapped = FALSE
  BY DEF Init
<1>2. \A p \in Installers : inst[p] \in Installer /\ inst[p].pc = "idle" /\ inst[p].dir = None
  BY <1>1, IdleInstaller DEF Results
<1>3. FALSE \in BOOLEAN OBVIOUS
<1>4. runs \in 0..MaxRuns /\ stops \in 0..MaxStops BY <1>1, AssetsAssumption DEF AssetsAssumption
<1>5. inst \in [Installers -> Installer] BY <1>1, <1>2
<1>6. \A i \in Inodes : content[i] = Empty BY <1>1
<1>7. content \in [Inodes -> [1..Files -> States]] BY <1>1, Constants
<1>8. StateType BY <1>1, <1>3, <1>4, <1>5, <1>7 DEF StateType
<1>9. HoldInv BY <1>1, <1>2 DEF HoldInv, Removing
<1>10. WriterInv BY <1>6, Constants DEF WriterInv
<1>11. AloneInv BY <1>1, <1>2 DEF AloneInv, InstallProgress
<1> QED BY <1>8, <1>9, <1>10, <1>11 DEF IInv

\* Every step of every installer preserves the invariant.
LEMMA NextIInv == IInv /\ [Next]_vars => IInv'
<1> SUFFICES ASSUME IInv, [Next]_vars PROVE IInv' OBVIOUS
<1>1. CASE UNCHANGED vars
  BY <1>1 DEF vars, IInv, StateType, HoldInv, WriterInv, AloneInv, InstallProgress, Whole
<1>2. ASSUME NEW p \in Installers, NEW force \in BOOLEAN, Begin(p, force) PROVE IInv'
  BY <1>2, BeginKeeps
<1>3. ASSUME NEW p \in Installers, Step(p) PROVE IInv'
  BY <1>3, ClearKeeps, ReplaceKeeps, CleanupKeeps, RemoveFileKeeps, RemoveDirKeeps, MkdirKeeps,
     OpenFileKeeps, CloseFileKeeps, FindRootKeeps, RenameKeeps, ValidateKeeps DEF Step
<1>4. ASSUME NEW p \in Installers, Stop(p) PROVE IInv' BY <1>4, StopKeeps
<1> QED BY <1>1, <1>2, <1>3, <1>4 DEF Next

\* The state keeps its type in every behaviour.
THEOREM TypeCorrect == Spec => []TypeOK
<1>1. IInv => TypeOK
  <2> SUFFICES ASSUME IInv PROVE TypeOK OBVIOUS
  <2>1. \A p \in Installers : /\ inst[p].dir \in Inodes \cup {None}
                              /\ inst[p].todo \subseteq 1..Files
                              /\ inst[p].next \in 1..(Files + 1)
    BY DEF IInv, StateType, Installer
  <2> QED BY <2>1 DEF IInv, StateType, HoldInv, TypeOK, States
<1> QED BY <1>1, InitIInv, NextIInv, PTL DEF Spec

\* A dataset that validate_model_dir accepts is complete whenever no two installs
\* overlapped, wherever they were stopped; and where they did, once none runs, if
\* none was stopped half-way.
THEOREM InstalledIsWhole == Spec => []ValidIsWhole
<1>1. IInv => ValidIsWhole
  <2> SUFFICES ASSUME IInv, validate_model_dir(target), ~overlapped \/ (Quiet /\ stops = 0)
               PROVE  Whole(target)
    BY DEF ValidIsWhole
  <2>1. \A f \in 1..Files : target # None /\ content[target][f] # "absent"
    BY DEF validate_model_dir, Present
  <2>2. target # None BY <2>1, Constants
  <2>3. target \in Inodes BY <2>2 DEF IInv, StateType
  <2>4. CASE ~overlapped BY <2>1, <2>2, <2>4 DEF IInv, AloneInv, Whole
  <2>5. CASE Quiet /\ stops = 0
    <3> SUFFICES ASSUME NEW f \in 1..Files PROVE content[target][f] = "whole" BY DEF Whole
    <3>1. content[target][f] \in States BY <2>3 DEF IInv, StateType
    <3>2. content[target][f] # "torn" BY <2>3, <2>5 DEF IInv, WriterInv
    <3>3. content[target][f] \notin Installers BY <2>3, <2>5 DEF IInv, WriterInv, Quiet
    <3> QED BY <2>1, <3>1, <3>2, <3>3 DEF States
  <2> QED BY <2>4, <2>5
<1> QED BY <1>1, InitIInv, NextIInv, PTL DEF Spec

------------------------------------------------------------------------------
(* The migrations *)

Elements(q) == {q[i] : i \in DOMAIN q}
Increasing(q) == \A i, j \in DOMAIN q : i < j => q[i] < q[j]

\* Whoever migrates holds the lock, so what it read is still what is recorded;
\* its open transaction has executed, in order, files of its release that were
\* not recorded, and everything before those still pending.
MigratingInv ==
  \A s \in Stacks : stage[s] = "migrating" =>
    /\ lock = s
    /\ seen[s] = recorded
    /\ Increasing(newly[s])
    /\ Elements(newly[s]) \subseteq FilesOf[s] \ recorded
    /\ \A f \in Elements(newly[s]), g \in Pending(s) : f < g

\* What is recorded was recorded with all of some release.
ReleaseInv ==
  \A g \in recorded : \E t \in Stacks : g \in FilesOf[t] /\ FilesOf[t] \subseteq recorded

MigrationInv == DeploymentTypeOK /\ MigratingInv /\ ReleaseInv /\ AppliedOnceInOrder

\* Files are natural numbers.
LEMMA FilesNat == Migrations \subseteq Nat
BY DeploymentAssumption DEF DeploymentAssumption, Migrations

\* The elements of a concatenation, and of a sequence with one more element.
LEMMA ConcatElements ==
  ASSUME NEW p \in Seq(Nat), NEW q \in Seq(Nat)
  PROVE  Elements(p \o q) = Elements(p) \cup Elements(q)
<1>1. \A i \in DOMAIN (p \o q) : (p \o q)[i] \in Elements(p) \cup Elements(q)
  <2> TAKE i \in DOMAIN (p \o q)
  <2>1. CASE i <= Len(p) BY <2>1 DEF Elements
  <2>2. CASE i > Len(p)
    <3>1. i - Len(p) \in DOMAIN q /\ (p \o q)[i] = q[i - Len(p)] BY <2>2
    <3>2. QED BY <3>1 DEF Elements
  <2>3. QED BY <2>1, <2>2
<1>2. \A i \in DOMAIN p : i \in DOMAIN (p \o q) /\ (p \o q)[i] = p[i] OBVIOUS
<1>3. \A i \in DOMAIN q : Len(p) + i \in DOMAIN (p \o q) /\ (p \o q)[Len(p) + i] = q[i]
  OBVIOUS
<1>4. Elements(p \o q) \subseteq Elements(p) \cup Elements(q) BY <1>1 DEF Elements
<1>5. Elements(p) \subseteq Elements(p \o q) BY <1>2 DEF Elements
<1>6. Elements(q) \subseteq Elements(p \o q) BY <1>3 DEF Elements
<1>7. QED BY <1>4, <1>5, <1>6

\* Two increasing sequences, the second above the first, concatenate to one.
LEMMA ConcatIncreasing ==
  ASSUME NEW p \in Seq(Nat), NEW q \in Seq(Nat), Increasing(p), Increasing(q),
         \A f \in Elements(p), g \in Elements(q) : f < g
  PROVE  Increasing(p \o q)
<1> SUFFICES ASSUME NEW i \in DOMAIN (p \o q), NEW j \in DOMAIN (p \o q), i < j
             PROVE  (p \o q)[i] < (p \o q)[j]
  BY DEF Increasing
<1>1. CASE j <= Len(p)
  <2>1. i \in DOMAIN p /\ j \in DOMAIN p /\ (p \o q)[i] = p[i] /\ (p \o q)[j] = p[j]
    BY <1>1
  <2>2. QED BY <2>1 DEF Increasing
<1>2. CASE i <= Len(p) /\ j > Len(p)
  <2>1. /\ i \in DOMAIN p /\ (p \o q)[i] = p[i]
        /\ j - Len(p) \in DOMAIN q /\ (p \o q)[j] = q[j - Len(p)]
    BY <1>2
  <2>2. QED BY <2>1 DEF Elements
<1>3. CASE i > Len(p) /\ j > Len(p)
  <2>1. /\ i - Len(p) \in DOMAIN q /\ (p \o q)[i] = q[i - Len(p)]
        /\ j - Len(p) \in DOMAIN q /\ (p \o q)[j] = q[j - Len(p)]
    BY <1>3
  <2>2. QED BY <2>1 DEF Increasing
<1>4. QED BY <1>1, <1>2, <1>3

\* Files of different releases that are not recorded come after all that are.
LEMMA UnrecordedAbove ==
  ASSUME DeploymentAssumption, ReleaseInv, NEW s \in Stacks, NEW f \in FilesOf[s],
         f \notin recorded, NEW g \in recorded
  PROVE  g < f
<1>1. PICK t \in Stacks : g \in FilesOf[t] /\ FilesOf[t] \subseteq recorded BY DEF ReleaseInv
<1>2. f \in Nat /\ g \in Nat BY <1>1 DEF DeploymentAssumption
<1>3. ~(f < g) BY <1>1 DEF DeploymentAssumption
<1>4. f # g OBVIOUS
<1>5. QED BY <1>2, <1>3, <1>4

\* A stack that takes the lock finds no other stack migrating.
LEMMA LockStep ==
  ASSUME MigrationInv, NEW s \in Stacks, LockMigrations(s)
  PROVE  MigrationInv'
<1> USE DEF MigrationInv, DeploymentTypeOK, schema, web, counts, LockMigrations
<1>1. newly'[s] = <<>> /\ seen'[s] = recorded OBVIOUS
<1>2. \A t \in Stacks : t # s => stage'[t] # "migrating"
  BY DeploymentAssumption DEF MigratingInv, DeploymentAssumption
<1>3. MigratingInv' BY <1>1, <1>2 DEF MigratingInv, Increasing, Elements
<1>4. DeploymentTypeOK' OBVIOUS
<1>5. ReleaseInv' /\ AppliedOnceInOrder' BY DEF ReleaseInv, AppliedOnceInOrder
<1>6. QED BY <1>3, <1>4, <1>5

\* The smallest pending file comes after those the transaction executed.
LEMMA ApplyStep ==
  ASSUME MigrationInv, NEW s \in Stacks, ApplyFile(s)
  PROVE  MigrationInv'
<1> USE DEF MigrationInv, DeploymentTypeOK, schema, web, counts
<1>1. PICK f \in Pending(s) : /\ \A g \in Pending(s) : f <= g
                              /\ newly' = [newly EXCEPT ![s] = Append(newly[s], f)]
  BY DEF ApplyFile
<1>2. FilesOf[s] \subseteq Migrations /\ f \in Migrations /\ f \in FilesOf[s] /\ f \in Nat
  BY FilesNat DEF Pending, Migrations
<1>3. newly' \in [Stacks -> Seq(Migrations)] BY <1>1, <1>2
<1>4. DeploymentTypeOK' BY <1>3 DEF ApplyFile
<1>5. ReleaseInv' /\ AppliedOnceInOrder'
  <2>1. applied' = applied /\ recorded' = recorded BY DEF ApplyFile
  <2>2. ReleaseInv' BY <2>1 DEF ReleaseInv
  <2>3. AppliedOnceInOrder' BY <2>1 DEF AppliedOnceInOrder
  <2>4. QED BY <2>2, <2>3
<1>6. newly[s] \in Seq(Nat) /\ <<f>> \in Seq(Nat)
  <2>1. newly[s] \in Seq(Nat) BY FilesNat, SeqMonotonic
  <2>2. <<f>> \in Seq(Nat) BY <1>2
  <2>3. QED BY <2>1, <2>2
<1>7. newly'[s] = newly[s] \o <<f>> BY <1>1, <1>6
<1>8. Elements(<<f>>) = {f} /\ Increasing(<<f>>) BY <1>2 DEF Elements, Increasing
<1>9. Elements(newly'[s]) = Elements(newly[s]) \cup {f}
  BY <1>6, <1>7, <1>8, ConcatElements
<1>10. stage[s] = "migrating" /\ lock = s BY DEF ApplyFile, MigratingInv
<1>11. Increasing(newly'[s])
  <2>1. \A e \in Elements(newly[s]), g \in Elements(<<f>>) : e < g
    BY <1>8, <1>10 DEF MigratingInv
  <2>2. Increasing(newly[s]) BY <1>10 DEF MigratingInv
  <2> HIDE DEF MigrationInv, DeploymentTypeOK
  <2>3. QED BY <1>6, <1>7, <1>8, <2>1, <2>2, ConcatIncreasing
<1>12. Pending(s)' = Pending(s) \ {f} BY <1>9 DEF ApplyFile, Pending, Elements
<1>13. \A g \in Pending(s) : g \in Nat
  BY DeploymentAssumption DEF Pending, DeploymentAssumption
<1>14. \A e \in Elements(newly'[s]), g \in Pending(s)' : e < g
  <2>1. ASSUME NEW g \in Pending(s)' PROVE f < g
    <3>1. g \in Pending(s) /\ g # f BY <1>12, <2>1
    <3>2. f <= g /\ g \in Nat BY <1>1, <1>13, <3>1
    <3> HIDE DEF MigrationInv, DeploymentTypeOK
    <3>3. QED BY <1>2, <3>1, <3>2
  <2>2. \A e \in Elements(newly[s]), g \in Pending(s)' : e < g
    BY <1>10, <1>12 DEF MigratingInv
  <2>3. QED BY <1>9, <2>1, <2>2
<1>15. f \notin recorded BY <1>10 DEF Pending, MigratingInv
<1>16. Elements(newly'[s]) \subseteq FilesOf[s] \ recorded
  BY <1>2, <1>9, <1>10, <1>15 DEF MigratingInv
<1>17. \A t \in Stacks : t # s => stage[t] # "migrating" BY <1>10 DEF MigratingInv
<1>18. MigratingInv'
  BY <1>10, <1>11, <1>14, <1>16, <1>17 DEF ApplyFile, MigratingInv
<1>19. QED BY <1>4, <1>5, <1>18

\* A commit appends files that are above all recorded ones, and completes its
\* release.
LEMMA CommitStep ==
  ASSUME MigrationInv, NEW s \in Stacks, CommitMigrations(s)
  PROVE  MigrationInv'
<1> USE DEF MigrationInv, DeploymentTypeOK, counts
<1>1. stage[s] = "migrating" /\ Pending(s) = {} BY DEF CommitMigrations
<1>2. applied \in Seq(Nat) /\ newly[s] \in Seq(Nat) BY FilesNat, SeqMonotonic
<1>3. recorded = Elements(applied) /\ Increasing(applied)
  BY DEF AppliedOnceInOrder, Elements, Increasing
<1>4. /\ lock = s /\ seen[s] = recorded /\ Increasing(newly[s])
      /\ Elements(newly[s]) \subseteq FilesOf[s] \ recorded
  BY <1>1 DEF MigratingInv
<1>5. applied' = applied \o newly[s] /\ recorded' = recorded \cup Elements(newly[s])
  BY DEF CommitMigrations, Elements
<1>6. AppliedOnceInOrder'
  <2>1. \A f \in Elements(applied), g \in Elements(newly[s]) : f < g
    BY <1>3, <1>4, DeploymentAssumption, UnrecordedAbove
  <2>2. Increasing(applied') BY <1>2, <1>3, <1>4, <1>5, <2>1, ConcatIncreasing
  <2>3. recorded' = Elements(applied') BY <1>2, <1>3, <1>5, ConcatElements
  <2>4. QED BY <2>2, <2>3 DEF AppliedOnceInOrder, Elements, Increasing
<1>7. FilesOf[s] \subseteq recorded' BY <1>1, <1>4, <1>5 DEF Pending, Elements
<1>8. ReleaseInv'
  <2>1. \A g \in recorded : \E t \in Stacks : g \in FilesOf[t] /\ FilesOf[t] \subseteq recorded'
    BY <1>5 DEF ReleaseInv
  <2>2. \A g \in Elements(newly[s]) : g \in FilesOf[s] BY <1>4
  <2>3. QED BY <1>5, <1>7, <2>1, <2>2 DEF ReleaseInv
<1>9. MigratingInv'
  <2>1. \A t \in Stacks : stage'[t] # "migrating"
    BY <1>4 DEF CommitMigrations, MigratingInv
  <2>2. QED BY <2>1 DEF MigratingInv
<1>10. DeploymentTypeOK'
  <2>1. applied' \in Seq(Migrations) BY <1>5
  <2>2. Elements(newly[s]) \subseteq Migrations BY DEF Elements
  <2>3. recorded' \subseteq Migrations BY <1>5, <2>2
  <2>4. \A t \in Tables : table[t] \in [owner : {"none", "web", "owner"}, granted : BOOLEAN]
    OBVIOUS
  <2>5. \A t \in Tables : [transferred(t) EXCEPT !.granted = FALSE]
                             \in [owner : {"none", "web", "owner"}, granted : BOOLEAN]
    BY <2>4 DEF transferred
  <2>6. table' \in [Tables -> [owner : {"none", "web", "owner"}, granted : BOOLEAN]]
    BY <2>5 DEF CommitMigrations
  <2>7. QED BY <2>1, <2>3, <2>6 DEF CommitMigrations
<1>11. QED BY <1>6, <1>8, <1>9, <1>10

\* The other commands leave the compute schema alone, and no transaction that
\* is still open.
LEMMA OtherStep ==
  ASSUME MigrationInv, NEW s \in Stacks,
         WebMigrate(s) \/ grant_web_tables(s) \/ Fails(s) \/ Update(s)
  PROVE  MigrationInv'
<1> USE DEF MigrationInv, schema, web, counts
<1> DEFINE TableStates == [owner : {"none", "web", "owner"}, granted : BOOLEAN]
<1>1. \A t \in Tables : table[t] \in TableStates BY DEF DeploymentTypeOK
<1>2. DeploymentTypeOK'
  <2>1. CASE WebMigrate(s)
    <3>1. [owner |-> "owner", granted |-> defaults] \in TableStates BY DEF DeploymentTypeOK
    <3>2. table' \in [Tables -> TableStates] BY <1>1, <2>1, <3>1, Zenon DEF WebMigrate
    <3>3. QED BY <2>1, <3>2 DEF DeploymentTypeOK, WebMigrate
  <2>2. CASE grant_web_tables(s)
    <3>1. \A t \in Tables : Exists(t) \in BOOLEAN BY DEF Exists
    <3>2. \A t \in Tables : [table[t] EXCEPT !.granted = Exists(t)] \in TableStates
      BY <1>1, <3>1
    <3>3. table' \in [Tables -> TableStates] BY <2>2, <3>2 DEF grant_web_tables
    <3>4. QED BY <2>2, <3>3 DEF DeploymentTypeOK, grant_web_tables
  <2>3. CASE Fails(s)
    BY <2>3, DeploymentAssumption DEF DeploymentTypeOK, Fails, DeploymentAssumption
  <2>4. CASE Update(s)
    BY <2>4, DeploymentAssumption DEF DeploymentTypeOK, Update, DeploymentAssumption
  <2>5. QED BY <2>1, <2>2, <2>3, <2>4
<1>3. ReleaseInv' /\ AppliedOnceInOrder'
  BY DEF ReleaseInv, AppliedOnceInOrder, WebMigrate, grant_web_tables, Fails, Update
<1>4. UNCHANGED <<recorded, seen, newly>>
  BY DEF WebMigrate, grant_web_tables, Fails, Update
<1>5. \A t \in Stacks : stage'[t] = "migrating" => stage[t] = "migrating" /\ lock' = lock
  <2>1. CASE Fails(s)
    BY <2>1, DeploymentAssumption DEF Fails, DeploymentTypeOK, MigratingInv, DeploymentAssumption
  <2>2. CASE ~Fails(s) BY <2>2 DEF WebMigrate, grant_web_tables, Update, DeploymentTypeOK
  <2>3. QED BY <2>1, <2>2
<1>6. MigratingInv' BY <1>4, <1>5 DEF MigratingInv, Pending
<1>7. QED BY <1>2, <1>3, <1>6

\* The inductive invariant holds at the start.
LEMMA MigrationInvInit == DeploymentInit => MigrationInv
<1> SUFFICES ASSUME DeploymentInit PROVE MigrationInv OBVIOUS
<1>1. DeploymentTypeOK
  <2>1. webRole \in BOOLEAN BY DEF DeploymentInit
  <2>2. table \in [Tables -> [owner : {"none", "web", "owner"}, granted : BOOLEAN]]
    BY DEF DeploymentInit, NoTable
  <2>3. applied \in Seq(Migrations) /\ newly \in [Stacks -> Seq(Migrations)] BY DEF DeploymentInit
  <2>4. failures \in 0..MaxFailures /\ updates \in 0..MaxUpdates
    BY DeploymentAssumption DEF DeploymentInit, DeploymentAssumption
  <2>5. defaults \in BOOLEAN BY DEF DeploymentInit
  <2>6. /\ lock \in Stacks \cup {NoStack} /\ recorded \subseteq Migrations
        /\ seen \in [Stacks -> SUBSET Migrations]
        /\ stage \in [Stacks -> {"start", "migrating", "migrated", "web_migrated", "up"}]
    BY DEF DeploymentInit
  <2>7. QED BY <2>1, <2>2, <2>3, <2>4, <2>5, <2>6 DEF DeploymentTypeOK
<1>2. MigratingInv BY DEF DeploymentInit, MigratingInv
<1>3. ReleaseInv /\ AppliedOnceInOrder BY DEF DeploymentInit, ReleaseInv, AppliedOnceInOrder
<1>4. QED BY <1>1, <1>2, <1>3 DEF MigrationInv

\* The inductive invariant holds in every reachable state.
LEMMA MigrationInvAlways == DeploymentSpec => []MigrationInv
<1>1. MigrationInv /\ [DeploymentNext]_deploymentVars => MigrationInv'
  <2> SUFFICES ASSUME MigrationInv, [DeploymentNext]_deploymentVars PROVE MigrationInv' OBVIOUS
  <2>1. CASE UNCHANGED deploymentVars
    <3>1. DeploymentTypeOK' BY <2>1 DEF deploymentVars, MigrationInv, DeploymentTypeOK
    <3>2. MigratingInv' BY <2>1 DEF deploymentVars, MigrationInv, MigratingInv, Pending
    <3>3. (ReleaseInv /\ AppliedOnceInOrder)'
      BY <2>1 DEF deploymentVars, MigrationInv, ReleaseInv, AppliedOnceInOrder
    <3>4. QED BY <3>1, <3>2, <3>3 DEF MigrationInv
  <2>2. QED BY <2>1, LockStep, ApplyStep, CommitStep, OtherStep DEF DeploymentNext, Progress
<1>2. QED BY <1>1, MigrationInvInit, PTL DEF DeploymentSpec

\* For any number of stacks and releases, every variable keeps its type.
THEOREM DeploymentTypeCorrect == DeploymentSpec => []DeploymentTypeOK
<1>1. MigrationInv => DeploymentTypeOK BY DEF MigrationInv
<1>2. QED BY <1>1, MigrationInvAlways, PTL

\* For any number of stacks that share a database, any nested releases and any
\* failures, each migration file is executed at most once, in name order, and
\* recorded exactly when it was (install_compute_schema).
THEOREM MigrationsOnceInOrder == DeploymentSpec => []AppliedOnceInOrder
<1>1. MigrationInv => AppliedOnceInOrder BY DEF MigrationInv
<1>2. QED BY <1>1, MigrationInvAlways, PTL
==============================================================================
