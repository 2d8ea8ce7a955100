----------------------------- MODULE ModelAssets -----------------------------
(***************************************************************************)
(* Installing the model dataset, packages/tsdhn/tsdhn/assets.py and        *)
(* runtime.py: `tsdhn assets install [--force]` extracts an archive into a *)
(* staging directory, removes the dataset it replaces and renames the      *)
(* staging directory to its place. Every installer of a version uses the   *)
(* same staging directory, and nothing keeps two of them apart.            *)
(*                                                                         *)
(* A directory is an inode: an open file and a running rmtree (which works *)
(* through directory descriptors) follow it when it is renamed. The        *)
(* archive of the default release has the dataset at its top level, so the *)
(* staging directory itself is what is renamed; the other roots that       *)
(* _find_model_root accepts, which an archive given by --url may have, are *)
(* left out. Contents are the same in every archive of a version; a file   *)
(* is missing, torn or whole.                                              *)
(***************************************************************************)
EXTENDS Integers, Sequences, FiniteSets

CONSTANTS
    Installers,
    Files,              \* number of required files, extracted in order
    MaxRuns,            \* bound: installs started
    MaxStops,           \* bound: installs killed or failed by the system
    None

Inodes == 1..(2 + 2 * Cardinality(Installers))

ASSUME AssetsAssumption ==
    /\ IsFiniteSet(Installers) /\ None \notin Inodes
    /\ Installers \cap {"absent", "torn", "whole"} = {}
    /\ Files \in Nat \ {0} /\ MaxRuns \in Nat /\ MaxStops \in Nat

VARIABLES
    content,        \* [Inodes -> [1..Files -> "absent", "torn", "whole" or
                    \*             the installer writing the file]]
    staging,        \* inode at .<version>.tmp, or None
    target,         \* inode at <version>, or None
    inst,           \* per installer: [pc, dir, todo, next, result]
    runs, stops,    \* installs started, and killed or failed, so far
    overlapped      \* two installers have run at once

vars == <<content, staging, target, inst, runs, stops, overlapped>>

Empty == [f \in 1..Files |-> "absent"]

Idle(result) == [pc |-> "idle", dir |-> None, todo |-> {}, next |-> 1,
                 result |-> result]

Init == /\ content = [i \in Inodes |-> Empty]
        /\ staging = None
        /\ target = None
        /\ inst = [p \in Installers |-> Idle("none")]
        /\ runs = 0
        /\ stops = 0
        /\ overlapped = FALSE

\* Files found under a path that leads to inode i, or nowhere.
Present(i) == {f \in 1..Files : i # None /\ content[i][f] # "absent"}

\* validate_model_dir, and _missing_model_entries of a path that exists: every
\* required file is there.
validate_model_dir(i) == Present(i) = 1..Files

Goto(p, pc) == inst' = [inst EXCEPT ![p].pc = pc]
Raise(p) == inst' = [inst EXCEPT ![p] = Idle("error")]
Return(p) == inst' = [inst EXCEPT ![p] = Idle("installed")]

\* An inode no path leads to and no installer holds.
Unused(i) == /\ i \notin {staging, target}
             /\ \A p \in Installers : inst[p].dir # i
------------------------------------------------------------------------------
(* ModelStore.install.                                                     *)

Begin(p, force) ==
    /\ inst[p].pc = "idle" /\ runs < MaxRuns
    /\ runs' = runs + 1
    /\ overlapped' = (overlapped \/ \E q \in Installers : inst[q].pc # "idle")
    /\ IF target # None /\ ~force
       THEN IF validate_model_dir(target) THEN Return(p) ELSE Raise(p)
       ELSE inst' = [inst EXCEPT ![p] = [Idle("none") EXCEPT !.pc = "clear"]]
    /\ UNCHANGED <<content, staging, target, stops>>

\* if path.exists(): shutil.rmtree(path), the first half: list the directory.
List(p, dir, found, absent) ==
    IF dir = None
    THEN Goto(p, absent)
    ELSE inst' = [inst EXCEPT ![p].pc = found, ![p].dir = dir,
                              ![p].todo = Present(dir)]

\* Variants: a staging directory that is there is not removed; the files an
\* earlier install extracted are kept and the rest is extracted.
ClearNothing(p) ==
    /\ inst[p].pc = "clear"
    /\ Goto(p, "mkdir")
    /\ UNCHANGED <<content, staging, target, runs, stops, overlapped>>
ClearResumes(p) ==
    /\ inst[p].pc = "clear"
    /\ IF staging = None
       THEN Goto(p, "mkdir")
       ELSE inst' = [inst EXCEPT ![p].pc = "extract",
                                 ![p].next = Cardinality(Present(staging)) + 1]
    /\ UNCHANGED <<content, staging, target, runs, stops, overlapped>>

Clear(p) ==
    /\ inst[p].pc = "clear"
    /\ List(p, staging, "clearing", "mkdir")
    /\ UNCHANGED <<content, staging, target, runs, stops, overlapped>>

Replace(p) ==
    /\ inst[p].pc = "replace"
    /\ List(p, target, "replacing", "rename")
    /\ UNCHANGED <<content, staging, target, runs, stops, overlapped>>

Cleanup(p) ==
    /\ inst[p].pc = "cleanup"
    /\ List(p, staging, "cleaning", "validate")
    /\ UNCHANGED <<content, staging, target, runs, stops, overlapped>>

Removing == {"clearing", "replacing", "cleaning"}

\* rmtree unlinks one listed file; one that is gone by then is ignored.
RemoveFile(p, f) ==
    /\ inst[p].pc \in Removing /\ f \in inst[p].todo
    /\ content' = [content EXCEPT ![inst[p].dir][f] = "absent"]
    /\ inst' = [inst EXCEPT ![p].todo = @ \ {f}]
    /\ UNCHANGED <<staging, target, runs, stops, overlapped>>

\* rmtree ends with rmdir(path): an error when the path is gone or not empty.
RemoveDir(p) ==
    /\ inst[p].pc \in Removing /\ inst[p].todo = {}
    /\ LET next == [clearing |-> "mkdir", replacing |-> "rename",
                    cleaning |-> "validate"][inst[p].pc]
           path == IF inst[p].pc = "replacing" THEN target ELSE staging
       IN \/ /\ path # None /\ Present(path) = {}
             /\ IF inst[p].pc = "replacing"
                THEN target' = None /\ UNCHANGED staging
                ELSE staging' = None /\ UNCHANGED target
             /\ inst' = [inst EXCEPT ![p].pc = next, ![p].dir = None]
          \/ /\ path = None \/ Present(path) # {}
             /\ Raise(p)
             /\ UNCHANGED <<staging, target>>
    /\ UNCHANGED <<content, runs, stops, overlapped>>

Create(i) == staging' = i /\ content' = [content EXCEPT ![i] = Empty]

\* staging.mkdir(parents=True).
Mkdir(p) ==
    /\ inst[p].pc = "mkdir"
    /\ \/ /\ staging = None
          /\ \E i \in Inodes : Unused(i) /\ (\A j \in 1..(i - 1) : ~Unused(j)) /\ Create(i)
          /\ Goto(p, "extract")
       \/ /\ staging # None
          /\ Raise(p)
          /\ UNCHANGED <<content, staging>>
    /\ UNCHANGED <<target, runs, stops, overlapped>>

\* tar.extractall opens the next file, which truncates it; tarfile makes the
\* directories above a file that are missing.
OpenFile(p) ==
    /\ inst[p].pc = "extract" /\ inst[p].next <= Files /\ inst[p].dir = None
    /\ \E i \in Inodes :
         /\ IF staging = None THEN Unused(i) /\ (\A j \in 1..(i - 1) : ~Unused(j))
                              ELSE i = staging
         /\ staging' = i
         /\ content' = [content EXCEPT ![i] =
                           [(IF staging = None THEN Empty ELSE @) EXCEPT
                              ![inst[p].next] = p]]
         /\ inst' = [inst EXCEPT ![p].dir = i]
    /\ UNCHANGED <<target, runs, stops, overlapped>>

\* The file is written to its end: it is whole unless someone truncated or
\* unlinked it meanwhile.
Written(p) == content' = [content EXCEPT ![inst[p].dir][inst[p].next] =
                             IF @ = p THEN "whole" ELSE @]

CloseFile(p) ==
    /\ inst[p].pc = "extract" /\ inst[p].dir # None
    /\ Written(p)
    /\ inst' = [inst EXCEPT ![p].dir = None, ![p].next = @ + 1]
    /\ UNCHANGED <<staging, target, runs, stops, overlapped>>

_find_model_root(p) ==
    /\ inst[p].pc = "extract" /\ inst[p].next > Files
    /\ IF validate_model_dir(staging) THEN Goto(p, "replace") ELSE Raise(p)
    /\ UNCHANGED <<content, staging, target, runs, stops, overlapped>>

\* root.rename(target): replaces an empty directory, fails on any other.
Rename(p) ==
    /\ inst[p].pc = "rename"
    /\ \/ /\ staging # None
          /\ Present(target) = {}
          /\ target' = staging
          /\ staging' = None
          /\ Goto(p, "cleanup")
       \/ /\ staging = None \/ Present(target) # {}
          /\ Raise(p)
          /\ UNCHANGED <<staging, target>>
    /\ UNCHANGED <<content, runs, stops, overlapped>>

Validate(p) ==
    /\ inst[p].pc = "validate"
    /\ IF validate_model_dir(target) THEN Return(p) ELSE Raise(p)
    /\ UNCHANGED <<content, staging, target, runs, stops, overlapped>>

\* The installer is killed, or the download, the checksum or a write fails.
Stop(p) ==
    /\ inst[p].pc # "idle" /\ stops < MaxStops
    /\ stops' = stops + 1
    /\ content' = IF inst[p].pc = "extract" /\ inst[p].dir # None
                  THEN [content EXCEPT ![inst[p].dir][inst[p].next] =
                            IF @ = p THEN "torn" ELSE @]
                  ELSE content
    /\ inst' = [inst EXCEPT ![p] = Idle("stopped")]
    /\ UNCHANGED <<staging, target, runs, overlapped>>

Step(p) == \/ Clear(p) \/ Replace(p) \/ Cleanup(p)
           \/ \E f \in 1..Files : RemoveFile(p, f)
           \/ RemoveDir(p) \/ Mkdir(p) \/ OpenFile(p) \/ CloseFile(p)
           \/ _find_model_root(p) \/ Rename(p) \/ Validate(p)

Next == \E p \in Installers : \/ \E force \in BOOLEAN : Begin(p, force)
                              \/ Step(p)
                              \/ Stop(p)

Spec == Init /\ [][Next]_vars

\* A started installer runs on until it ends or is stopped.
FairSpec == Spec /\ \A p \in Installers : WF_vars(Step(p))
------------------------------------------------------------------------------
Quiet == \A p \in Installers : inst[p].pc = "idle"

Whole(i) == \A f \in 1..Files : content[i][f] = "whole"

TypeOK == /\ content \in [Inodes -> [1..Files -> {"absent", "torn", "whole"} \cup Installers]]
          /\ staging \in Inodes \cup {None}
          /\ target \in Inodes \cup {None}
          /\ \A p \in Installers : /\ inst[p].dir \in Inodes \cup {None}
                                   /\ inst[p].todo \subseteq 1..Files
                                   /\ inst[p].next \in 1..(Files + 1)
          /\ staging # None => staging # target
          /\ runs \in 0..MaxRuns /\ stops \in 0..MaxStops /\ overlapped \in BOOLEAN

(***************************************************************************)
(* A dataset that passes validate_model_dir, which only looks at which     *)
(* files exist, has every file whole.  While installs come one at a time   *)
(* this holds wherever they are killed and whether or not the next one is  *)
(* forced.  When two have shared the staging directory it still holds once *)
(* none runs, if none was stopped half-way, although while they run one    *)
(* may rename the directory the other is writing into.                     *)
(***************************************************************************)
ValidIsWhole ==
    validate_model_dir(target) /\ (~overlapped \/ (Quiet /\ stops = 0)) => Whole(target)

(***************************************************************************)
(* What a stopped install leaves behind (a half-filled staging directory,  *)
(* a half-removed dataset) never stands in the way of the next one: an     *)
(* install that reaches _extract_model_archive and is neither stopped nor  *)
(* joined by another ends with a whole dataset in place.                   *)
(***************************************************************************)
InstallRecovers ==
    \A p \in Installers :
        (inst[p].pc = "clear" /\ stops = MaxStops /\ ~overlapped)
            ~> \/ inst[p].result = "installed" /\ validate_model_dir(target) /\ Whole(target)
               \/ overlapped
==============================================================================
