------------------------------ MODULE Workspace ------------------------------
(***************************************************************************)
(* The workspace of one simulation on one host and its lock file           *)
(* (packages/api/api/core/tasks.py): claim_workspace and the two shares of *)
(* its claim, the hand-over to the coroutine and to the kernel thread, the *)
(* drain task, and remove_workspace (completion path and sweep).           *)
(*                                                                         *)
(* A flock belongs to an inode, the path names an inode only until it is   *)
(* unlinked, and open, flock and unlink are separate system calls.         *)
(***************************************************************************)
EXTENDS Integers

CONSTANTS
  Claimants,   \* deliveries that reach the workspace claim
  Removers,    \* calls of remove_workspace
  MaxInode     \* bound: lock-file inodes ever created

NoInode == 0
Inodes == 1..MaxInode
Nobody == "nobody"

ASSUME WorkspaceAssumption ==
  /\ MaxInode \in Nat
  /\ Nobody \notin Claimants \cup Removers
  /\ Claimants \cap Removers = {}

VARIABLES
  path,       \* the inode the lock path names
  created,    \* inodes created so far
  holder,     \* who holds each inode's flock
  workdir,    \* whether the workspace directory exists
  fd,         \* the inode each actor's descriptor refers to
  opener,     \* claim_workspace in its thread
  co,         \* the coroutine
  kernel,     \* the kernel's work item in the executor
  cancelled,  \* whose kernel_cancelled is set
  shares,     \* shares left in the claim
  due,        \* releases the coroutine side still has to make
  drain,      \* the detached drain task
  remover     \* remove_workspace

claimVars == <<opener, co, kernel, cancelled, shares, due, drain>>
vars == <<path, created, holder, workdir, fd, claimVars, remover>>

Actors == Claimants \cup Removers

TypeOK ==
  /\ path \in {NoInode} \cup Inodes
  /\ created \in 0..MaxInode
  /\ holder \in [Inodes -> Actors \cup {Nobody}]
  /\ workdir \in {"absent", "present"}
  /\ fd \in [Actors -> {NoInode} \cup Inodes]
  /\ opener \in [Claimants -> {"none", "open", "flock", "held", "failed"}]
  /\ co \in [Claimants -> {"idle", "claiming", "kernel", "upload", "ended"}]
  /\ kernel \in [Claimants -> {"none", "queued", "running", "ended"}]
  /\ cancelled \in SUBSET Claimants
  /\ shares \in [Claimants -> 0..2]
  /\ due \in [Claimants -> 0..2]
  /\ drain \in [Claimants -> {"none", "waiting", "done"}]
  /\ remover \in [Removers -> {"idle", "flock", "rmtree", "unlink", "close", "done"}]

Init ==
  /\ path = NoInode
  /\ created = 0
  /\ holder = [i \in Inodes |-> Nobody]
  /\ workdir = "absent"
  /\ fd = [a \in Actors |-> NoInode]
  /\ opener = [a \in Claimants |-> "none"]
  /\ co = [a \in Claimants |-> "idle"]
  /\ kernel = [a \in Claimants |-> "none"]
  /\ cancelled = {}
  /\ shares = [a \in Claimants |-> 0]
  /\ due = [a \in Claimants |-> 0]
  /\ drain = [a \in Claimants |-> "none"]
  /\ remover = [r \in Removers |-> "idle"]

-----------------------------------------------------------------------------
(* The lock file *)

\* os.open(O_CREAT): the inode the path names, or a new one.
OpenLockFile(a) ==
  \/ /\ path # NoInode
     /\ fd' = [fd EXCEPT ![a] = path]
     /\ UNCHANGED <<path, created>>
  \/ /\ path = NoInode /\ created < MaxInode
     /\ created' = created + 1
     /\ path' = created + 1
     /\ fd' = [fd EXCEPT ![a] = created + 1]

\* os.close: the kernel drops the flock with its last descriptor.
CloseLockFile(a) ==
  /\ fd' = [fd EXCEPT ![a] = NoInode]
  /\ holder' = [i \in Inodes |-> IF holder[i] = a THEN Nobody ELSE holder[i]]

\* WorkspaceClaim.release of k shares by claimant a: the last one closes.
ReleaseEager(a, k) ==
  /\ shares' = [shares EXCEPT ![a] = shares[a] - k]
  /\ CloseLockFile(a)

Release(a, k) ==
  /\ shares' = [shares EXCEPT ![a] = shares[a] - k]
  /\ IF shares[a] > k THEN UNCHANGED <<fd, holder>> ELSE CloseLockFile(a)

-----------------------------------------------------------------------------
(* claim_workspace and its hand-over *)

\* _claim_workspace_safely starts the thread and waits behind a shield.
StartClaim(a) ==
  /\ co[a] = "idle"
  /\ co' = [co EXCEPT ![a] = "claiming"]
  /\ opener' = [opener EXCEPT ![a] = "open"]
  /\ UNCHANGED <<path, created, holder, workdir, fd, kernel, cancelled, shares,
                 due, drain, remover>>

ClaimOpens(a) ==
  /\ opener[a] = "open"
  /\ OpenLockFile(a)
  /\ opener' = [opener EXCEPT ![a] = "flock"]
  /\ UNCHANGED <<holder, workdir, co, kernel, cancelled, shares, due, drain, remover>>

\* os.open or mkdir raises: OSError reaches the coroutine.
ClaimCannotOpen(a) ==
  /\ opener[a] = "open"
  /\ opener' = [opener EXCEPT ![a] = "failed"]
  /\ UNCHANGED <<path, created, holder, workdir, fd, co, kernel, cancelled, shares,
                 due, drain, remover>>

\* flock(LOCK_EX | LOCK_NB), then WorkspaceClaim(fd).  A refusal, or an error
\* writing the file under the lock, closes.
ClaimLocks(a) ==
  /\ opener[a] = "flock"
  /\ \/ /\ holder[fd[a]] = Nobody
        /\ holder' = [holder EXCEPT ![fd[a]] = a]
        /\ shares' = [shares EXCEPT ![a] = 2]
        /\ opener' = [opener EXCEPT ![a] = "held"]
        /\ UNCHANGED fd
     \/ /\ opener' = [opener EXCEPT ![a] = "failed"]
        /\ fd' = [fd EXCEPT ![a] = NoInode]
        /\ UNCHANGED <<holder, shares>>
  /\ UNCHANGED <<path, created, workdir, co, kernel, cancelled, due, drain, remover>>

\* The await returns: the coroutine queues the kernel, or raises.
ReceiveClaim(a) ==
  /\ co[a] = "claiming"
  /\ \/ /\ opener[a] = "held"
        /\ co' = [co EXCEPT ![a] = "kernel"]
        /\ kernel' = [kernel EXCEPT ![a] = "queued"]
     \/ /\ opener[a] = "failed"
        /\ co' = [co EXCEPT ![a] = "ended"]
        /\ UNCHANGED kernel
  /\ UNCHANGED <<path, created, holder, workdir, fd, opener, cancelled, shares,
                 due, drain, remover>>

\* Cancelled behind the shield: a drain task takes the claim over.
CancelClaim(a) ==
  /\ co[a] = "claiming"
  /\ co' = [co EXCEPT ![a] = "ended"]
  /\ drain' = [drain EXCEPT ![a] = "waiting"]
  /\ UNCHANGED <<path, created, holder, workdir, fd, opener, kernel, cancelled,
                 shares, due, remover>>

DrainOneShare(a) ==
  /\ drain[a] = "waiting" /\ opener[a] \in {"held", "failed"}
  /\ drain' = [drain EXCEPT ![a] = "done"]
  /\ IF opener[a] = "held" THEN Release(a, 1) ELSE UNCHANGED <<shares, fd, holder>>
  /\ UNCHANGED <<path, created, workdir, opener, co, kernel, cancelled, due, remover>>

\* _release_unreceived_claim gives back both shares.
DrainClaim(a) ==
  /\ drain[a] = "waiting" /\ opener[a] \in {"held", "failed"}
  /\ drain' = [drain EXCEPT ![a] = "done"]
  /\ IF opener[a] = "held" THEN Release(a, 2) ELSE UNCHANGED <<shares, fd, holder>>
  /\ UNCHANGED <<path, created, workdir, opener, co, kernel, cancelled, due, remover>>

-----------------------------------------------------------------------------
(* The kernel thread and the coroutine that awaits it *)

\* run_kernel_if_not_cancelled, under kernel_state_guard.  A fresh run makes
\* the directory.
KernelStarts(a) ==
  /\ kernel[a] = "queued"
  /\ \/ /\ a \notin cancelled
        /\ kernel' = [kernel EXCEPT ![a] = "running"]
        /\ workdir' = "present"
     \/ /\ a \in cancelled
        /\ kernel' = [kernel EXCEPT ![a] = "ended"]
        /\ UNCHANGED workdir
  /\ UNCHANGED <<path, created, holder, fd, opener, co, cancelled, shares, due,
                 drain, remover>>

\* run_kernel's finally: the thread's share.
KernelEnds(a) ==
  /\ kernel[a] = "running"
  /\ kernel' = [kernel EXCEPT ![a] = "ended"]
  /\ Release(a, 1)
  /\ UNCHANGED <<path, created, workdir, opener, co, cancelled, due, drain, remover>>

\* The await on the kernel returns, to complete_job or to an error handler.
KernelAwaited(a) ==
  /\ co[a] = "kernel" /\ kernel[a] = "ended"
  /\ co' = [co EXCEPT ![a] = "upload"]
  /\ UNCHANGED <<path, created, holder, workdir, fd, opener, kernel, cancelled,
                 shares, due, drain, remover>>

\* The coroutine leaves its try block after the kernel: one release is due.
LeaveTask(a) ==
  /\ co[a] = "upload"
  /\ co' = [co EXCEPT ![a] = "ended"]
  /\ due' = [due EXCEPT ![a] = 1]
  /\ UNCHANGED <<path, created, holder, workdir, fd, opener, kernel, cancelled,
                 shares, drain, remover>>

CancelKernelBoth(a) ==
  /\ co[a] = "kernel"
  /\ co' = [co EXCEPT ![a] = "ended"]
  /\ cancelled' = cancelled \cup {a}
  /\ due' = [due EXCEPT ![a] = 2]
  /\ UNCHANGED <<path, created, holder, workdir, fd, opener, kernel, shares, drain, remover>>

\* CancelledError while awaiting the kernel, under kernel_state_guard: the
\* kernel's share is the coroutine's to give back if the kernel never started.
CancelKernel(a) ==
  /\ co[a] = "kernel"
  /\ co' = [co EXCEPT ![a] = "ended"]
  /\ cancelled' = cancelled \cup {a}
  /\ due' = [due EXCEPT ![a] = IF kernel[a] = "queued" THEN 2 ELSE 1]
  /\ UNCHANGED <<path, created, holder, workdir, fd, opener, kernel, shares, drain, remover>>

\* One claim.release() of the coroutine; the thread's may come in between.
ReleaseDue(a) ==
  /\ due[a] > 0
  /\ due' = [due EXCEPT ![a] = due[a] - 1]
  /\ Release(a, 1)
  /\ UNCHANGED <<path, created, workdir, opener, co, kernel, cancelled, drain, remover>>

\* The worker process of a dies, its descriptors with it.
Crash(a) ==
  /\ co[a] # "idle"
  /\ co' = [co EXCEPT ![a] = "ended"]
  /\ opener' = [opener EXCEPT ![a] = "failed"]
  /\ kernel' = [kernel EXCEPT ![a] = "ended"]
  /\ shares' = [shares EXCEPT ![a] = 0]
  /\ due' = [due EXCEPT ![a] = 0]
  /\ drain' = [drain EXCEPT ![a] = "done"]
  /\ CloseLockFile(a)
  /\ UNCHANGED <<path, created, workdir, cancelled, remover>>

-----------------------------------------------------------------------------
(* remove_workspace *)

RemoverOpens(r) ==
  /\ remover[r] = "idle"
  /\ OpenLockFile(r)
  /\ remover' = [remover EXCEPT ![r] = "flock"]
  /\ UNCHANGED <<holder, workdir, claimVars>>

\* os.open raises: the directory is removed without the lock.
RemoverCannotOpen(r) ==
  /\ remover[r] = "idle"
  /\ workdir' = "absent"
  /\ remover' = [remover EXCEPT ![r] = "done"]
  /\ UNCHANGED <<path, created, holder, fd, claimVars>>

RemoverLocks(r) ==
  /\ remover[r] = "flock"
  /\ IF holder[fd[r]] = Nobody
     THEN /\ holder' = [holder EXCEPT ![fd[r]] = r]
          /\ remover' = [remover EXCEPT ![r] = "rmtree"]
     ELSE /\ remover' = [remover EXCEPT ![r] = "close"]
          /\ UNCHANGED holder
  /\ UNCHANGED <<path, created, workdir, fd, claimVars>>

RemoverDeletes(r) ==
  /\ remover[r] = "rmtree"
  /\ workdir' = "absent"
  /\ remover' = [remover EXCEPT ![r] = "unlink"]
  /\ UNCHANGED <<path, created, holder, fd, claimVars>>

\* unlink removes the name, whatever inode it names by now.
RemoverUnlinks(r) ==
  /\ remover[r] = "unlink"
  /\ path' = NoInode
  /\ remover' = [remover EXCEPT ![r] = "close"]
  /\ UNCHANGED <<created, holder, workdir, fd, claimVars>>

RemoverCloses(r) ==
  /\ remover[r] = "close"
  /\ CloseLockFile(r)
  /\ remover' = [remover EXCEPT ![r] = "done"]
  /\ UNCHANGED <<path, created, workdir, claimVars>>

-----------------------------------------------------------------------------

Claim(a) ==
  \/ StartClaim(a) \/ ClaimOpens(a) \/ ClaimCannotOpen(a) \/ ClaimLocks(a) \/ ReceiveClaim(a)
  \/ DrainClaim(a) \/ KernelStarts(a) \/ KernelEnds(a) \/ KernelAwaited(a)
  \/ LeaveTask(a) \/ ReleaseDue(a)

Interrupt(a) == CancelClaim(a) \/ CancelKernel(a) \/ Crash(a)

Remove(r) ==
  \/ RemoverOpens(r) \/ RemoverCannotOpen(r) \/ RemoverLocks(r)
  \/ RemoverDeletes(r) \/ RemoverUnlinks(r) \/ RemoverCloses(r)

Next ==
  \/ \E a \in Claimants : Claim(a) \/ Interrupt(a)
  \/ \E r \in Removers : Remove(r)

Spec == Init /\ [][Next]_vars

\* Threads run, awaits return and the drain task is scheduled; a kernel ends.
\* Nothing is assumed of cancellation or crashes.
FairSpec ==
  /\ Spec
  /\ \A a \in Claimants : WF_vars(Claim(a))
  /\ \A r \in Removers : WF_vars(Remove(r))

-----------------------------------------------------------------------------
(* Properties *)

\* WorkspaceClaim: whichever of the two sides ends first, and wherever a
\* cancellation falls, a kernel that runs still holds the lock it was given.
KernelHoldsItsLock ==
  \A a \in Claimants :
    kernel[a] = "running" => shares[a] > 0 /\ fd[a] # NoInode /\ holder[fd[a]] = a

\* No share is given back twice: what is left always covers what the thread,
\* the coroutine and the drain still have to give back.
SharesCovered ==
  \A a \in Claimants :
    LET kernelShare == IF kernel[a] = "running" THEN 1 ELSE 0
        ownShare == IF co[a] \in {"kernel", "upload"} THEN 1 ELSE due[a]
    IN  opener[a] = "held" /\ co[a] # "claiming" /\ drain[a] # "waiting"
          => IF co[a] = "kernel" /\ kernel[a] = "queued" THEN shares[a] = 2
             ELSE shares[a] = kernelShare + ownShare

\* A claim, once taken, is released by someone: the coroutine, the thread or
\* the drain task of a claim its coroutine never received.
ClaimsAreReleased == \A a \in Claimants : shares[a] > 0 ~> shares[a] = 0

\* "the workspace lock keeps the replacement from reading checkpoints the old
\* thread is still writing" (docs/jobs.md): one kernel at a time.
KernelsExclusive ==
  \A a, b \in Claimants : a # b => ~(kernel[a] = "running" /\ kernel[b] = "running")

\* Who holds lock file i, and which kernels run on it.  A running kernel that
\* lost its descriptor counts as running on every file.
HoldersOf(i) == {a \in Actors : holder[i] = a}
KernelsOn(i) == {a \in Claimants : kernel[a] = "running" /\ fd[a] \in {i, NoInode}}

\* The claim that one lock file gives.
Lock(i) ==
  INSTANCE ClaimProtocol
  WITH Parties <- Actors, holders <- HoldersOf(i), inside <- KernelsOn(i)

\* WorkspaceClaim: whatever cancellations, crashes and removers do, the system
\* calls on each lock file and the count of shares make up the claim protocol.
\* (\A i \in Inodes : Lock(i)!Spec, with the quantifier moved into the steps.)
ImplementsClaim ==
  /\ \A i \in Inodes : Lock(i)!Init
  /\ [][\A i \in Inodes :
          Lock(i)!Next \/ UNCHANGED <<HoldersOf(i), KernelsOn(i)>>]_vars

\* However many deliveries and removers race for it, one lock file excludes:
\* kernels run together only after an unlinked file was created anew.
OneLockFileExcludes == created <= 1 => KernelsExclusive
=============================================================================
