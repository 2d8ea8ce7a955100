-------------------------- MODULE WorkspaceProofs --------------------------
(***************************************************************************)
(* The accounting of the workspace claim, for every number of deliveries,  *)
(* removers and lock-file inodes: whatever removes the lock file, and      *)
(* wherever cancellations and crashes fall, a running kernel holds the     *)
(* lock it was given and no share is given back twice.                     *)
(***************************************************************************)
EXTENDS Workspace, TLAPS

USE DEF NoInode, Inodes, Nobody, Actors

\* An update with a value of the range keeps a function's type.
LEMMA UpdateType ==
  ASSUME NEW S, NEW T, NEW f \in [S -> T], NEW x \in S, NEW y \in T
  PROVE  [f EXCEPT ![x] = y] \in [S -> T]
  OBVIOUS

\* Opening keeps the path, the counter and the descriptors in their types.
LEMMA OpenType ==
  ASSUME WorkspaceAssumption, TypeOK, NEW a \in Actors, OpenLockFile(a)
  PROVE  /\ created' \in 0..MaxInode
         /\ path' \in {NoInode} \cup Inodes
         /\ fd' \in [Actors -> {NoInode} \cup Inodes]
<1>1. PICK i \in {NoInode} \cup Inodes : fd' = [fd EXCEPT ![a] = i]
  BY DEF OpenLockFile, TypeOK, WorkspaceAssumption
<1>2. fd' \in [Actors -> {NoInode} \cup Inodes] BY <1>1, UpdateType DEF TypeOK
<1>3. QED BY <1>2 DEF OpenLockFile, TypeOK, WorkspaceAssumption

\* Releasing keeps the shares, the descriptors and the flocks in their types.
LEMMA ReleaseType ==
  ASSUME TypeOK, NEW a \in Claimants, NEW k \in 1..2, shares[a] >= k, Release(a, k)
  PROVE  /\ shares' \in [Claimants -> 0..2]
         /\ fd' \in [Actors -> {NoInode} \cup Inodes]
         /\ holder' \in [Inodes -> Actors \cup {Nobody}]
<1>1. shares[a] - k \in 0..2 BY DEF TypeOK
<1>2. shares' \in [Claimants -> 0..2] BY <1>1, UpdateType DEF Release, TypeOK
<1>3. CASE UNCHANGED <<fd, holder>> BY <1>2, <1>3 DEF TypeOK
<1>4. CASE CloseLockFile(a)
  <2>1. fd' \in [Actors -> {NoInode} \cup Inodes]
    BY <1>4, UpdateType DEF CloseLockFile, TypeOK
  <2>2. holder' \in [Inodes -> Actors \cup {Nobody}] BY <1>4 DEF CloseLockFile, TypeOK
  <2>3. QED BY <1>2, <2>1, <2>2
<1>5. QED BY <1>3, <1>4 DEF Release

\* Whoever is about to lock has a descriptor, and a share is left only where
\* the flock is held.
LockInv ==
  /\ \A a \in Claimants :
       /\ opener[a] = "flock" => fd[a] # NoInode
       /\ shares[a] > 0 => /\ opener[a] = "held"
                           /\ fd[a] # NoInode
                           /\ holder[fd[a]] = a
  /\ \A r \in Removers : remover[r] \in {"flock", "rmtree", "unlink", "close"}
                           => fd[r] # NoInode

\* A claim is with the coroutine, with the drain or spent, and a kernel runs
\* only on a claim the coroutine received.
HandOverInv ==
  \A a \in Claimants :
    /\ co[a] = "idle" => /\ opener[a] = "none" /\ kernel[a] = "none"
                         /\ drain[a] = "none" /\ due[a] = 0 /\ a \notin cancelled
    /\ co[a] = "claiming" => /\ opener[a] # "none" /\ drain[a] = "none"
                             /\ kernel[a] = "none" /\ due[a] = 0
                             /\ a \notin cancelled
    /\ drain[a] = "waiting" => /\ co[a] = "ended" /\ opener[a] # "none"
                               /\ kernel[a] = "none" /\ due[a] = 0
    /\ opener[a] # "held" => due[a] = 0 /\ kernel[a] \in {"none", "ended"}
    /\ co[a] \in {"kernel", "upload"} => opener[a] = "held" /\ drain[a] = "none"
    /\ co[a] = "upload" => kernel[a] = "ended"
    /\ co[a] = "kernel" => kernel[a] # "none" /\ a \notin cancelled
    /\ kernel[a] = "queued" => co[a] = "kernel" \/ a \in cancelled
    /\ opener[a] = "held" /\ (co[a] = "claiming" \/ drain[a] = "waiting")
         => shares[a] = 2
    /\ opener[a] # "held" => shares[a] = 0
    /\ due[a] > 0 => co[a] = "ended"
    /\ opener[a] \in {"open", "flock"} => co[a] = "claiming" \/ drain[a] = "waiting"

IInv == TypeOK /\ LockInv /\ HandOverInv /\ SharesCovered

\* Every step, or stuttering, keeps the variables in their types.
LEMMA TypeStep ==
  ASSUME WorkspaceAssumption, IInv, [Next]_vars
  PROVE  TypeOK'
<1> USE DEF TypeOK, WorkspaceAssumption, claimVars
<1> TypeOK /\ LockInv /\ HandOverInv /\ SharesCovered BY DEF IInv
<1>1. ASSUME NEW a \in Claimants, Claim(a) \/ Interrupt(a) PROVE TypeOK'
  <2>1. CASE StartClaim(a) BY <2>1 DEF StartClaim
  <2>2. CASE ClaimOpens(a)
    BY <2>2, OpenType DEF ClaimOpens
  <2>3. CASE ClaimCannotOpen(a) BY <2>3 DEF ClaimCannotOpen
  <2>4. CASE ClaimLocks(a)
    <3>1. fd[a] \in Inodes BY <2>4 DEF ClaimLocks, LockInv
    <3>2. [holder EXCEPT ![fd[a]] = a] \in [Inodes -> Actors \cup {Nobody}]
      BY <3>1, UpdateType
    <3>3. [fd EXCEPT ![a] = NoInode] \in [Actors -> {NoInode} \cup Inodes]
      BY UpdateType
    <3>4. holder' \in [Inodes -> Actors \cup {Nobody}]
      BY <2>4, <3>1, <3>2, <3>3 DEF ClaimLocks
    <3>5. fd' \in [Actors -> {NoInode} \cup Inodes]
      BY <2>4, <3>1, <3>2, <3>3 DEF ClaimLocks
    <3>6. shares' \in [Claimants -> 0..2]
      BY <2>4, <3>1, <3>2, <3>3 DEF ClaimLocks
    <3>7. opener' \in [Claimants -> {"none", "open", "flock", "held", "failed"}]
      BY <2>4, <3>1, <3>2, <3>3 DEF ClaimLocks
    <3>8. QED BY <2>4, <3>1, <3>2, <3>3, <3>4, <3>5, <3>6, <3>7 DEF ClaimLocks
  <2>5. CASE ReceiveClaim(a)
    <3>1. co' \in [Claimants -> {"idle", "claiming", "kernel", "upload", "ended"}]
      BY <2>5 DEF ReceiveClaim
    <3>2. kernel' \in [Claimants -> {"none", "queued", "running", "ended"}]
      BY <2>5 DEF ReceiveClaim
    <3>3. QED BY <2>5, <3>1, <3>2 DEF ReceiveClaim
  <2>6. CASE DrainClaim(a)
    <3>1. CASE opener[a] = "held"
      <4>1. shares[a] >= 2 BY <2>6, <3>1 DEF DrainClaim, HandOverInv
      <4>2. Release(a, 2) /\ 2 \in 1..2 BY <2>6, <3>1 DEF DrainClaim
      <4>3. /\ shares' \in [Claimants -> 0..2]
            /\ fd' \in [Actors -> {NoInode} \cup Inodes]
            /\ holder' \in [Inodes -> Actors \cup {Nobody}]
        BY <4>1, <4>2, ReleaseType, Zenon
      <4>4. QED BY <2>6, <4>3 DEF DrainClaim
    <3>2. CASE opener[a] # "held" BY <2>6, <3>2 DEF DrainClaim
    <3>3. QED BY <3>1, <3>2
  <2>7. CASE KernelStarts(a) BY <2>7 DEF KernelStarts
  <2>8. CASE KernelEnds(a)
    <3>1. shares[a] >= 1 BY <2>8 DEF KernelEnds, HandOverInv, SharesCovered
    <3>2. Release(a, 1) /\ 1 \in 1..2 BY <2>8 DEF KernelEnds
    <3>3. /\ shares' \in [Claimants -> 0..2]
          /\ fd' \in [Actors -> {NoInode} \cup Inodes]
          /\ holder' \in [Inodes -> Actors \cup {Nobody}]
      BY <3>1, <3>2, ReleaseType, Zenon
    <3>4. QED BY <2>8, <3>3 DEF KernelEnds
  <2>9. CASE KernelAwaited(a) BY <2>9 DEF KernelAwaited
  <2>10. CASE LeaveTask(a) BY <2>10 DEF LeaveTask
  <2>11. CASE ReleaseDue(a)
    <3>1. shares[a] >= 1 BY <2>11 DEF ReleaseDue, HandOverInv, SharesCovered
    <3>2. Release(a, 1) /\ 1 \in 1..2 BY <2>11 DEF ReleaseDue
    <3>3. /\ shares' \in [Claimants -> 0..2]
          /\ fd' \in [Actors -> {NoInode} \cup Inodes]
          /\ holder' \in [Inodes -> Actors \cup {Nobody}]
      BY <3>1, <3>2, ReleaseType, Zenon
    <3>4. due' \in [Claimants -> 0..2] BY <2>11 DEF ReleaseDue
    <3>5. QED BY <2>11, <3>3, <3>4 DEF ReleaseDue
  <2>12. CASE CancelClaim(a) BY <2>12 DEF CancelClaim
  <2>13. CASE CancelKernel(a) BY <2>13 DEF CancelKernel
  <2>14. CASE Crash(a) BY <2>14 DEF Crash, CloseLockFile
  <2>15. QED
    BY <1>1, <2>1, <2>2, <2>3, <2>4, <2>5, <2>6, <2>7, <2>8, <2>9,
       <2>10, <2>11, <2>12, <2>13, <2>14
    DEF Claim, Interrupt
<1>2. ASSUME NEW r \in Removers, Remove(r) PROVE TypeOK'
  <2>1. CASE RemoverOpens(r)
    BY <2>1, OpenType DEF RemoverOpens
  <2>2. CASE RemoverCannotOpen(r) BY <2>2 DEF RemoverCannotOpen
  <2>3. CASE RemoverLocks(r)
    <3>1. CASE holder[fd[r]] = Nobody
      <4>1. fd[r] \in Inodes BY <2>3 DEF RemoverLocks, LockInv
      <4>2. [holder EXCEPT ![fd[r]] = r] \in [Inodes -> Actors \cup {Nobody}]
        BY <4>1, UpdateType
      <4>3. holder' \in [Inodes -> Actors \cup {Nobody}] BY <2>3, <3>1, <4>2 DEF RemoverLocks
      <4>4. QED BY <2>3, <3>1, <4>3, SMTT(30) DEF RemoverLocks
    <3>2. CASE holder[fd[r]] # Nobody BY <2>3, <3>2 DEF RemoverLocks
    <3>3. QED BY <3>1, <3>2
  <2>4. CASE RemoverDeletes(r) BY <2>4 DEF RemoverDeletes
  <2>5. CASE RemoverUnlinks(r) BY <2>5 DEF RemoverUnlinks
  <2>6. CASE RemoverCloses(r) BY <2>6 DEF RemoverCloses, CloseLockFile
  <2>7. QED
    BY <1>2, <2>1, <2>2, <2>3, <2>4, <2>5, <2>6
    DEF Remove
<1>3. CASE UNCHANGED vars BY <1>3 DEF vars, claimVars
<1>4. QED BY <1>1, <1>2, <1>3 DEF Next

\* A flock is dropped only with the last share, and taken only when free.
LEMMA LockStep ==
  ASSUME WorkspaceAssumption, IInv, TypeOK', [Next]_vars
  PROVE  LockInv'
<1> USE DEF IInv, TypeOK, LockInv, HandOverInv, SharesCovered,
            WorkspaceAssumption, claimVars
<1>1. ASSUME NEW a \in Claimants, Claim(a) \/ Interrupt(a) PROVE LockInv'
  <2>1. CASE StartClaim(a) BY <2>1 DEF StartClaim
  <2>2. CASE ClaimOpens(a) BY <2>2 DEF ClaimOpens, OpenLockFile
  <2>3. CASE ClaimCannotOpen(a) BY <2>3 DEF ClaimCannotOpen
  <2>4. CASE ClaimLocks(a) BY <2>4 DEF ClaimLocks
  <2>5. CASE ReceiveClaim(a) BY <2>5 DEF ReceiveClaim
  <2>6. CASE DrainClaim(a)
    <3>1. CASE opener[a] = "held"
      <4>1. shares[a] = 2 BY <2>6, <3>1 DEF DrainClaim
      <4>2. CloseLockFile(a) /\ shares' = [shares EXCEPT ![a] = 0]
        BY <2>6, <3>1, <4>1 DEF DrainClaim, Release
      <4>3. opener' = opener /\ remover' = remover BY <2>6 DEF DrainClaim
      <4>4. \A x \in Actors : x # a => fd'[x] = fd[x] BY <4>2 DEF CloseLockFile
      <4>5. \A i \in Inodes : holder[i] # a => holder'[i] = holder[i]
        BY <4>2 DEF CloseLockFile
      <4>6. shares'[a] = 0 /\ \A b \in Claimants : b # a => shares'[b] = shares[b]
        BY <4>2
      <4>7. QED BY <3>1, <4>3, <4>4, <4>5, <4>6, SMTT(30)
    <3>2. CASE opener[a] # "held" BY <2>6, <3>2 DEF DrainClaim
    <3>3. QED BY <3>1, <3>2
  <2>7. CASE KernelStarts(a) BY <2>7 DEF KernelStarts
  <2>8. CASE KernelEnds(a) BY <2>8 DEF KernelEnds, Release, CloseLockFile
  <2>9. CASE KernelAwaited(a) BY <2>9 DEF KernelAwaited
  <2>10. CASE LeaveTask(a) BY <2>10 DEF LeaveTask
  <2>11. CASE ReleaseDue(a) BY <2>11 DEF ReleaseDue, Release, CloseLockFile
  <2>12. CASE CancelClaim(a) BY <2>12 DEF CancelClaim
  <2>13. CASE CancelKernel(a) BY <2>13 DEF CancelKernel
  <2>14. CASE Crash(a) BY <2>14 DEF Crash, CloseLockFile
  <2>15. QED
    BY <1>1, <2>1, <2>2, <2>3, <2>4, <2>5, <2>6, <2>7, <2>8, <2>9,
       <2>10, <2>11, <2>12, <2>13, <2>14
    DEF Claim, Interrupt
<1>2. ASSUME NEW r \in Removers, Remove(r) PROVE LockInv'
  <2>1. CASE RemoverOpens(r) BY <2>1 DEF RemoverOpens, OpenLockFile
  <2>2. CASE RemoverCannotOpen(r) BY <2>2 DEF RemoverCannotOpen
  <2>3. CASE RemoverLocks(r) BY <2>3 DEF RemoverLocks
  <2>4. CASE RemoverDeletes(r) BY <2>4 DEF RemoverDeletes
  <2>5. CASE RemoverUnlinks(r) BY <2>5 DEF RemoverUnlinks
  <2>6. CASE RemoverCloses(r) BY <2>6 DEF RemoverCloses, CloseLockFile
  <2>7. QED
    BY <1>2, <2>1, <2>2, <2>3, <2>4, <2>5, <2>6
    DEF Remove
<1>3. CASE UNCHANGED vars BY <1>3 DEF vars, claimVars
<1>4. QED BY <1>1, <1>2, <1>3 DEF Next

\* A claim changes hands once.
LEMMA HandOverStep ==
  ASSUME WorkspaceAssumption, IInv, TypeOK', [Next]_vars
  PROVE  HandOverInv'
<1> USE DEF IInv, TypeOK, LockInv, HandOverInv, SharesCovered,
            WorkspaceAssumption, claimVars
<1>1. ASSUME NEW a \in Claimants, Claim(a) \/ Interrupt(a) PROVE HandOverInv'
  <2>1. CASE StartClaim(a) BY <2>1 DEF StartClaim
  <2>2. CASE ClaimOpens(a) BY <2>2 DEF ClaimOpens, OpenLockFile
  <2>3. CASE ClaimCannotOpen(a) BY <2>3 DEF ClaimCannotOpen
  <2>4. CASE ClaimLocks(a) BY <2>4 DEF ClaimLocks
  <2>5. CASE ReceiveClaim(a) BY <2>5 DEF ReceiveClaim
  <2>6. CASE DrainClaim(a) BY <2>6 DEF DrainClaim, Release, CloseLockFile
  <2>7. CASE KernelStarts(a) BY <2>7 DEF KernelStarts
  <2>8. CASE KernelEnds(a) BY <2>8 DEF KernelEnds, Release, CloseLockFile
  <2>9. CASE KernelAwaited(a) BY <2>9 DEF KernelAwaited
  <2>10. CASE LeaveTask(a) BY <2>10 DEF LeaveTask
  <2>11. CASE ReleaseDue(a) BY <2>11 DEF ReleaseDue, Release, CloseLockFile
  <2>12. CASE CancelClaim(a) BY <2>12 DEF CancelClaim
  <2>13. CASE CancelKernel(a) BY <2>13 DEF CancelKernel
  <2>14. CASE Crash(a) BY <2>14 DEF Crash, CloseLockFile
  <2>15. QED
    BY <1>1, <2>1, <2>2, <2>3, <2>4, <2>5, <2>6, <2>7, <2>8, <2>9,
       <2>10, <2>11, <2>12, <2>13, <2>14
    DEF Claim, Interrupt
<1>2. ASSUME NEW r \in Removers, Remove(r) PROVE HandOverInv'
  <2>1. CASE RemoverOpens(r) BY <2>1 DEF RemoverOpens, OpenLockFile
  <2>2. CASE RemoverCannotOpen(r) BY <2>2 DEF RemoverCannotOpen
  <2>3. CASE RemoverLocks(r) BY <2>3 DEF RemoverLocks
  <2>4. CASE RemoverDeletes(r) BY <2>4 DEF RemoverDeletes
  <2>5. CASE RemoverUnlinks(r) BY <2>5 DEF RemoverUnlinks
  <2>6. CASE RemoverCloses(r) BY <2>6 DEF RemoverCloses, CloseLockFile
  <2>7. QED
    BY <1>2, <2>1, <2>2, <2>3, <2>4, <2>5, <2>6
    DEF Remove
<1>3. CASE UNCHANGED vars BY <1>3 DEF vars, claimVars
<1>4. QED BY <1>1, <1>2, <1>3 DEF Next

\* Every share given back was owed by who gave it back.
LEMMA SharesStep ==
  ASSUME WorkspaceAssumption, IInv, TypeOK', [Next]_vars
  PROVE  SharesCovered'
<1> USE DEF IInv, TypeOK, LockInv, HandOverInv, SharesCovered,
            WorkspaceAssumption, claimVars
<1>1. ASSUME NEW a \in Claimants, Claim(a) \/ Interrupt(a) PROVE SharesCovered'
  <2>1. CASE StartClaim(a) BY <2>1 DEF StartClaim
  <2>2. CASE ClaimOpens(a) BY <2>2 DEF ClaimOpens, OpenLockFile
  <2>3. CASE ClaimCannotOpen(a) BY <2>3 DEF ClaimCannotOpen
  <2>4. CASE ClaimLocks(a)
    <3>1. co[a] = "claiming" \/ drain[a] = "waiting" BY <2>4 DEF ClaimLocks
    <3>2. QED BY <2>4, <3>1 DEF ClaimLocks
  <2>5. CASE ReceiveClaim(a) BY <2>5 DEF ReceiveClaim
  <2>6. CASE DrainClaim(a) BY <2>6 DEF DrainClaim, Release, CloseLockFile
  <2>7. CASE KernelStarts(a) BY <2>7 DEF KernelStarts
  <2>8. CASE KernelEnds(a) BY <2>8 DEF KernelEnds, Release, CloseLockFile
  <2>9. CASE KernelAwaited(a) BY <2>9 DEF KernelAwaited
  <2>10. CASE LeaveTask(a) BY <2>10 DEF LeaveTask
  <2>11. CASE ReleaseDue(a) BY <2>11 DEF ReleaseDue, Release, CloseLockFile
  <2>12. CASE CancelClaim(a) BY <2>12 DEF CancelClaim
  <2>13. CASE CancelKernel(a) BY <2>13 DEF CancelKernel
  <2>14. CASE Crash(a) BY <2>14 DEF Crash, CloseLockFile
  <2>15. QED
    BY <1>1, <2>1, <2>2, <2>3, <2>4, <2>5, <2>6, <2>7, <2>8, <2>9,
       <2>10, <2>11, <2>12, <2>13, <2>14
    DEF Claim, Interrupt
<1>2. ASSUME NEW r \in Removers, Remove(r) PROVE SharesCovered'
  <2>1. CASE RemoverOpens(r) BY <2>1 DEF RemoverOpens, OpenLockFile
  <2>2. CASE RemoverCannotOpen(r) BY <2>2 DEF RemoverCannotOpen
  <2>3. CASE RemoverLocks(r) BY <2>3 DEF RemoverLocks
  <2>4. CASE RemoverDeletes(r) BY <2>4 DEF RemoverDeletes
  <2>5. CASE RemoverUnlinks(r) BY <2>5 DEF RemoverUnlinks
  <2>6. CASE RemoverCloses(r) BY <2>6 DEF RemoverCloses, CloseLockFile
  <2>7. QED
    BY <1>2, <2>1, <2>2, <2>3, <2>4, <2>5, <2>6
    DEF Remove
<1>3. CASE UNCHANGED vars BY <1>3 DEF vars, claimVars
<1>4. QED BY <1>1, <1>2, <1>3 DEF Next

\* Nothing is claimed, so everything is accounted for.
LEMMA InitIInv == Init => IInv
<1> SUFFICES ASSUME Init PROVE IInv OBVIOUS
<1>1. TypeOK BY WorkspaceAssumption DEF Init, TypeOK, WorkspaceAssumption
<1>2. LockInv BY DEF Init, LockInv
<1>3. HandOverInv
  <2> SUFFICES ASSUME NEW a \in Claimants PROVE HandOverInv!(a) BY DEF HandOverInv
  <2> QED BY DEF Init
<1>4. SharesCovered BY DEF Init, SharesCovered
<1>5. QED BY <1>1, <1>2, <1>3, <1>4 DEF IInv

\* The accounting is inductive.
LEMMA InductiveIInv == Spec => []IInv
<1>1. IInv /\ [Next]_vars => IInv'
  <2> SUFFICES ASSUME IInv, [Next]_vars PROVE IInv' OBVIOUS
  <2>1. TypeOK' BY WorkspaceAssumption, TypeStep
  <2>2. LockInv' BY <2>1, WorkspaceAssumption, LockStep
  <2>3. HandOverInv' BY <2>1, WorkspaceAssumption, HandOverStep
  <2>4. SharesCovered' BY <2>1, WorkspaceAssumption, SharesStep
  <2>5. QED BY <2>1, <2>2, <2>3, <2>4 DEF IInv
<1>2. QED BY <1>1, InitIInv, PTL DEF Spec

\* For any number of deliveries and removers, every variable keeps its type; in
\* particular no share is given back that was not left, which would make the
\* count negative.
THEOREM TypeCorrect == Spec => []TypeOK
<1>1. IInv => TypeOK BY DEF IInv
<1>2. QED BY <1>1, InductiveIInv, PTL

\* For any number of deliveries and removers, what is left of a claim is
\* exactly what its holders still have to give back.
THEOREM SharesStayCovered == Spec => []SharesCovered
<1>1. IInv => SharesCovered BY DEF IInv
<1>2. QED BY <1>1, InductiveIInv, PTL

\* For any number of deliveries and removers, a running kernel holds the flock
\* of the descriptor it was given.
THEOREM KernelKeepsItsLock == Spec => []KernelHoldsItsLock
<1>1. IInv => KernelHoldsItsLock
  <2> SUFFICES ASSUME IInv, NEW a \in Claimants, kernel[a] = "running"
               PROVE  shares[a] > 0 /\ fd[a] # NoInode /\ holder[fd[a]] = a
    BY DEF KernelHoldsItsLock
  <2>1. opener[a] = "held" /\ co[a] # "claiming" /\ drain[a] # "waiting"
    BY DEF IInv, HandOverInv, TypeOK
  <2>2. shares[a] > 0 BY <2>1 DEF IInv, SharesCovered, TypeOK
  <2>3. QED BY <2>2 DEF IInv, LockInv
<1>2. QED BY <1>1, InductiveIInv, PTL

\* While nothing unlinks the lock file, every descriptor is of the file the
\* path names.
NamedInv == \A a \in Claimants : fd[a] # NoInode => fd[a] = path

\* Without removers an open creates the file only while nobody has it open.
LEMMA NamedStep ==
  ASSUME WorkspaceAssumption, Removers = {}, IInv, NamedInv, [Next]_vars
  PROVE  NamedInv'
<1> USE DEF NamedInv
<1> TypeOK BY DEF IInv
<1>1. ASSUME NEW a \in Claimants, ClaimOpens(a) PROVE NamedInv'
  <2>1. \A b \in Claimants : b # a => fd'[b] = fd[b]
    BY <1>1 DEF ClaimOpens, OpenLockFile, TypeOK
  <2>2. fd'[a] = path' BY <1>1 DEF ClaimOpens, OpenLockFile, TypeOK
  <2>3. path' = path \/ path = NoInode BY <1>1 DEF ClaimOpens, OpenLockFile
  <2>4. QED BY <2>1, <2>2, <2>3
<1>2. ASSUME NEW a \in Claimants, Claim(a) \/ Interrupt(a), ~ClaimOpens(a)
      PROVE  NamedInv'
  <2>1. path' = path
    BY <1>2 DEF Claim, Interrupt, StartClaim, ClaimCannotOpen, ClaimLocks, ReceiveClaim,
                DrainClaim, KernelStarts, KernelEnds, KernelAwaited, LeaveTask,
                ReleaseDue, CancelClaim, CancelKernel, Crash
  <2>2. fd' = fd \/ fd' = [fd EXCEPT ![a] = NoInode]
    BY <1>2 DEF Claim, Interrupt, StartClaim, ClaimCannotOpen, ClaimLocks, ReceiveClaim,
                DrainClaim, KernelStarts, KernelEnds, KernelAwaited, LeaveTask,
                ReleaseDue, CancelClaim, CancelKernel, Crash, Release, CloseLockFile
  <2>3. QED BY <2>1, <2>2 DEF TypeOK
<1>3. CASE UNCHANGED vars BY <1>3 DEF vars
<1>4. QED BY <1>1, <1>2, <1>3 DEF Next

\* For any number of deliveries: while no remover unlinks the lock file, the
\* lock excludes, two kernels never run in the workspace at once.
THEOREM KernelsStayExclusive ==
  ASSUME Removers = {} PROVE Spec => []KernelsExclusive
<1>1. Init => NamedInv BY DEF Init, NamedInv
<1>2. IInv /\ NamedInv /\ [Next]_vars => NamedInv' BY WorkspaceAssumption, NamedStep
<1>3. IInv /\ KernelHoldsItsLock /\ NamedInv => KernelsExclusive
  BY DEF KernelHoldsItsLock, NamedInv, KernelsExclusive
<1>4. QED BY <1>1, <1>2, <1>3, InductiveIInv, KernelKeepsItsLock, PTL DEF Spec

\* Every name and every descriptor is of a lock file that was created.
CreatedInv ==
  /\ path \in 0..created
  /\ \A a \in Actors : fd[a] \in 0..created

\* Only an open creates, and it counts the file it creates.
LEMMA CreatedStep ==
  ASSUME WorkspaceAssumption, IInv, CreatedInv, [Next]_vars
  PROVE  CreatedInv'
<1> USE DEF CreatedInv
<1> TypeOK BY DEF IInv
<1>1. ASSUME NEW a \in Actors, OpenLockFile(a) PROVE CreatedInv'
  <2>1. \A b \in Actors : fd'[b] = fd[b] \/ fd'[b] = path'
    BY <1>1 DEF OpenLockFile, TypeOK
  <2>2. path' \in 0..created' /\ created' \in created..MaxInode
    BY <1>1, WorkspaceAssumption DEF OpenLockFile, TypeOK, WorkspaceAssumption
  <2>3. QED BY <2>1, <2>2 DEF TypeOK
<1>2. ASSUME created' = created, path' \in {path, NoInode},
             \A b \in Actors : fd'[b] \in {fd[b], NoInode}
      PROVE  CreatedInv'
  <2>1. created \in Nat BY WorkspaceAssumption DEF TypeOK, WorkspaceAssumption
  <2>2. path' \in 0..created' BY <1>2, <2>1 DEF NoInode
  <2>3. ASSUME NEW b \in Actors PROVE fd'[b] \in 0..created'
    <3>1. fd[b] \in 0..created OBVIOUS
    <3>2. fd'[b] = fd[b] \/ fd'[b] = 0 BY <1>2 DEF NoInode
    <3>3. QED BY <1>2, <2>1, <3>1, <3>2
  <2>4. QED BY <2>2, <2>3
<1>3. ASSUME NEW a \in Claimants, Claim(a) \/ Interrupt(a), ~ClaimOpens(a)
      PROVE  CreatedInv'
  <2>1. created' = created /\ path' = path
    BY <1>3 DEF Claim, Interrupt, StartClaim, ClaimCannotOpen, ClaimLocks, ReceiveClaim,
                DrainClaim, KernelStarts, KernelEnds, KernelAwaited, LeaveTask,
                ReleaseDue, CancelClaim, CancelKernel, Crash
  <2>2. fd' = fd \/ fd' = [fd EXCEPT ![a] = NoInode]
    BY <1>3 DEF Claim, Interrupt, StartClaim, ClaimCannotOpen, ClaimLocks, ReceiveClaim,
                DrainClaim, KernelStarts, KernelEnds, KernelAwaited, LeaveTask,
                ReleaseDue, CancelClaim, CancelKernel, Crash, Release, CloseLockFile
  <2>3. \A b \in Actors : fd'[b] \in {fd[b], NoInode} BY <2>2 DEF TypeOK
  <2>4. QED BY <1>2, <2>1, <2>3
<1>4. ASSUME NEW r \in Removers, Remove(r), ~RemoverOpens(r) PROVE CreatedInv'
  <2>1. created' = created /\ path' \in {path, NoInode}
    BY <1>4 DEF Remove, RemoverCannotOpen, RemoverLocks, RemoverDeletes,
                RemoverUnlinks, RemoverCloses
  <2>2. fd' = fd \/ fd' = [fd EXCEPT ![r] = NoInode]
    BY <1>4 DEF Remove, RemoverCannotOpen, RemoverLocks, RemoverDeletes,
                RemoverUnlinks, RemoverCloses, CloseLockFile
  <2>3. \A b \in Actors : fd'[b] \in {fd[b], NoInode} BY <2>2 DEF TypeOK
  <2>4. QED BY <1>2, <2>1, <2>3
<1>5. CASE UNCHANGED vars BY <1>5 DEF vars
<1>6. Claimants \subseteq Actors /\ Removers \subseteq Actors BY DEF Actors
<1>7. QED BY <1>1, <1>3, <1>4, <1>5, <1>6 DEF Next, ClaimOpens, RemoverOpens

\* For any number of deliveries and removers, at any time: kernels run together
\* in the workspace only after a lock file was unlinked and created again.
THEOREM OneLockFileStaysExclusive == Spec => []OneLockFileExcludes
<1>1. Init => CreatedInv BY DEF Init, CreatedInv, NoInode, Actors
<1>2. IInv /\ CreatedInv /\ [Next]_vars => CreatedInv' BY WorkspaceAssumption, CreatedStep
<1>3. IInv /\ KernelHoldsItsLock /\ CreatedInv => OneLockFileExcludes
  <2> SUFFICES ASSUME IInv, KernelHoldsItsLock, CreatedInv, created <= 1,
                      NEW a \in Claimants, NEW b \in Claimants,
                      kernel[a] = "running", kernel[b] = "running"
               PROVE  a = b
    BY DEF OneLockFileExcludes, KernelsExclusive
  <2>1. fd[a] = 1 /\ fd[b] = 1
    BY DEF CreatedInv, KernelHoldsItsLock, NoInode, Actors, IInv, TypeOK
  <2>2. QED BY <2>1 DEF KernelHoldsItsLock
<1>4. QED BY <1>1, <1>2, <1>3, InductiveIInv, KernelKeepsItsLock, PTL DEF Spec

-----------------------------------------------------------------------------
(* The claim protocol *)

\* One actor x at a time moves: it takes a free lock, enters it, leaves it, or
\* gives it back with no kernel on it.
LEMMA LockMoves ==
  ASSUME NEW i \in Inodes, NEW x \in Actors,
         HoldersOf(i)' \ {x} = HoldersOf(i) \ {x},
         KernelsOn(i)' \ {x} = KernelsOn(i) \ {x},
         \/ /\ x \in HoldersOf(i)' <=> x \in HoldersOf(i)
            /\ x \in KernelsOn(i)' <=> x \in KernelsOn(i)
         \/ /\ HoldersOf(i) = {} /\ x \in HoldersOf(i)'
            /\ x \in KernelsOn(i)' <=> x \in KernelsOn(i)
         \/ x \in HoldersOf(i) /\ x \in HoldersOf(i)' /\ x \in KernelsOn(i)'
         \/ /\ x \in KernelsOn(i) /\ x \notin KernelsOn(i)'
            /\ x \in HoldersOf(i)' => x \in HoldersOf(i)
         \/ /\ x \in HoldersOf(i) /\ x \notin KernelsOn(i)
            /\ x \notin HoldersOf(i)' /\ x \notin KernelsOn(i)'
  PROVE  Lock(i)!Next \/ UNCHANGED <<HoldersOf(i), KernelsOn(i)>>
<1> DEFINE H == HoldersOf(i)  K == KernelsOn(i)
           G == HoldersOf(i)' L == KernelsOn(i)'
<1>1. /\ \A y : y # x => (y \in G <=> y \in H)
      /\ \A y : y # x => (y \in L <=> y \in K)
  OBVIOUS
<1>2. CASE (x \in G <=> x \in H) /\ (x \in L <=> x \in K)
  <2>1. G = H /\ L = K BY <1>1, <1>2
  <2>2. QED BY <2>1
<1>3. CASE H = {} /\ x \in G /\ (x \in L <=> x \in K)
  <2>1. G = {x} /\ L = K BY <1>1, <1>3
  <2>2. Lock(i)!Take(x) BY <1>3, <2>1 DEF Lock!Take
  <2>3. QED BY <2>2 DEF Lock!Next
<1>4. CASE x \in H /\ x \in G /\ x \in L
  <2>1. G = H /\ L = K \cup {x} BY <1>1, <1>4
  <2>2. Lock(i)!Enter(x) BY <1>4, <2>1 DEF Lock!Enter
  <2>3. QED BY <2>2 DEF Lock!Next
<1>5. CASE x \in K /\ x \notin L /\ (x \in G => x \in H)
  <2>1. L = K \ {x} BY <1>1, <1>5
  <2>2. G = H \/ G = H \ {x} BY <1>1, <1>5
  <2>3. Lock(i)!Leave(x) BY <1>5, <2>1, <2>2 DEF Lock!Leave
  <2>4. QED BY <2>3 DEF Lock!Next
<1>6. CASE x \in H /\ x \notin K /\ x \notin G /\ x \notin L
  <2>1. L = K /\ G = H \ {x} BY <1>1, <1>6
  <2>2. Lock(i)!Give(x) BY <1>6, <2>1 DEF Lock!Give
  <2>3. QED BY <2>2 DEF Lock!Next
<1>7. QED BY <1>2, <1>3, <1>4, <1>5, <1>6

\* Closing gives the lock back, where no kernel of the actor goes on without it.
LEMMA CloseMoves ==
  ASSUME WorkspaceAssumption, TypeOK, NEW i \in Inodes, NEW x \in Actors,
         CloseLockFile(x),
         x \in Claimants => kernel'[x] # "running",
         \A y \in Claimants : y # x => kernel'[y] = kernel[y]
  PROVE  Lock(i)!Next \/ UNCHANGED <<HoldersOf(i), KernelsOn(i)>>
<1>1. /\ \A y \in Actors : y # x => (holder'[i] = y <=> holder[i] = y)
      /\ holder'[i] # x
  BY DEF CloseLockFile, TypeOK, WorkspaceAssumption
<1>2. \A y \in Actors : y # x => fd'[y] = fd[y] BY DEF CloseLockFile, TypeOK
<1>3. HoldersOf(i)' \ {x} = HoldersOf(i) \ {x} /\ x \notin HoldersOf(i)'
  BY <1>1 DEF HoldersOf
<1>4. KernelsOn(i)' \ {x} = KernelsOn(i) \ {x} /\ x \notin KernelsOn(i)'
  BY <1>2 DEF KernelsOn, WorkspaceAssumption
<1>5. QED BY <1>3, <1>4, LockMoves

\* A step that leaves the flocks alone, and every running kernel its
\* descriptor, is a stutter of the protocol.
LEMMA LockStutters ==
  ASSUME NEW i \in Inodes, UNCHANGED holder,
         \A a \in Claimants : /\ kernel'[a] = "running" <=> kernel[a] = "running"
                              /\ kernel[a] = "running" => fd'[a] = fd[a]
  PROVE  UNCHANGED <<HoldersOf(i), KernelsOn(i)>>
<1>1. HoldersOf(i)' = HoldersOf(i) BY DEF HoldersOf
<1>2. KernelsOn(i)' = KernelsOn(i) BY DEF KernelsOn
<1>3. QED BY <1>1, <1>2

\* A flock taken is a claim taken, and the holder's kernels stay where they are.
LEMMA TakeMoves ==
  ASSUME WorkspaceAssumption, TypeOK, NEW i \in Inodes, NEW x \in Actors,
         fd[x] \in Inodes, holder[fd[x]] = Nobody,
         holder' = [holder EXCEPT ![fd[x]] = x], UNCHANGED <<fd, kernel>>
  PROVE  Lock(i)!Next \/ UNCHANGED <<HoldersOf(i), KernelsOn(i)>>
<1>1. KernelsOn(i)' = KernelsOn(i) BY DEF KernelsOn
<1>2. CASE i = fd[x]
  <2>1. holder'[i] = x /\ holder[i] = Nobody BY <1>2 DEF TypeOK
  <2>2. HoldersOf(i) = {} BY <2>1 DEF HoldersOf, WorkspaceAssumption
  <2>3. HoldersOf(i)' = {x} BY <2>1 DEF HoldersOf
  <2>4. Lock(i)!Take(x) BY <1>1, <2>2, <2>3 DEF Lock!Take
  <2>5. QED BY <2>4 DEF Lock!Next
<1>3. CASE i # fd[x]
  <2>1. holder'[i] = holder[i] BY <1>3 DEF TypeOK
  <2>2. HoldersOf(i)' = HoldersOf(i) BY <2>1 DEF HoldersOf
  <2>3. QED BY <1>1, <2>2
<1>4. QED BY <1>2, <1>3

\* Every step is, for each lock file, a step of the protocol or a stutter.
LEMMA ClaimStep ==
  ASSUME WorkspaceAssumption, IInv, [Next]_vars, NEW i \in Inodes
  PROVE  Lock(i)!Next \/ UNCHANGED <<HoldersOf(i), KernelsOn(i)>>
<1> DEFINE Goal == Lock(i)!Next \/ UNCHANGED <<HoldersOf(i), KernelsOn(i)>>
<1> SUFFICES Goal OBVIOUS
<1> HIDE DEF Goal
<1>0. TypeOK /\ LockInv /\ HandOverInv /\ SharesCovered BY DEF IInv
<1>1. ASSUME NEW a \in Claimants, Claim(a) \/ Interrupt(a) PROVE Goal
  <2>1. ASSUME UNCHANGED holder,
               \A b \in Claimants : /\ kernel'[b] = "running" <=> kernel[b] = "running"
                                    /\ kernel[b] = "running" => fd'[b] = fd[b]
        PROVE  Goal
    BY <2>1, LockStutters DEF Goal
  <2>2. ASSUME CloseLockFile(a), kernel'[a] # "running",
               \A b \in Claimants : b # a => kernel'[b] = kernel[b]
        PROVE  Goal
    BY <1>0, <2>2, CloseMoves, WorkspaceAssumption DEF Goal
  <2>3. CASE StartClaim(a) BY <2>1, <2>3 DEF StartClaim
  <2>4. CASE ClaimOpens(a)
    <3>1. kernel[a] # "running" BY <1>0, <2>4 DEF ClaimOpens, HandOverInv
    <3>2. UNCHANGED <<holder, kernel>> BY <2>4 DEF ClaimOpens
    <3>3. \A b \in Claimants : b # a => fd'[b] = fd[b]
      BY <1>0, <2>4 DEF ClaimOpens, OpenLockFile, TypeOK
    <3>4. QED BY <2>1, <3>1, <3>2, <3>3
  <2>5. CASE ClaimCannotOpen(a) BY <2>1, <2>5 DEF ClaimCannotOpen
  <2>6. CASE ClaimLocks(a)
    <3>1. fd[a] \in Inodes /\ a \in Actors
      BY <1>0, <2>6 DEF ClaimLocks, LockInv, TypeOK
    <3>2. CASE holder[fd[a]] = Nobody /\ holder' = [holder EXCEPT ![fd[a]] = a]
                 /\ UNCHANGED fd
      <4>1. UNCHANGED <<fd, kernel>> BY <2>6, <3>2 DEF ClaimLocks
      <4>2. QED BY <1>0, <3>1, <3>2, <4>1, TakeMoves, WorkspaceAssumption DEF Goal
    <3>3. CASE fd' = [fd EXCEPT ![a] = NoInode] /\ UNCHANGED holder
      <4>1. kernel[a] # "running" BY <1>0, <2>6 DEF ClaimLocks, HandOverInv
      <4>2. UNCHANGED kernel BY <2>6 DEF ClaimLocks
      <4>3. \A b \in Claimants : b # a => fd'[b] = fd[b]
        BY <1>0, <3>3 DEF TypeOK
      <4>4. QED BY <2>1, <3>3, <4>1, <4>2, <4>3
    <3>4. QED BY <2>6, <3>2, <3>3 DEF ClaimLocks
  <2>7. CASE ReceiveClaim(a)
    <3>1. kernel[a] = "none" BY <1>0, <2>7 DEF ReceiveClaim, HandOverInv
    <3>2. UNCHANGED <<holder, fd>> BY <2>7 DEF ReceiveClaim
    <3>3. \A b \in Claimants : kernel'[b] = "running" <=> kernel[b] = "running"
      BY <1>0, <2>7, <3>1 DEF ReceiveClaim, TypeOK
    <3>4. QED BY <2>1, <3>2, <3>3
  <2>8. CASE DrainClaim(a)
    <3>1. kernel[a] = "none" /\ UNCHANGED kernel
      BY <1>0, <2>8 DEF DrainClaim, HandOverInv
    <3>2. CASE opener[a] = "held"
      <4>1. shares[a] = 2 BY <1>0, <2>8, <3>2 DEF DrainClaim, HandOverInv
      <4>2. CloseLockFile(a) BY <2>8, <3>2, <4>1 DEF DrainClaim, Release
      <4>3. QED BY <2>2, <3>1, <4>2
    <3>3. CASE opener[a] # "held"
      <4>1. UNCHANGED <<fd, holder>> BY <2>8, <3>3 DEF DrainClaim
      <4>2. QED BY <2>1, <3>1, <4>1
    <3>4. QED BY <3>2, <3>3
  <2>9. CASE KernelStarts(a)
    <3>1. UNCHANGED <<holder, fd>> BY <2>9 DEF KernelStarts
    <3>2. CASE a \in cancelled
      <4>1. \A b \in Claimants : kernel'[b] = "running" <=> kernel[b] = "running"
        BY <1>0, <2>9, <3>2 DEF KernelStarts, TypeOK
      <4>2. QED BY <2>1, <3>1, <4>1
    <3>3. CASE a \notin cancelled
      <4>1. co[a] = "kernel" /\ opener[a] = "held" /\ drain[a] = "none"
        BY <1>0, <2>9, <3>3 DEF KernelStarts, HandOverInv
      <4>2. shares[a] = 2 BY <1>0, <2>9, <4>1 DEF KernelStarts, SharesCovered
      <4>3. fd[a] # NoInode /\ holder[fd[a]] = a BY <1>0, <4>2 DEF LockInv
      <4>4. /\ kernel'[a] = "running" /\ kernel[a] # "running"
            /\ \A b \in Claimants : b # a => kernel'[b] = kernel[b]
        BY <1>0, <2>9, <3>3 DEF KernelStarts, TypeOK
      <4>5. HoldersOf(i)' = HoldersOf(i) BY <3>1 DEF HoldersOf
      <4>6. KernelsOn(i)' \ {a} = KernelsOn(i) \ {a} BY <3>1, <4>4 DEF KernelsOn
      <4>7. CASE i = fd[a]
        <5>1. a \in HoldersOf(i) BY <4>3, <4>7 DEF HoldersOf
        <5>2. a \in KernelsOn(i)' BY <3>1, <4>4, <4>7 DEF KernelsOn
        <5>3. a \in Actors OBVIOUS
        <5>4. QED BY <4>5, <4>6, <5>1, <5>2, <5>3, LockMoves DEF Goal
      <4>8. CASE i # fd[a]
        <5>1. a \notin KernelsOn(i) /\ a \notin KernelsOn(i)'
          BY <3>1, <4>3, <4>8 DEF KernelsOn
        <5>2. KernelsOn(i)' = KernelsOn(i) BY <4>6, <5>1
        <5>3. QED BY <4>5, <5>2 DEF Goal
      <4>9. QED BY <4>7, <4>8
    <3>4. QED BY <3>2, <3>3
  <2>10. CASE KernelEnds(a)
    <3>1. /\ kernel[a] = "running" /\ kernel'[a] = "ended"
          /\ \A b \in Claimants : b # a => kernel'[b] = kernel[b]
      BY <1>0, <2>10 DEF KernelEnds, TypeOK
    <3>2. CASE CloseLockFile(a) BY <2>2, <3>1, <3>2
    <3>3. CASE UNCHANGED <<fd, holder>>
      <4>1. HoldersOf(i)' = HoldersOf(i) BY <3>3 DEF HoldersOf
      <4>2. KernelsOn(i)' \ {a} = KernelsOn(i) \ {a} /\ a \notin KernelsOn(i)'
        BY <3>1, <3>3 DEF KernelsOn
      <4>3. a \in Actors OBVIOUS
      <4>4. QED BY <4>1, <4>2, <4>3, LockMoves DEF Goal
    <3>4. QED BY <2>10, <3>2, <3>3 DEF KernelEnds, Release
  <2>11. CASE KernelAwaited(a) BY <2>1, <2>11 DEF KernelAwaited
  <2>12. CASE LeaveTask(a) BY <2>1, <2>12 DEF LeaveTask
  <2>13. CASE ReleaseDue(a)
    <3>1. /\ opener[a] = "held" /\ co[a] = "ended" /\ drain[a] # "waiting"
          /\ UNCHANGED kernel
      BY <1>0, <2>13 DEF ReleaseDue, HandOverInv, TypeOK
    <3>2. shares[a] = (IF kernel[a] = "running" THEN 1 ELSE 0) + due[a]
      BY <1>0, <3>1 DEF SharesCovered, TypeOK
    <3>3. due[a] \in 1..2 BY <1>0, <2>13 DEF ReleaseDue, TypeOK
    <3>4. CASE shares[a] > 1
      <4>1. UNCHANGED <<fd, holder>> BY <2>13, <3>4 DEF ReleaseDue, Release
      <4>2. QED BY <2>1, <3>1, <4>1
    <3>5. CASE ~(shares[a] > 1)
      <4>1. CloseLockFile(a) BY <2>13, <3>5 DEF ReleaseDue, Release
      <4>2. kernel[a] # "running" BY <3>2, <3>3, <3>5
      <4>3. QED BY <2>2, <3>1, <4>1, <4>2
    <3>6. QED BY <3>4, <3>5
  <2>14. CASE CancelClaim(a) BY <2>1, <2>14 DEF CancelClaim
  <2>15. CASE CancelKernel(a) BY <2>1, <2>15 DEF CancelKernel
  <2>16. CASE Crash(a)
    <3>1. CloseLockFile(a) BY <2>16 DEF Crash
    <3>2. kernel'[a] # "running" /\ \A b \in Claimants : b # a => kernel'[b] = kernel[b]
      BY <1>0, <2>16 DEF Crash, TypeOK
    <3>3. QED BY <2>2, <3>1, <3>2
  <2>17. QED
    BY <1>1, <2>3, <2>4, <2>5, <2>6, <2>7, <2>8, <2>9, <2>10, <2>11, <2>12,
       <2>13, <2>14, <2>15, <2>16
    DEF Claim, Interrupt
<1>2. ASSUME NEW r \in Removers, Remove(r) PROVE Goal
  <2>1. UNCHANGED kernel /\ r \in Actors /\ r \notin Claimants
    BY <1>2, WorkspaceAssumption
    DEF Remove, RemoverOpens, RemoverCannotOpen, RemoverLocks, RemoverDeletes,
        RemoverUnlinks, RemoverCloses, claimVars, WorkspaceAssumption
  <2>2. CASE RemoverCloses(r)
    BY <1>0, <2>1, <2>2, CloseMoves, WorkspaceAssumption DEF RemoverCloses, Goal
  <2>3. CASE RemoverLocks(r)
    <3>1. fd[r] \in Inodes /\ UNCHANGED fd
      BY <1>0, <2>1, <2>3 DEF RemoverLocks, LockInv, TypeOK
    <3>2. CASE holder[fd[r]] = Nobody
      BY <1>0, <2>1, <2>3, <3>1, <3>2, TakeMoves, WorkspaceAssumption
      DEF RemoverLocks, Goal
    <3>3. CASE holder[fd[r]] # Nobody
      BY <2>1, <2>3, <3>1, <3>3, LockStutters DEF RemoverLocks, Goal
    <3>4. QED BY <3>2, <3>3
  <2>4. CASE RemoverOpens(r)
    <3>1. UNCHANGED holder BY <2>4 DEF RemoverOpens
    <3>2. \A a \in Claimants : fd'[a] = fd[a]
      BY <1>0, <2>1, <2>4 DEF RemoverOpens, OpenLockFile, TypeOK
    <3>3. QED BY <2>1, <3>1, <3>2, LockStutters DEF Goal
  <2>5. CASE RemoverCannotOpen(r) \/ RemoverDeletes(r) \/ RemoverUnlinks(r)
    <3>1. UNCHANGED <<holder, fd>>
      BY <2>5 DEF RemoverCannotOpen, RemoverDeletes, RemoverUnlinks
    <3>2. QED BY <2>1, <3>1, LockStutters DEF Goal
  <2>6. QED BY <1>2, <2>2, <2>3, <2>4, <2>5 DEF Remove
<1>3. CASE UNCHANGED vars
  BY <1>3, LockStutters DEF vars, claimVars, Goal
<1>4. QED BY <1>1, <1>2, <1>3 DEF Next

\* Nobody holds a lock file that does not exist, and no kernel runs.
LEMMA ClaimInit == ASSUME Init, NEW i \in Inodes PROVE Lock(i)!Init
BY WorkspaceAssumption DEF Init, Lock!Init, HoldersOf, KernelsOn, WorkspaceAssumption

\* For any number of deliveries, removers and lock files, on each lock file the
\* system calls and the count of shares implement the claim protocol.
THEOREM ClaimRefinement == ASSUME NEW i \in Inodes PROVE Spec => Lock(i)!Spec
<1>1. Init => Lock(i)!Init BY ClaimInit
<1>2. IInv /\ [Next]_vars => [Lock(i)!Next]_<<HoldersOf(i), KernelsOn(i)>>
  BY ClaimStep, WorkspaceAssumption
<1>3. QED
  BY <1>1, <1>2, InductiveIInv, PTL DEF Spec, Lock!Spec

\* The protocol alone gives exclusion: whatever implements it has one holder at
\* a time, and no kernel runs outside a claim.
THEOREM ClaimExcludes == ASSUME NEW i \in Inodes PROVE Lock(i)!Spec => []Lock(i)!Exclusive
<1>1. Lock(i)!Init => Lock(i)!Exclusive BY DEF Lock!Init, Lock!Exclusive
<1>2. ASSUME Lock(i)!Exclusive, [Lock(i)!Next]_<<HoldersOf(i), KernelsOn(i)>>
      PROVE  Lock(i)!Exclusive'
  <2>1. CASE UNCHANGED <<HoldersOf(i), KernelsOn(i)>> BY <1>2, <2>1 DEF Lock!Exclusive
  <2>2. ASSUME NEW p \in Actors, Lock(i)!Take(p) PROVE Lock(i)!Exclusive'
    BY <1>2, <2>2 DEF Lock!Exclusive, Lock!Take
  <2>3. ASSUME NEW p \in Actors, Lock(i)!Enter(p) PROVE Lock(i)!Exclusive'
    BY <1>2, <2>3 DEF Lock!Exclusive, Lock!Enter
  <2>4. ASSUME NEW p \in Actors, Lock(i)!Leave(p) PROVE Lock(i)!Exclusive'
    BY <1>2, <2>4 DEF Lock!Exclusive, Lock!Leave
  <2>5. ASSUME NEW p \in Actors, Lock(i)!Give(p) PROVE Lock(i)!Exclusive'
    BY <1>2, <2>5 DEF Lock!Exclusive, Lock!Give
  <2>6. QED BY <1>2, <2>1, <2>2, <2>3, <2>4, <2>5 DEF Lock!Next
<1>3. QED BY <1>1, <1>2, PTL DEF Lock!Spec

\* The refinement of all lock files at once.
THEOREM ClaimImplemented == Spec => ImplementsClaim
<1>1. Init => \A i \in Inodes : Lock(i)!Init BY ClaimInit
<1>2. IInv /\ [Next]_vars
        => [\A i \in Inodes :
              Lock(i)!Next \/ UNCHANGED <<HoldersOf(i), KernelsOn(i)>>]_vars
  BY ClaimStep, WorkspaceAssumption
<1>3. QED
  BY <1>1, <1>2, InductiveIInv, PTL DEF Spec, ImplementsClaim
=============================================================================
