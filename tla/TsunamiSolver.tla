---------------------------- MODULE TsunamiSolver ----------------------------
(***************************************************************************)
(* run_tsunami (tsunami.py): the leap-frog loop over six swapped buffers,  *)
(* whose row loops numba runs in parallel, with a checkpoint every few     *)
(* steps from which a run after a crash goes on.                           *)
(*                                                                         *)
(* Numbers are integers wrapped into -Half..Half in place of float32.      *)
(* What is checked is that every run applies the same operations to the    *)
(* same operands in the same order, not their accuracy.                    *)
(***************************************************************************)
EXTENDS Integers, Sequences

CONSTANTS
  IA, JA,      \* the grid's size
  KE,          \* solver steps
  KD,          \* steps between two samples
  CheckpointInterval,
  Depth,       \* bathy/grid_a.grd, positive in water
  Deform,      \* deform_a.grd on its window
  Gauges,      \* tidal.dat
  RX, CJ,      \* _prelim's latitude factors of each column
  RY,          \* DT / (RT * DA)
  GG,          \* gravity
  Half,        \* numbers are in -Half..Half
  Flush,       \* values below this are flushed to zero
  Floor,       \* least depth of water
  MaxCrashes

Cells == (0..IA-1) \X (0..JA-1)
Up(c) == <<c[1] + 1, c[2]>>
Down(c) == <<c[1] - 1, c[2]>>
Right(c) == <<c[1], c[2] + 1>>
Left(c) == <<c[1], c[2] - 1>>

ASSUME SolverAssumption ==
  /\ IA \in Nat /\ JA \in Nat /\ IA > 2 /\ JA > 2
  /\ KE \in Nat /\ KD \in Nat \ {0} /\ CheckpointInterval \in Nat \ {0}
  /\ Depth \in [Cells -> Int]
  /\ DOMAIN Deform \subseteq Cells
  /\ Gauges \subseteq Cells
  /\ RX \in [0..JA-1 -> Int] /\ CJ \in [0..JA-1 -> Int] /\ RY \in Int
  /\ Half \in Nat /\ Flush \in Nat /\ Floor \in Nat /\ GG \in Nat
  /\ MaxCrashes \in Nat
  \* _bout divides by the square root of an edge cell's depth unless it is land.
  /\ \A c \in Cells : c[1] \in {1, IA-1} \/ c[2] \in {1, JA-1} => Depth[c] # 0

-----------------------------------------------------------------------------
(* Arithmetic *)

Num(x) == ((x + Half) % (2 * Half + 1)) - Half
Abs(x) == IF x < 0 THEN -x ELSE x
Larger(a, b) == IF a > b THEN a ELSE b
Sqrt(x) == CHOOSE r \in 0..x : r * r <= x /\ x < (r + 1) * (r + 1)
Flushed(x) == IF Abs(Num(x)) < Flush THEN 0 ELSE Num(x)

\* _read_grid_a's floor, _hmn's staggered depths, _prelim's momentum factors.
h == [c \in Cells |-> IF Depth[c] > 0 /\ Depth[c] < Floor THEN Floor ELSE Depth[c]]
hm == [c \in Cells |-> IF c[1] = IA-1 THEN h[c] ELSE (h[c] + h[Up(c)]) \div 2]
hn == [c \in Cells |-> IF c[2] = JA-1 THEN h[c] ELSE (h[c] + h[Right(c)]) \div 2]
xx == [c \in Cells |-> Num(RX[c[2]] * GG * hm[c])]
yy == [c \in Cells |-> Num(RY * GG * hn[c])]

-----------------------------------------------------------------------------
(* The kernels: the value each gives a cell, and the cells it loops over. *)

mass(z1, m1, n1, c) ==
  IF h[c] > 0
  THEN Flushed(z1[c] - RX[c[2]] * (m1[c] - m1[Down(c)])
                     - RX[c[2]] * (n1[c] * CJ[c[2]] - n1[Left(c)] * CJ[c[2] - 1]))
  ELSE 0

\* The outgoing wave: the speed along the edge and across it over the celerity,
\* with the sign of the flow out of the grid.
Radiated(c, along, across, inward) ==
  LET u == Abs(along) \div 2
      z == Sqrt(u * u + across * across) \div Sqrt(GG * h[c])
  IN IF inward THEN -z ELSE z

bout_j(c, m, n) ==
  LET edge == IF c[2] = 1 THEN n[c] ELSE n[Left(c)]
  IN Radiated(c, m[c] + m[Down(c)], edge, IF c[2] = 1 THEN edge > 0 ELSE edge < 0)

bout_i(c, m, n) ==
  LET edge == IF c[1] = 1 THEN m[c] ELSE m[Down(c)]
  IN Radiated(c, n[c] + n[Left(c)], edge, IF c[1] = 1 THEN edge > 0 ELSE edge < 0)

mmnt_m(z2, m1, c) ==
  IF h[c] > 0 /\ h[Up(c)] > 0 THEN Flushed(m1[c] - xx[c] * (z2[Up(c)] - z2[c])) ELSE 0

mmnt_n(z2, n1, c) ==
  IF h[c] > 0 /\ h[Right(c)] > 0 THEN Flushed(n1[c] - yy[c] * (z2[Right(c)] - z2[c])) ELSE 0

\* The parallel loops of one step, and what follows each of them.  _bout passes
\* over the two J edges, then over the two I edges, which therefore own the
\* corners.
After == [mass |-> "bout_j1", bout_j1 |-> "bout_j2", bout_j2 |-> "bout_i1",
          bout_i1 |-> "bout_i2", bout_i2 |-> "mmnt_m", mmnt_m |-> "mmnt_n",
          mmnt_n |-> "sample"]
LoopNames == DOMAIN After

Region(loop) ==
  CASE loop = "mass"    -> (1..IA-1) \X (1..JA-1)
    [] loop = "bout_j1" -> {c \in (1..IA-2) \X {1} : h[c] >= 0}
    [] loop = "bout_j2" -> {c \in (1..IA-2) \X {JA-1} : h[c] >= 0}
    [] loop = "bout_i1" -> {c \in {1} \X (1..JA-2) : h[c] >= 0}
    [] loop = "bout_i2" -> {c \in {IA-1} \X (1..JA-2) : h[c] >= 0}
    [] loop = "mmnt_m"  -> (1..IA-2) \X (1..JA-1)
    [] OTHER            -> (1..IA-1) \X (1..JA-2)

-----------------------------------------------------------------------------
(* The reference: k steps from the deformation, each loop done at once, with
   nothing interrupted. *)

Zero == [c \in Cells |-> 0]

AtRest ==
  [z1 |-> [c \in Cells |-> IF c \in DOMAIN Deform THEN Deform[c] ELSE 0],
   z2 |-> Zero, m1 |-> Zero, m2 |-> Zero, n1 |-> Zero, n2 |-> Zero,
   zmxa |-> Zero, rows |-> <<>>]

SampledAndSwapped(s, k) ==
  [z1 |-> s.z2, z2 |-> s.z1, m1 |-> s.m2, m2 |-> s.m1, n1 |-> s.n2, n2 |-> s.n1,
   zmxa |-> IF k % KD = 0 THEN [c \in Cells |-> Larger(s.zmxa[c], s.z2[c])] ELSE s.zmxa,
   rows |-> IF k % KD = 0 THEN Append(s.rows, <<k, [g \in Gauges |-> s.z2[g]]>>) ELSE s.rows]

\* What the loops leave in the three buffers they write.
Massed(s) ==
  [c \in Cells |-> IF c \in Region("mass") THEN mass(s.z1, s.m1, s.n1, c) ELSE s.z2[c]]
Radiating(s) ==
  [c \in Cells |->
     IF c \in Region("bout_i1") \cup Region("bout_i2") THEN bout_i(c, s.m1, s.n1)
     ELSE IF c \in Region("bout_j1") \cup Region("bout_j2") THEN bout_j(c, s.m1, s.n1)
     ELSE Massed(s)[c]]
MovedM(s) ==
  [c \in Cells |-> IF c \in Region("mmnt_m") THEN mmnt_m(Radiating(s), s.m1, c) ELSE s.m2[c]]
MovedN(s) ==
  [c \in Cells |-> IF c \in Region("mmnt_n") THEN mmnt_n(Radiating(s), s.n1, c) ELSE s.n2[c]]

Advanced(s, k) ==
  SampledAndSwapped([s EXCEPT !.z2 = Radiating(s), !.m2 = MovedM(s), !.n2 = MovedN(s)], k)

Reference[k \in 0..KE] == IF k = 0 THEN AtRest ELSE Advanced(Reference[k - 1], k - 1)

-----------------------------------------------------------------------------
VARIABLES
  mem,       \* the buffers, the maximum grid and the gauge rows
  k,         \* steps completed
  pc,        \* the loop the process is in, or what follows the loops
  todo,      \* the loop's cells not yet computed
  ckpt,      \* zfolder/_checkpoint.npz, or <<>>
  green,     \* zfolder/green.dat, or <<>>
  zmax,      \* zfolder/zmax_a.grd, or <<>>
  crashes    \* processes that died

solverVars == <<mem, k, pc, todo, ckpt, green, zmax, crashes>>
disk == <<ckpt, green, zmax>>

SolverInit ==
  /\ mem = AtRest
  /\ k = 0
  /\ pc = "down"
  /\ todo = {}
  /\ ckpt = <<>>
  /\ green = <<>>
  /\ zmax = <<>>
  /\ crashes = 0

NextStep(done) == IF done = KE THEN "green" ELSE "mass"

\* A run starts from the checkpoint, if there is one and it can be read.
RestoredWithoutMaximum(c) == [c.state EXCEPT !.zmxa = Zero]
Restored(c) == c.state

StartRun ==
  /\ pc = "down"
  /\ \/ /\ ckpt # <<>> /\ ckpt.k \in 0..KE
        /\ mem' = Restored(ckpt) /\ k' = ckpt.k
     \/ mem' = AtRest /\ k' = 0
  /\ pc' = NextStep(k')
  /\ todo' = Region("mass")
  /\ UNCHANGED <<disk, crashes>>

\* One cell of the loop, in whatever order the threads take them.
ComputeCell(c) ==
  /\ pc \in LoopNames /\ c \in todo
  /\ mem' =
       CASE pc = "mass"   -> [mem EXCEPT !.z2[c] = mass(mem.z1, mem.m1, mem.n1, c)]
         [] pc \in {"bout_j1", "bout_j2"} -> [mem EXCEPT !.z2[c] = bout_j(c, mem.m1, mem.n1)]
         [] pc \in {"bout_i1", "bout_i2"} -> [mem EXCEPT !.z2[c] = bout_i(c, mem.m1, mem.n1)]
         [] pc = "mmnt_m" -> [mem EXCEPT !.m2[c] = mmnt_m(mem.z2, mem.m1, c)]
         [] OTHER         -> [mem EXCEPT !.n2[c] = mmnt_n(mem.z2, mem.n1, c)]
  /\ todo' = todo \ {c}
  /\ UNCHANGED <<k, pc, disk, crashes>>

EndLoop ==
  /\ pc \in LoopNames /\ todo = {}
  /\ pc' = After[pc]
  /\ todo' = IF pc' = "sample" THEN {} ELSE Region(pc')
  /\ UNCHANGED <<mem, k, disk, crashes>>

\* The gauge row and the maximum, every KD steps; then the buffers swap.
SampleAndSwap ==
  /\ pc = "sample"
  /\ mem' = SampledAndSwapped(mem, k)
  /\ k' = k + 1
  /\ pc' = IF (k + 1) % CheckpointInterval = 0 THEN "checkpoint" ELSE NextStep(k + 1)
  /\ todo' = Region("mass")
  /\ UNCHANGED <<disk, crashes>>

\* _write_checkpoint, through atomic_write.
WriteCheckpoint ==
  /\ pc = "checkpoint"
  /\ ckpt' = [k |-> k, state |-> mem]
  /\ pc' = NextStep(k)
  /\ UNCHANGED <<mem, k, todo, green, zmax, crashes>>

WriteGreen ==
  /\ pc = "green"
  /\ green' = mem.rows
  /\ pc' = "zmax"
  /\ UNCHANGED <<mem, k, todo, ckpt, zmax, crashes>>

WriteZmax ==
  /\ pc = "zmax"
  /\ zmax' = mem.zmxa
  /\ pc' = "unlink"
  /\ UNCHANGED <<mem, k, todo, ckpt, green, crashes>>

UnlinkMissed ==
  /\ pc = "unlink"
  /\ pc' = "done"
  /\ UNCHANGED <<mem, k, todo, disk, crashes>>

UnlinkCheckpoint ==
  /\ pc = "unlink"
  /\ ckpt' = <<>>
  /\ pc' = "done"
  /\ UNCHANGED <<mem, k, todo, green, zmax, crashes>>

\* The process dies; what is in memory is lost.
Crash ==
  /\ pc # "down" /\ crashes < MaxCrashes
  /\ crashes' = crashes + 1
  /\ mem' = AtRest /\ k' = 0 /\ todo' = {}
  /\ pc' = "down"
  /\ UNCHANGED disk

SolverNext ==
  \/ StartRun \/ (\E c \in Cells : ComputeCell(c)) \/ EndLoop \/ SampleAndSwap
  \/ WriteCheckpoint \/ WriteGreen \/ WriteZmax \/ UnlinkCheckpoint \/ Crash

SolverSpec == SolverInit /\ [][SolverNext]_solverVars

\* The step runs to its end once the crashes are over.
FairSolver == SolverSpec /\ WF_solverVars(SolverNext)

-----------------------------------------------------------------------------
(* Properties *)

\* Between two steps every buffer, the maximum grid and the gauge rows are
\* what an uninterrupted sequential run has after the same number of steps,
\* whatever order the threads took the cells in and however often the run
\* resumed (_jit: "Parallel writes are independent"), and so are the two files
\* a finished step leaves (_write_green_dat, _write_zmax_a).
MatchesReference ==
  /\ pc \in {"checkpoint", "green"} \/ (pc = "mass" /\ todo = Region("mass"))
       => mem = Reference[k]
  /\ pc = "done" => green = Reference[KE].rows /\ zmax = Reference[KE].zmxa

\* A step taken to its end leaves both results and no checkpoint behind.
EventuallyWritten ==
  <>[](pc = "done" /\ green # <<>> /\ zmax # <<>> /\ ckpt = <<>>)
=============================================================================
