------------------------------- MODULE SolverProofs -------------------------------
(***************************************************************************)
(* The two solvers, for every grid.                                        *)
(*                                                                         *)
(* run_tsunami computes one result, whatever the number of steps and the   *)
(* checkpoint interval: in whichever order the parallel loops compute      *)
(* their cells, and after any number of crashes and resumed runs, the      *)
(* files are those of the sequential program. The invariant says what      *)
(* memory holds amid a step that began in the reference's state k: each    *)
(* loop has written the cells it has done and no others, from operands     *)
(* that no cell of the same loop writes.                                   *)
(*                                                                         *)
(* The travel-time solver's queue is a heap and the times it returns are   *)
(* arrivals, whatever the bathymetry and the epicenter. The invariant says *)
(* where each node stands (land, open, queued or settled), that no queued  *)
(* node is before a settled one, and where each time comes from.           *)
(*                                                                         *)
(* It reaches the water connected to its seeds, because the cells of each  *)
(* stencil direction form a chain; and the water around the epicenter,     *)
(* because the samples towards a seed do, where cells are not too narrow.  *)
(***************************************************************************)
EXTENDS TsunamiSolver, TravelTimes, SequenceTheorems, FiniteSetTheorems,
        WellFoundedInduction, TLAPS

-----------------------------------------------------------------------------
(* Recursion over natural numbers: the loops of both solvers *)

\* A set of naturals that has a member has a least one.
LEMMA LeastNat ==
  ASSUME NEW T, T \subseteq Nat, T # {}
  PROVE  \E x \in T : \A y \in T : x <= y
<1> DEFINE R == OpToRel(<, Nat)
<1>1. IsWellFoundedOn(R, Nat) BY NatLessThanWellFounded
<1>2. \A x, y \in Nat : x < y => <<x, y>> \in R BY DEF OpToRel
<1> HIDE DEF R
<1>3. PICK x \in T : \A y \in T : ~ (<<y, x>> \in R) BY <1>1, WFMin
<1>4. \A y \in T : x \in Nat /\ y \in Nat /\ ~(y < x) BY <1>2, <1>3
<1>5. \A y \in T : x <= y BY <1>4
<1>6. QED BY <1>5

\* Induction over the naturals, on a set in place of a predicate.
LEMMA Induction ==
  ASSUME NEW S, 0 \in S, \A n \in Nat : n \in S => n + 1 \in S
  PROVE  Nat \subseteq S
<1>1. SUFFICES ASSUME Nat \ S # {} PROVE FALSE OBVIOUS
<1>2. PICK x \in Nat \ S : \A y \in Nat \ S : x <= y
  BY <1>1, LeastNat
<1>3. x # 0 BY <1>2
<1>4. x - 1 \in Nat /\ (x - 1) + 1 = x BY <1>2, <1>3
<1>5. x - 1 \in S BY <1>2, <1>4
<1>6. QED BY <1>2, <1>4, <1>5

\* Induction over the turns of a loop.
LEMMA Turns ==
  ASSUME NEW n \in Nat, NEW T, 0 \in T, \A j \in 1..n : j - 1 \in T => j \in T
  PROVE  \A j \in 0..n : j \in T
<1> DEFINE S == {j \in Nat : j <= n => j \in T}
<1>1. 0 \in S OBVIOUS
<1>2. ASSUME NEW j \in Nat, j \in S PROVE j + 1 \in S
  <2>1. CASE j + 1 <= n
    <3>1. j + 1 \in 1..n /\ (j + 1) - 1 = j /\ j <= n BY <2>1
    <3>2. j \in T BY <1>2, <3>1
    <3> QED BY <3>1, <3>2
  <2> QED BY <2>1
<1> HIDE DEF S
<1>3. Nat \subseteq S BY <1>1, <1>2, Induction
<1> QED BY <1>3 DEF S

\* The bodies of a loop of n turns that stays in a set S, and its runs from a.
Bodies(n, S) == [S \X (1..n) -> S]
HasRun(n, S, a, F) ==
  \E f \in [0..n -> S] : f[0] = a /\ \A j \in 1..n : f[j] = F[<<f[j - 1], j>>]

\* Such a loop has a run: what a definition by recursion over the turns needs
\* to be one.
LEMMA LoopHasRun ==
  ASSUME NEW n \in Nat, NEW S, NEW a \in S, NEW F \in Bodies(n, S)
  PROVE  HasRun(n, S, a, F)
<1>0. F \in [S \X (1..n) -> S] BY DEF Bodies
<1> DEFINE T == {m \in Nat : m <= n => \E f \in [0..m -> S] :
                    f = [j \in 0..m |-> IF j = 0 THEN a ELSE F[<<f[j - 1], j>>]]}
<1>1. 0 \in T
  <2> DEFINE f == [j \in 0..0 |-> a]
  <2>1. \A j \in 0..0 : j = 0 OBVIOUS
  <2>2. f \in [0..0 -> S] OBVIOUS
  <2>3. f = [j \in 0..0 |-> IF j = 0 THEN a ELSE F[<<f[j - 1], j>>]] BY <2>1
  <2> HIDE DEF f
  <2> QED BY <2>2, <2>3
<1>2. ASSUME NEW m \in Nat, m \in T PROVE m + 1 \in T
  <2>1. SUFFICES ASSUME m + 1 <= n
                 PROVE  \E f \in [0..(m + 1) -> S] :
                          f = [j \in 0..(m + 1) |-> IF j = 0 THEN a ELSE F[<<f[j - 1], j>>]]
    OBVIOUS
  <2>2. PICK f \in [0..m -> S] :
               f = [j \in 0..m |-> IF j = 0 THEN a ELSE F[<<f[j - 1], j>>]]
    BY <1>2, <2>1
  <2> DEFINE v == F[<<f[m], m + 1>>]
             g == [j \in 0..(m + 1) |-> IF j = m + 1 THEN v ELSE f[j]]
  <2>3. m \in 0..m /\ m + 1 \in 1..n BY <2>1
  <2>4. v \in S BY <1>0, <2>2, <2>3
  <2>5. \A j \in 0..(m + 1) : j # m + 1 => j \in 0..m OBVIOUS
  <2>6. g \in [0..(m + 1) -> S] BY <2>2, <2>4, <2>5
  <2>7. ASSUME NEW j \in 0..(m + 1)
        PROVE  g[j] = IF j = 0 THEN a ELSE F[<<g[j - 1], j>>]
    <3>1. CASE j = m + 1
      <4>1. j # 0 /\ j - 1 = m /\ m \in 0..(m + 1) /\ m # m + 1 BY <3>1
      <4>2. g[m] = f[m] BY <4>1
      <4>3. g[j] = v BY <3>1
      <4> QED BY <4>1, <4>2, <4>3, <3>1
    <3>2. CASE j # m + 1
      <4>1. j \in 0..m BY <3>2
      <4>2. g[j] = f[j] BY <3>2
      <4>3. f[j] = IF j = 0 THEN a ELSE F[<<f[j - 1], j>>] BY <4>1, <2>2
      <4>4. j # 0 => j - 1 \in 0..(m + 1) /\ j - 1 # m + 1 BY <4>1
      <4>5. j # 0 => g[j - 1] = f[j - 1] BY <4>4
      <4> QED BY <4>2, <4>3, <4>5
    <3> QED BY <3>1, <3>2
  <2>8. g = [j \in 0..(m + 1) |-> IF j = 0 THEN a ELSE F[<<g[j - 1], j>>]]
    <3>1. g = [j \in 0..(m + 1) |-> g[j]] OBVIOUS
    <3> HIDE DEF g
    <3> QED BY <2>7, <3>1
  <2> HIDE DEF g
  <2> QED BY <2>6, <2>8
<1> HIDE DEF T
<1>3. n \in T BY <1>1, <1>2, Induction
<1>4. PICK f \in [0..n -> S] : f = [j \in 0..n |-> IF j = 0 THEN a ELSE F[<<f[j - 1], j>>]]
  BY <1>3 DEF T
<1>5. \A j \in 0..n : f[j] = IF j = 0 THEN a ELSE F[<<f[j - 1], j>>] BY <1>4
<1>6. 0 \in 0..n /\ \A j \in 1..n : j \in 0..n /\ j # 0 OBVIOUS
<1>7. f[0] = a BY <1>5, <1>6
<1>8. \A j \in 1..n : f[j] = F[<<f[j - 1], j>>]
  <2>1. SUFFICES ASSUME NEW j \in 1..n PROVE f[j] = F[<<f[j - 1], j>>] OBVIOUS
  <2>2. j \in 0..n /\ j # 0 BY <1>6
  <2>3. f[j] = IF j = 0 THEN a ELSE F[<<f[j - 1], j>>] BY <1>5, <2>2
  <2> QED BY <2>2, <2>3
<1> QED BY <1>7, <1>8 DEF HasRun

-----------------------------------------------------------------------------
(* The tsunami solver: the recursion of the reference *)

\* The equations run_tsunami's loop gives the reference, on its first n steps.
IsRun(f, n) ==
  f = [i \in 0..n |-> IF i = 0 THEN AtRest ELSE Advanced(f[i - 1], i - 1)]

\* The first n steps of run_tsunami have a result, whatever n.
LEMMA RunsExist ==
  \A n \in Nat : \E f : IsRun(f, n)
<1> DEFINE S == {n \in Nat : \E f : IsRun(f, n)}
<1>1. 0 \in S
  <2> DEFINE f == [i \in 0..0 |-> AtRest]
  <2>1. \A i \in 0..0 : i = 0 OBVIOUS
  <2>2. f = [i \in 0..0 |-> IF i = 0 THEN AtRest ELSE Advanced(f[i - 1], i - 1)]
    BY <2>1
  <2>3. IsRun(f, 0) BY <2>2 DEF IsRun
  <2> QED BY <2>3
<1>2. ASSUME NEW n \in Nat, n \in S PROVE n + 1 \in S
  <2>1. PICK f : IsRun(f, n) BY <1>2
  <2> DEFINE g == [i \in 0..(n + 1) |-> IF i = n + 1 THEN Advanced(f[n], n) ELSE f[i]]
  <2>2. ASSUME NEW i \in 0..(n + 1)
        PROVE  g[i] = IF i = 0 THEN AtRest ELSE Advanced(g[i - 1], i - 1)
    <3>1. CASE i = n + 1
      <4>1. i # 0 /\ i - 1 = n /\ n \in 0..(n + 1) /\ n # n + 1 BY <3>1
      <4>2. g[i] = Advanced(f[n], n) BY <3>1
      <4>3. g[n] = f[n] BY <4>1
      <4> QED BY <4>1, <4>2, <4>3
    <3>2. CASE i # n + 1
      <4>1. i \in 0..n BY <3>2
      <4>2. g[i] = f[i] BY <3>2
      <4>3. f[i] = IF i = 0 THEN AtRest ELSE Advanced(f[i - 1], i - 1)
        BY <4>1, <2>1 DEF IsRun
      <4>4. i # 0 => i - 1 \in 0..(n + 1) /\ i - 1 # n + 1 BY <4>1
      <4>5. i # 0 => g[i - 1] = f[i - 1] BY <4>4
      <4> QED BY <4>2, <4>3, <4>5
    <3> QED BY <3>1, <3>2
  <2>3. g = [i \in 0..(n + 1) |-> g[i]] OBVIOUS
  <2> HIDE DEF g
  <2>4. IsRun(g, n + 1) BY <2>2, <2>3 DEF IsRun
  <2> QED BY <2>4
<1> HIDE DEF S
<1>3. Nat \subseteq S BY <1>1, <1>2, Induction
<1> QED BY <1>3 DEF S

\* Reference follows run_tsunami's loop: from rest, one step at a time.
LEMMA ReferenceEquations ==
  /\ Reference[0] = AtRest
  /\ \A i \in 0..KE : i # KE => Reference[i + 1] = Advanced(Reference[i], i)
<1>1. KE \in Nat BY SolverAssumption
<1>2. \E f : IsRun(f, KE) BY <1>1, RunsExist
<1>3. Reference = CHOOSE f : IsRun(f, KE) BY DEF Reference, IsRun
<1>4. IsRun(Reference, KE) BY <1>2, <1>3
<1>5. Reference = [i \in 0..KE |-> IF i = 0 THEN AtRest
                                   ELSE Advanced(Reference[i - 1], i - 1)]
  BY <1>4 DEF IsRun
<1>6. \A i \in 0..KE : Reference[i] = IF i = 0 THEN AtRest
                                      ELSE Advanced(Reference[i - 1], i - 1)
  BY <1>5
<1>7. 0 \in 0..KE BY <1>1
<1>8. \A i \in 0..KE : i # KE => i + 1 \in 0..KE /\ i + 1 # 0 /\ (i + 1) - 1 = i
  BY <1>1
<1>9. \A i \in 0..KE : i # KE => Reference[i + 1] = Advanced(Reference[i], i)
  BY <1>6, <1>8
<1> QED BY <1>6, <1>7, <1>9

-----------------------------------------------------------------------------
(* The tsunami solver: the shape of a state *)

Fields == {"z1", "z2", "m1", "m2", "n1", "n2", "zmxa", "rows"}
IsGrid(g) == g = [c \in Cells |-> g[c]]
IsState(s) ==
  /\ s = [z1 |-> s.z1, z2 |-> s.z2, m1 |-> s.m1, m2 |-> s.m2, n1 |-> s.n1, n2 |-> s.n2,
          zmxa |-> s.zmxa, rows |-> s.rows]
  /\ IsGrid(s.z1) /\ IsGrid(s.z2) /\ IsGrid(s.m1) /\ IsGrid(s.m2) /\ IsGrid(s.n1) /\ IsGrid(s.n2)

\* The initial buffers are a state of the solver.
LEMMA AtRestIsState == IsState(AtRest)
<1>1. IsGrid(Zero) BY DEF IsGrid, Zero
<1>2. IsGrid(AtRest.z1) BY DEF IsGrid, AtRest
<1>3. AtRest.z2 = Zero /\ AtRest.m1 = Zero /\ AtRest.m2 = Zero /\ AtRest.n1 = Zero /\ AtRest.n2 = Zero
  BY DEF AtRest
<1>4. AtRest = [z1 |-> AtRest.z1, z2 |-> AtRest.z2, m1 |-> AtRest.m1, m2 |-> AtRest.m2,
                n1 |-> AtRest.n1, n2 |-> AtRest.n2, zmxa |-> AtRest.zmxa, rows |-> AtRest.rows]
  BY DEF AtRest
<1> QED BY <1>1, <1>2, <1>3, <1>4 DEF IsState

\* The sampling and the swap that end a step keep the shape of the state.
LEMMA SwapKeepsState ==
  ASSUME NEW s, NEW i, IsState(s)
  PROVE  IsState(SampledAndSwapped(s, i))
<1> DEFINE t == SampledAndSwapped(s, i)
<1>1. t.z1 = s.z2 /\ t.z2 = s.z1 /\ t.m1 = s.m2 /\ t.m2 = s.m1 /\ t.n1 = s.n2 /\ t.n2 = s.n1
  BY DEF SampledAndSwapped
<1>2. t = [z1 |-> t.z1, z2 |-> t.z2, m1 |-> t.m1, m2 |-> t.m2, n1 |-> t.n1, n2 |-> t.n2,
           zmxa |-> t.zmxa, rows |-> t.rows]
  BY DEF SampledAndSwapped
<1> HIDE DEF t
<1> QED BY <1>1, <1>2 DEF IsState, t

\* A state in which all loops of a step have run, but nothing is sampled yet.
Stepped(s) ==
  [z1 |-> s.z1, z2 |-> Radiating(s), m1 |-> s.m1, m2 |-> MovedM(s), n1 |-> s.n1, n2 |-> MovedN(s),
   zmxa |-> s.zmxa, rows |-> s.rows]

\* A step of the reference is its loops' results, then sampling and swap.
LEMMA AdvancedSteps ==
  ASSUME NEW s, NEW i, IsState(s)
  PROVE  Advanced(s, i) = SampledAndSwapped(Stepped(s), i) /\ IsState(Stepped(s))
<1> DEFINE A == Radiating(s)
           B == MovedM(s)
           C == MovedN(s)
           t == [z1 |-> s.z1, z2 |-> A, m1 |-> s.m1, m2 |-> B, n1 |-> s.n1, n2 |-> C,
                 zmxa |-> s.zmxa, rows |-> s.rows]
<1>1. IsGrid(A) /\ IsGrid(B) /\ IsGrid(C) BY DEF IsGrid, Radiating, MovedM, MovedN
<1>2. s = [z1 |-> s.z1, z2 |-> s.z2, m1 |-> s.m1, m2 |-> s.m2, n1 |-> s.n1, n2 |-> s.n2,
           zmxa |-> s.zmxa, rows |-> s.rows]
  BY DEF IsState
<1> HIDE DEF A, B, C
<1>3. [s EXCEPT !.z2 = A, !.m2 = B, !.n2 = C] = t
  <2> DEFINE u == [s EXCEPT !.z2 = A, !.m2 = B, !.n2 = C]
  <2>1. DOMAIN s = Fields BY <1>2 DEF Fields
  <2>2. DOMAIN u = Fields /\ u = [f \in DOMAIN u |-> u[f]] BY <2>1
  <2>3. \A f \in Fields : u[f] = IF f = "z2" THEN A ELSE IF f = "m2" THEN B
                                 ELSE IF f = "n2" THEN C ELSE s[f]
    BY <2>1
  <2> HIDE DEF u
  <2>4. \A f \in Fields : u[f] = t[f] BY <2>3 DEF Fields
  <2>5. DOMAIN t = Fields /\ t = [f \in DOMAIN t |-> t[f]] BY DEF Fields
  <2> HIDE DEF t
  <2>6. u = t BY <2>2, <2>4, <2>5
  <2> QED BY <2>6 DEF u
<1>4. IsState(t) BY <1>1 DEF IsState
<1>5. Stepped(s) = t BY DEF Stepped, A, B, C
<1>6. Advanced(s, i) = SampledAndSwapped([s EXCEPT !.z2 = A, !.m2 = B, !.n2 = C], i)
  BY DEF Advanced, A, B, C
<1> HIDE DEF t
<1> QED BY <1>3, <1>4, <1>5, <1>6

\* The reference is a state of the solver after every step.
LEMMA ReferenceIsState ==
  \A i \in 0..KE : IsState(Reference[i])
<1> DEFINE S == {n \in Nat : n \in 0..KE => IsState(Reference[n])}
<1>1. 0 \in S BY AtRestIsState, ReferenceEquations
<1>2. ASSUME NEW n \in Nat, n \in S PROVE n + 1 \in S
  <2>1. SUFFICES ASSUME n + 1 \in 0..KE PROVE IsState(Reference[n + 1]) OBVIOUS
  <2>2. n \in 0..KE /\ n # KE BY <2>1, SolverAssumption
  <2>3. IsState(Reference[n]) BY <1>2, <2>2
  <2>4. Reference[n + 1] = Advanced(Reference[n], n) BY <2>2, ReferenceEquations
  <2> QED BY <2>3, <2>4, AdvancedSteps, SwapKeepsState
<1> HIDE DEF S
<1>3. Nat \subseteq S BY <1>1, <1>2, Induction
<1>4. \A i \in 0..KE : i \in Nat BY SolverAssumption
<1> QED BY <1>3, <1>4 DEF S

-----------------------------------------------------------------------------
(* The tsunami solver: the inductive invariant *)

\* The places of the process after each loop of a step.
Past == [mass    |-> {"bout_j1", "bout_j2", "bout_i1", "bout_i2", "mmnt_m", "mmnt_n", "sample"},
         bout_j1 |-> {"bout_j2", "bout_i1", "bout_i2", "mmnt_m", "mmnt_n", "sample"},
         bout_j2 |-> {"bout_i1", "bout_i2", "mmnt_m", "mmnt_n", "sample"},
         bout_i1 |-> {"bout_i2", "mmnt_m", "mmnt_n", "sample"},
         bout_i2 |-> {"mmnt_m", "mmnt_n", "sample"},
         mmnt_m  |-> {"mmnt_n", "sample"},
         mmnt_n  |-> {"sample"}]

\* The cells a loop of this step has computed so far.
Done(loop) ==
  IF pc = loop THEN Region(loop) \ todo
  ELSE IF pc \in Past[loop] THEN Region(loop) ELSE {}

\* The three buffers the loops write, amid a step that began in s: an edge pass
\* has the last word on the cells it has reached, then _mass, then the buffer's
\* content of two steps ago.
ZNow(s) ==
  [c \in Cells |->
     IF c \in Done("bout_i1") \cup Done("bout_i2") THEN bout_i(c, s.m1, s.n1)
     ELSE IF c \in Done("bout_j1") \cup Done("bout_j2") THEN bout_j(c, s.m1, s.n1)
     ELSE IF c \in Done("mass") THEN mass(s.z1, s.m1, s.n1, c)
     ELSE s.z2[c]]
MNow(s) ==
  [c \in Cells |-> IF c \in Done("mmnt_m") THEN mmnt_m(Radiating(s), s.m1, c) ELSE s.m2[c]]
NNow(s) ==
  [c \in Cells |-> IF c \in Done("mmnt_n") THEN mmnt_n(Radiating(s), s.n1, c) ELSE s.n2[c]]

Partial(s) ==
  [z1 |-> s.z1, z2 |-> ZNow(s), m1 |-> s.m1, m2 |-> MNow(s), n1 |-> s.n1, n2 |-> NNow(s),
   zmxa |-> s.zmxa, rows |-> s.rows]

Places == LoopNames \cup {"down", "sample", "checkpoint", "green", "zmax", "unlink", "done"}

PlaceInv ==
  /\ k \in 0..KE /\ pc \in Places
  /\ pc \in LoopNames \cup {"sample"} => k # KE
  /\ pc \in {"green", "zmax", "unlink", "done"} => k = KE
  /\ pc \in LoopNames => todo \subseteq Region(pc)
  /\ pc = "checkpoint" => todo = Region("mass")

MemoryInv ==
  /\ pc \in LoopNames \cup {"sample"} => mem = Partial(Reference[k])
  /\ pc \in {"checkpoint", "green", "zmax", "unlink"} => mem = Reference[k]

DiskInv ==
  /\ ckpt # <<>> => ckpt.k \in 0..KE /\ ckpt.state = Reference[ckpt.k]
  /\ pc \in {"zmax", "unlink", "done"} => green = Reference[KE].rows
  /\ pc \in {"unlink", "done"} => zmax = Reference[KE].zmxa

IInv == PlaceInv /\ MemoryInv /\ DiskInv

-----------------------------------------------------------------------------
(* The tsunami solver: one cell of a loop *)

\* The loops of a step.
LEMMA LoopNamesAre ==
  LoopNames = {"mass", "bout_j1", "bout_j2", "bout_i1", "bout_i2", "mmnt_m", "mmnt_n"}
BY DEF LoopNames, After

\* A loop writes one cell of z2 and nothing else.
LEMMA PutZ ==
  ASSUME NEW t, NEW a1, NEW a2, NEW a3, NEW a4, NEW a5, NEW a6, NEW a7, NEW a8, NEW c, NEW v,
         t = [z1 |-> a1, z2 |-> a2, m1 |-> a3, m2 |-> a4, n1 |-> a5, n2 |-> a6,
              zmxa |-> a7, rows |-> a8]
  PROVE  [t EXCEPT !.z2[c] = v]
           = [z1 |-> a1, z2 |-> [a2 EXCEPT ![c] = v], m1 |-> a3, m2 |-> a4, n1 |-> a5, n2 |-> a6,
              zmxa |-> a7, rows |-> a8]
<1> DEFINE w == [a2 EXCEPT ![c] = v]
           u == [t EXCEPT !.z2[c] = v]
           r == [z1 |-> a1, z2 |-> w, m1 |-> a3, m2 |-> a4, n1 |-> a5, n2 |-> a6,
                 zmxa |-> a7, rows |-> a8]
<1>1. DOMAIN t = Fields /\ t["z2"] = a2 BY DEF Fields
<1>2. u = [t EXCEPT !["z2"] = w] BY <1>1
<1> HIDE DEF w, u
<1>3. DOMAIN u = Fields /\ u = [f \in DOMAIN u |-> u[f]] BY <1>1, <1>2
<1>4. \A f \in Fields : u[f] = IF f = "z2" THEN w ELSE t[f] BY <1>1, <1>2
<1>5. \A f \in Fields : u[f] = r[f] BY <1>4 DEF Fields
<1>6. DOMAIN r = Fields /\ r = [f \in DOMAIN r |-> r[f]] BY DEF Fields
<1> HIDE DEF r
<1>7. u = r BY <1>3, <1>5, <1>6
<1> QED BY <1>7 DEF u, r, w

\* A loop writes one cell of m2 and nothing else.
LEMMA PutM ==
  ASSUME NEW t, NEW a1, NEW a2, NEW a3, NEW a4, NEW a5, NEW a6, NEW a7, NEW a8, NEW c, NEW v,
         t = [z1 |-> a1, z2 |-> a2, m1 |-> a3, m2 |-> a4, n1 |-> a5, n2 |-> a6,
              zmxa |-> a7, rows |-> a8]
  PROVE  [t EXCEPT !.m2[c] = v]
           = [z1 |-> a1, z2 |-> a2, m1 |-> a3, m2 |-> [a4 EXCEPT ![c] = v], n1 |-> a5, n2 |-> a6,
              zmxa |-> a7, rows |-> a8]
<1> DEFINE w == [a4 EXCEPT ![c] = v]
           u == [t EXCEPT !.m2[c] = v]
           r == [z1 |-> a1, z2 |-> a2, m1 |-> a3, m2 |-> w, n1 |-> a5, n2 |-> a6,
                 zmxa |-> a7, rows |-> a8]
<1>1. DOMAIN t = Fields /\ t["m2"] = a4 BY DEF Fields
<1>2. u = [t EXCEPT !["m2"] = w] BY <1>1
<1> HIDE DEF w, u
<1>3. DOMAIN u = Fields /\ u = [f \in DOMAIN u |-> u[f]] BY <1>1, <1>2
<1>4. \A f \in Fields : u[f] = IF f = "m2" THEN w ELSE t[f] BY <1>1, <1>2
<1>5. \A f \in Fields : u[f] = r[f] BY <1>4 DEF Fields
<1>6. DOMAIN r = Fields /\ r = [f \in DOMAIN r |-> r[f]] BY DEF Fields
<1> HIDE DEF r
<1>7. u = r BY <1>3, <1>5, <1>6
<1> QED BY <1>7 DEF u, r, w

\* A loop writes one cell of n2 and nothing else.
LEMMA PutN ==
  ASSUME NEW t, NEW a1, NEW a2, NEW a3, NEW a4, NEW a5, NEW a6, NEW a7, NEW a8, NEW c, NEW v,
         t = [z1 |-> a1, z2 |-> a2, m1 |-> a3, m2 |-> a4, n1 |-> a5, n2 |-> a6,
              zmxa |-> a7, rows |-> a8]
  PROVE  [t EXCEPT !.n2[c] = v]
           = [z1 |-> a1, z2 |-> a2, m1 |-> a3, m2 |-> a4, n1 |-> a5, n2 |-> [a6 EXCEPT ![c] = v],
              zmxa |-> a7, rows |-> a8]
<1> DEFINE w == [a6 EXCEPT ![c] = v]
           u == [t EXCEPT !.n2[c] = v]
           r == [z1 |-> a1, z2 |-> a2, m1 |-> a3, m2 |-> a4, n1 |-> a5, n2 |-> w,
                 zmxa |-> a7, rows |-> a8]
<1>1. DOMAIN t = Fields /\ t["n2"] = a6 BY DEF Fields
<1>2. u = [t EXCEPT !["n2"] = w] BY <1>1
<1> HIDE DEF w, u
<1>3. DOMAIN u = Fields /\ u = [f \in DOMAIN u |-> u[f]] BY <1>1, <1>2
<1>4. \A f \in Fields : u[f] = IF f = "n2" THEN w ELSE t[f] BY <1>1, <1>2
<1>5. \A f \in Fields : u[f] = r[f] BY <1>4 DEF Fields
<1>6. DOMAIN r = Fields /\ r = [f \in DOMAIN r |-> r[f]] BY DEF Fields
<1> HIDE DEF r
<1>7. u = r BY <1>3, <1>5, <1>6
<1> QED BY <1>7 DEF u, r, w

\* Computing a cell adds it to those its loop has done, and to no other loop.
LEMMA CellIsDone ==
  ASSUME NEW c, c \in todo, pc \in LoopNames, todo \subseteq Region(pc),
         pc' = pc, todo' = todo \ {c}
  PROVE  \A loop \in LoopNames :
           Done(loop)' = IF loop = pc THEN Done(loop) \cup {c} ELSE Done(loop)
<1> SUFFICES ASSUME NEW loop \in LoopNames
             PROVE  Done(loop)' = IF loop = pc THEN Done(loop) \cup {c} ELSE Done(loop)
  OBVIOUS
<1>1. CASE loop = pc
  <2>1. Done(loop) = Region(loop) \ todo BY <1>1 DEF Done
  <2>2. Done(loop)' = Region(loop) \ todo' BY <1>1 DEF Done
  <2> QED BY <1>1, <2>1, <2>2
<1>2. CASE loop # pc
  <2>1. Done(loop)' = Done(loop) BY <1>2 DEF Done
  <2> QED BY <1>2, <2>1
<1> QED BY <1>1, <1>2

\* Once the edge passes are over, z2 is what the momentum loops must read.
LEMMA RadiatedWhenPast ==
  ASSUME NEW s, pc \in {"mmnt_m", "mmnt_n", "sample"}
  PROVE  ZNow(s) = Radiating(s)
<1>1. /\ Done("mass") = Region("mass")
      /\ Done("bout_j1") = Region("bout_j1") /\ Done("bout_j2") = Region("bout_j2")
      /\ Done("bout_i1") = Region("bout_i1") /\ Done("bout_i2") = Region("bout_i2")
  BY DEF Done, Past
<1>2. \A c \in Cells : Massed(s)[c] = IF c \in Region("mass") THEN mass(s.z1, s.m1, s.n1, c)
                                      ELSE s.z2[c]
  BY DEF Massed
<1> QED BY <1>1, <1>2 DEF ZNow, Radiating

\* In whichever order a loop takes its cells, memory is the step's start
\* overwritten by what is done: no cell reads what its own loop writes.
LEMMA ComputeCellFollows ==
  ASSUME NEW s, NEW c \in Cells, mem = Partial(s), todo \subseteq Region(pc), ComputeCell(c)
  PROVE  mem' = Partial(s)'
<1>1. pc \in LoopNames /\ c \in todo /\ pc' = pc /\ todo' = todo \ {c}
  BY DEF ComputeCell
<1>2. \A loop \in LoopNames :
        Done(loop)' = IF loop = pc THEN Done(loop) \cup {c} ELSE Done(loop)
  BY <1>1, CellIsDone
<1>3. /\ mem.z1 = s.z1 /\ mem.m1 = s.m1 /\ mem.n1 = s.n1 /\ mem.z2 = ZNow(s)
      /\ mem = [z1 |-> s.z1, z2 |-> ZNow(s), m1 |-> s.m1, m2 |-> MNow(s), n1 |-> s.n1,
                n2 |-> NNow(s), zmxa |-> s.zmxa, rows |-> s.rows]
  BY DEF Partial
<1>4. Partial(s)' = [z1 |-> s.z1, z2 |-> ZNow(s)', m1 |-> s.m1, m2 |-> MNow(s)', n1 |-> s.n1,
                     n2 |-> NNow(s)', zmxa |-> s.zmxa, rows |-> s.rows]
  BY DEF Partial
<1>5. CASE pc = "mass"
  <2>1. mem' = [mem EXCEPT !.z2[c] = mass(s.z1, s.m1, s.n1, c)]
    BY <1>3, <1>5 DEF ComputeCell
  <2>2. ZNow(s)' = [ZNow(s) EXCEPT ![c] = mass(s.z1, s.m1, s.n1, c)]
    <3>1. /\ Done("mass")' = Done("mass") \cup {c}
          /\ Done("bout_i1")' = {} /\ Done("bout_i2")' = {}
          /\ Done("bout_j1")' = {} /\ Done("bout_j2")' = {}
          /\ Done("bout_i1") = {} /\ Done("bout_i2") = {}
          /\ Done("bout_j1") = {} /\ Done("bout_j2") = {}
      BY <1>1, <1>2, <1>5, LoopNamesAre DEF Done, Past
    <3> QED BY <3>1 DEF ZNow
  <2>3. MNow(s)' = MNow(s) /\ NNow(s)' = NNow(s)
    BY <1>2, <1>5, LoopNamesAre DEF MNow, NNow
  <2> QED BY <1>3, <1>4, <2>1, <2>2, <2>3, PutZ
<1>6. CASE pc \in {"bout_j1", "bout_j2"}
  <2>1. mem' = [mem EXCEPT !.z2[c] = bout_j(c, s.m1, s.n1)]
    BY <1>3, <1>6 DEF ComputeCell
  <2>2. ZNow(s)' = [ZNow(s) EXCEPT ![c] = bout_j(c, s.m1, s.n1)]
    <3>1. /\ Done("mass")' = Done("mass")
          /\ Done("bout_j1")' \cup Done("bout_j2")' = (Done("bout_j1") \cup Done("bout_j2")) \cup {c}
          /\ Done("bout_i1")' = {} /\ Done("bout_i2")' = {}
          /\ Done("bout_i1") = {} /\ Done("bout_i2") = {}
      <4>1. Done("bout_i1") = {} /\ Done("bout_i2") = {} BY <1>6 DEF Done, Past
      <4> QED BY <1>2, <1>6, <4>1, LoopNamesAre
    <3> QED BY <3>1 DEF ZNow
  <2>3. MNow(s)' = MNow(s) /\ NNow(s)' = NNow(s)
    BY <1>2, <1>6, LoopNamesAre DEF MNow, NNow
  <2> QED BY <1>3, <1>4, <2>1, <2>2, <2>3, PutZ
<1>7. CASE pc \in {"bout_i1", "bout_i2"}
  <2>1. mem' = [mem EXCEPT !.z2[c] = bout_i(c, s.m1, s.n1)]
    BY <1>3, <1>7 DEF ComputeCell
  <2>2. ZNow(s)' = [ZNow(s) EXCEPT ![c] = bout_i(c, s.m1, s.n1)]
    <3>1. /\ Done("mass")' = Done("mass")
          /\ Done("bout_j1")' = Done("bout_j1") /\ Done("bout_j2")' = Done("bout_j2")
          /\ Done("bout_i1")' \cup Done("bout_i2")' = (Done("bout_i1") \cup Done("bout_i2")) \cup {c}
      BY <1>2, <1>7, LoopNamesAre
    <3> QED BY <3>1 DEF ZNow
  <2>3. MNow(s)' = MNow(s) /\ NNow(s)' = NNow(s)
    BY <1>2, <1>7, LoopNamesAre DEF MNow, NNow
  <2> QED BY <1>3, <1>4, <2>1, <2>2, <2>3, PutZ
<1>8. CASE pc = "mmnt_m"
  <2>1. mem' = [mem EXCEPT !.m2[c] = mmnt_m(Radiating(s), s.m1, c)]
    BY <1>3, <1>8, RadiatedWhenPast DEF ComputeCell
  <2>2. MNow(s)' = [MNow(s) EXCEPT ![c] = mmnt_m(Radiating(s), s.m1, c)]
    <3>1. Done("mmnt_m")' = Done("mmnt_m") \cup {c} BY <1>2, <1>8, LoopNamesAre
    <3> QED BY <3>1 DEF MNow
  <2>3. ZNow(s)' = ZNow(s) /\ NNow(s)' = NNow(s)
    BY <1>2, <1>8, LoopNamesAre DEF ZNow, NNow
  <2> QED BY <1>3, <1>4, <2>1, <2>2, <2>3, PutM
<1>9. CASE pc = "mmnt_n"
  <2>1. mem' = [mem EXCEPT !.n2[c] = mmnt_n(Radiating(s), s.n1, c)]
    BY <1>3, <1>9, RadiatedWhenPast DEF ComputeCell
  <2>2. NNow(s)' = [NNow(s) EXCEPT ![c] = mmnt_n(Radiating(s), s.n1, c)]
    <3>1. Done("mmnt_n")' = Done("mmnt_n") \cup {c} BY <1>2, <1>9, LoopNamesAre
    <3> QED BY <3>1 DEF NNow
  <2>3. ZNow(s)' = ZNow(s) /\ MNow(s)' = MNow(s)
    BY <1>2, <1>9, LoopNamesAre DEF ZNow, MNow
  <2> QED BY <1>3, <1>4, <2>1, <2>2, <2>3, PutN
<1> QED BY <1>1, <1>5, <1>6, <1>7, <1>8, <1>9, LoopNamesAre

\* The end of a loop changes what remains to be done and not the memory.
LEMMA EndLoopFollows ==
  ASSUME NEW s, EndLoop
  PROVE  Partial(s)' = Partial(s)
<1>1. pc \in LoopNames /\ todo = {} /\ pc' = After[pc]
      /\ todo' = IF pc' = "sample" THEN {} ELSE Region(pc')
  BY DEF EndLoop
<1>2. \A loop \in LoopNames : Done(loop)' = Done(loop)
  <2> SUFFICES ASSUME NEW loop \in LoopNames PROVE Done(loop)' = Done(loop)
    OBVIOUS
  <2>1. CASE pc = loop
    <3>1. pc' # loop /\ pc' \in Past[loop] BY <1>1, <2>1, LoopNamesAre DEF After, Past
    <3>2. Done(loop) = Region(loop) BY <1>1, <2>1 DEF Done
    <3>3. Done(loop)' = Region(loop) BY <3>1 DEF Done
    <3> QED BY <3>2, <3>3
  <2>2. CASE pc' = loop
    <3>1. pc # loop /\ pc \notin Past[loop] BY <1>1, <2>2, LoopNamesAre DEF After, Past
    <3>2. Done(loop) = {} BY <3>1 DEF Done
    <3>3. loop # "sample" BY LoopNamesAre
    <3>4. Done(loop)' = {} BY <1>1, <2>2, <3>3 DEF Done
    <3> QED BY <3>2, <3>4
  <2>3. CASE pc # loop /\ pc' # loop
    <3>1. pc \in Past[loop] <=> pc' \in Past[loop]
      BY <1>1, <2>3, LoopNamesAre DEF After, Past
    <3> QED BY <2>3, <3>1 DEF Done
  <2> QED BY <2>1, <2>2, <2>3
<1>3. ZNow(s)' = ZNow(s) BY <1>2, LoopNamesAre DEF ZNow
<1>4. MNow(s)' = MNow(s) /\ NNow(s)' = NNow(s) BY <1>2, LoopNamesAre DEF MNow, NNow
<1> QED BY <1>3, <1>4 DEF Partial

\* At the start of a step memory is the state it begins in.
LEMMA StepBegins ==
  ASSUME NEW s, IsState(s), pc = "mass", todo = Region("mass")
  PROVE  Partial(s) = s
<1>1. \A loop \in LoopNames : Done(loop) = {}
  BY LoopNamesAre DEF Done, Past
<1>2. ZNow(s) = [c \in Cells |-> s.z2[c]] BY <1>1, LoopNamesAre DEF ZNow
<1>3. MNow(s) = [c \in Cells |-> s.m2[c]] /\ NNow(s) = [c \in Cells |-> s.n2[c]]
  BY <1>1, LoopNamesAre DEF MNow, NNow
<1>4. ZNow(s) = s.z2 /\ MNow(s) = s.m2 /\ NNow(s) = s.n2
  BY <1>2, <1>3 DEF IsState, IsGrid
<1> QED BY <1>4 DEF Partial, IsState

\* When all loops are over memory is the result of the step.
LEMMA StepEnds ==
  ASSUME NEW s, pc = "sample"
  PROVE  Partial(s) = Stepped(s)
<1>1. ZNow(s) = Radiating(s) BY RadiatedWhenPast
<1>2. Done("mmnt_m") = Region("mmnt_m") /\ Done("mmnt_n") = Region("mmnt_n")
  BY DEF Done, Past
<1>3. MNow(s) = MovedM(s) /\ NNow(s) = MovedN(s) BY <1>2 DEF MNow, NNow, MovedM, MovedN
<1> QED BY <1>1, <1>3 DEF Partial, Stepped

-----------------------------------------------------------------------------
(* The tsunami solver: the invariant is inductive *)

\* The invariant holds before the solver is started.
LEMMA InitEstablishes == SolverInit => IInv
<1> SUFFICES ASSUME SolverInit PROVE IInv OBVIOUS
<1>1. k = 0 /\ pc = "down" /\ ckpt = <<>> BY DEF SolverInit
<1>2. PlaceInv BY <1>1, SolverAssumption, LoopNamesAre DEF PlaceInv, Places
<1>3. MemoryInv BY <1>1, LoopNamesAre DEF MemoryInv
<1>4. DiskInv BY <1>1 DEF DiskInv
<1> QED BY <1>2, <1>3, <1>4 DEF IInv

\* The invariant is about the variables alone.
LEMMA StutterKeeps == IInv /\ UNCHANGED solverVars => IInv'
<1> SUFFICES ASSUME IInv, UNCHANGED solverVars PROVE IInv' OBVIOUS
<1> USE DEF solverVars
<1>1. PlaceInv' BY DEF IInv, PlaceInv
<1>2. \A s : Partial(s)' = Partial(s) BY DEF Partial, ZNow, MNow, NNow, Done
<1>3. MemoryInv' BY <1>2 DEF IInv, MemoryInv
<1>4. DiskInv' BY DEF IInv, DiskInv
<1> QED BY <1>1, <1>3, <1>4 DEF IInv

\* A step about to begin, or the loop's end, in a state of the reference.
LEMMA NextStepEstablishes ==
  ASSUME k' \in 0..KE, pc' = NextStep(k'), mem' = Reference[k'], todo' = Region("mass")
  PROVE  PlaceInv' /\ MemoryInv' /\ pc' \in {"mass", "green"}
<1>1. CASE k' = KE
  <2>1. pc' = "green" BY <1>1 DEF NextStep
  <2>2. PlaceInv' BY <1>1, <2>1, LoopNamesAre DEF PlaceInv, Places
  <2>3. MemoryInv' BY <2>1, LoopNamesAre DEF MemoryInv
  <2> QED BY <2>1, <2>2, <2>3
<1>2. CASE k' # KE
  <2>1. pc' = "mass" BY <1>2 DEF NextStep
  <2>2. PlaceInv' BY <1>2, <2>1, LoopNamesAre DEF PlaceInv, Places
  <2>3. IsState(Reference[k']) BY ReferenceIsState
  <2>4. Partial(Reference[k])' = Reference[k']
    <3>1. \A s : IsState(s) => Partial(s)' = s
      <4> SUFFICES ASSUME NEW s, IsState(s) PROVE Partial(s)' = s OBVIOUS
      <4>1. ((pc = "mass" /\ todo = Region("mass")) => Partial(s) = s)'
        BY StepBegins, PTL
      <4> QED BY <2>1, <4>1
    <3> QED BY <2>3, <3>1
  <2>5. MemoryInv' BY <2>1, <2>4, LoopNamesAre DEF MemoryInv
  <2> QED BY <2>1, <2>2, <2>5
<1> QED BY <1>1, <1>2

\* Every step preserves the invariant: cells in any order, checkpoints, output
\* files, crashes and restarts.
LEMMA NextKeeps == IInv /\ SolverNext => IInv'
<1> SUFFICES ASSUME IInv, SolverNext PROVE IInv' OBVIOUS
<1>1. PlaceInv /\ MemoryInv /\ DiskInv BY DEF IInv
<1>2. CASE StartRun
  <2>1. 0 \in 0..KE /\ Reference[0] = AtRest BY SolverAssumption, ReferenceEquations
  <2>2. k' \in 0..KE /\ mem' = Reference[k']
    <3>1. CASE ckpt # <<>> /\ ckpt.k \in 0..KE /\ mem' = Restored(ckpt) /\ k' = ckpt.k
      BY <1>1, <3>1 DEF DiskInv, Restored
    <3>2. CASE mem' = AtRest /\ k' = 0 BY <2>1, <3>2
    <3> QED BY <1>2, <3>1, <3>2 DEF StartRun
  <2>3. pc' = NextStep(k') /\ todo' = Region("mass") /\ UNCHANGED disk
    BY <1>2 DEF StartRun
  <2>4. PlaceInv' /\ MemoryInv' /\ pc' \in {"mass", "green"}
    BY <2>2, <2>3, NextStepEstablishes
  <2>5. DiskInv' BY <1>1, <2>3, <2>4 DEF DiskInv, disk
  <2> QED BY <2>4, <2>5 DEF IInv
<1>3. ASSUME NEW c \in Cells, ComputeCell(c) PROVE IInv'
  <2>1. /\ pc \in LoopNames /\ c \in todo /\ todo' = todo \ {c} /\ pc' = pc /\ k' = k
        /\ UNCHANGED disk
    BY <1>3 DEF ComputeCell
  <2>2. todo \subseteq Region(pc) /\ mem = Partial(Reference[k])
    BY <1>1, <2>1 DEF PlaceInv, MemoryInv
  <2>3. \A s : mem = Partial(s) => mem' = Partial(s)'
    BY <1>3, <2>2, ComputeCellFollows
  <2>4. mem' = Partial(Reference[k])' BY <2>1, <2>2, <2>3
  <2>5. PlaceInv' BY <1>1, <2>1, <2>2, LoopNamesAre DEF PlaceInv, Places
  <2>6. MemoryInv' BY <2>1, <2>4, LoopNamesAre DEF MemoryInv
  <2>7. DiskInv' BY <1>1, <2>1 DEF DiskInv, disk
  <2> QED BY <2>5, <2>6, <2>7 DEF IInv
<1>4. CASE EndLoop
  <2>1. /\ pc \in LoopNames /\ pc' = After[pc] /\ UNCHANGED <<mem, k, disk>>
        /\ todo' = IF pc' = "sample" THEN {} ELSE Region(pc')
    BY <1>4 DEF EndLoop
  <2>2. k # KE /\ k \in 0..KE /\ mem = Partial(Reference[k])
    BY <1>1, <2>1 DEF PlaceInv, MemoryInv
  <2>3. \A s : Partial(s)' = Partial(s) BY <1>4, EndLoopFollows
  <2>4. mem' = Partial(Reference[k])' BY <2>1, <2>2, <2>3
  <2>5. pc' \in LoopNames \cup {"sample"} BY <2>1, LoopNamesAre DEF After
  <2>6. PlaceInv' BY <2>1, <2>2, <2>5, LoopNamesAre DEF PlaceInv, Places
  <2>7. MemoryInv' BY <2>4, <2>5, LoopNamesAre DEF MemoryInv
  <2>8. DiskInv' BY <1>1, <2>1, <2>5, LoopNamesAre DEF DiskInv, disk
  <2> QED BY <2>6, <2>7, <2>8 DEF IInv
<1>5. CASE SampleAndSwap
  <2>1. /\ pc = "sample" /\ k' = k + 1 /\ mem' = SampledAndSwapped(mem, k)
        /\ todo' = Region("mass") /\ UNCHANGED disk
        /\ pc' = "checkpoint" \/ pc' = NextStep(k')
    BY <1>5 DEF SampleAndSwap
  <2>2. k \in 0..KE /\ k # KE /\ mem = Partial(Reference[k])
    BY <1>1, <2>1 DEF PlaceInv, MemoryInv
  <2>3. k' \in 0..KE BY <2>1, <2>2, SolverAssumption
  <2>4. mem' = Reference[k']
    <3>1. \A s : Partial(s) = Stepped(s) BY <2>1, StepEnds
    <3>2. mem' = SampledAndSwapped(Stepped(Reference[k]), k) BY <2>1, <2>2, <3>1
    <3>3. IsState(Reference[k]) BY <2>2, ReferenceIsState
    <3>4. mem' = Advanced(Reference[k], k) BY <3>2, <3>3, AdvancedSteps
    <3> QED BY <2>1, <2>2, <3>4, ReferenceEquations
  <2>5. CASE pc' = "checkpoint"
    <3>1. PlaceInv' BY <2>1, <2>3, <2>5, LoopNamesAre DEF PlaceInv, Places
    <3>2. MemoryInv' BY <2>4, <2>5, LoopNamesAre DEF MemoryInv
    <3>3. DiskInv' BY <1>1, <2>1, <2>5 DEF DiskInv, disk
    <3> QED BY <3>1, <3>2, <3>3 DEF IInv
  <2>6. CASE pc' = NextStep(k')
    <3>1. PlaceInv' /\ MemoryInv' /\ pc' \in {"mass", "green"}
      BY <2>1, <2>3, <2>4, <2>6, NextStepEstablishes
    <3>2. DiskInv' BY <1>1, <2>1, <3>1 DEF DiskInv, disk
    <3> QED BY <3>1, <3>2 DEF IInv
  <2> QED BY <2>1, <2>5, <2>6
<1>6. CASE WriteCheckpoint
  <2>1. /\ pc = "checkpoint" /\ ckpt' = [k |-> k, state |-> mem] /\ pc' = NextStep(k')
        /\ UNCHANGED <<mem, k, todo, green, zmax>>
    BY <1>6 DEF WriteCheckpoint
  <2>2. k \in 0..KE /\ mem = Reference[k] /\ todo = Region("mass")
    BY <1>1, <2>1 DEF PlaceInv, MemoryInv
  <2>3. PlaceInv' /\ MemoryInv' /\ pc' \in {"mass", "green"}
    BY <2>1, <2>2, NextStepEstablishes
  <2>4. ckpt'.k = k /\ ckpt'.state = mem BY <2>1
  <2>5. DiskInv' BY <1>1, <2>1, <2>2, <2>3, <2>4 DEF DiskInv
  <2> QED BY <2>3, <2>5 DEF IInv
<1>7. CASE WriteGreen
  <2>1. pc = "green" /\ green' = mem.rows /\ pc' = "zmax" /\ UNCHANGED <<mem, k, todo, ckpt, zmax>>
    BY <1>7 DEF WriteGreen
  <2>2. k = KE /\ mem = Reference[KE] BY <1>1, <2>1 DEF PlaceInv, MemoryInv
  <2>3. PlaceInv' BY <1>1, <2>1, <2>2, LoopNamesAre DEF PlaceInv, Places
  <2>4. MemoryInv' BY <2>1, <2>2, LoopNamesAre DEF MemoryInv
  <2>5. DiskInv' BY <1>1, <2>1, <2>2 DEF DiskInv
  <2> QED BY <2>3, <2>4, <2>5 DEF IInv
<1>8. CASE WriteZmax
  <2>1. pc = "zmax" /\ zmax' = mem.zmxa /\ pc' = "unlink" /\ UNCHANGED <<mem, k, todo, ckpt, green>>
    BY <1>8 DEF WriteZmax
  <2>2. k = KE /\ mem = Reference[KE] BY <1>1, <2>1 DEF PlaceInv, MemoryInv
  <2>3. PlaceInv' BY <1>1, <2>1, <2>2, LoopNamesAre DEF PlaceInv, Places
  <2>4. MemoryInv' BY <2>1, <2>2, LoopNamesAre DEF MemoryInv
  <2>5. DiskInv' BY <1>1, <2>1, <2>2 DEF DiskInv
  <2> QED BY <2>3, <2>4, <2>5 DEF IInv
<1>9. CASE UnlinkCheckpoint
  <2>1. pc = "unlink" /\ ckpt' = <<>> /\ pc' = "done" /\ UNCHANGED <<mem, k, todo, green, zmax>>
    BY <1>9 DEF UnlinkCheckpoint
  <2>2. k = KE BY <1>1, <2>1 DEF PlaceInv
  <2>3. PlaceInv' BY <1>1, <2>1, <2>2, LoopNamesAre DEF PlaceInv, Places
  <2>4. MemoryInv' BY <2>1, LoopNamesAre DEF MemoryInv
  <2>5. DiskInv' BY <1>1, <2>1 DEF DiskInv
  <2> QED BY <2>3, <2>4, <2>5 DEF IInv
<1>10. CASE Crash
  <2>1. k' = 0 /\ pc' = "down" /\ UNCHANGED disk BY <1>10 DEF Crash
  <2>2. PlaceInv' BY <2>1, SolverAssumption, LoopNamesAre DEF PlaceInv, Places
  <2>3. MemoryInv' BY <2>1, LoopNamesAre DEF MemoryInv
  <2>4. DiskInv' BY <1>1, <2>1 DEF DiskInv, disk
  <2> QED BY <2>2, <2>3, <2>4 DEF IInv
<1> QED BY <1>2, <1>3, <1>4, <1>5, <1>6, <1>7, <1>8, <1>9, <1>10 DEF SolverNext

\* The invariant gives the results their values.
LEMMA InvariantImplies == IInv => MatchesReference
<1> SUFFICES ASSUME IInv PROVE MatchesReference OBVIOUS
<1>1. PlaceInv /\ MemoryInv /\ DiskInv BY DEF IInv
<1>2. pc \in {"checkpoint", "green"} => mem = Reference[k] BY <1>1 DEF MemoryInv
<1>3. pc = "mass" /\ todo = Region("mass") => mem = Reference[k]
  <2> SUFFICES ASSUME pc = "mass", todo = Region("mass") PROVE mem = Reference[k] OBVIOUS
  <2>1. k \in 0..KE /\ mem = Partial(Reference[k])
    BY <1>1, LoopNamesAre DEF PlaceInv, MemoryInv
  <2>2. IsState(Reference[k]) BY <2>1, ReferenceIsState
  <2>3. \A s : IsState(s) => Partial(s) = s BY StepBegins
  <2> QED BY <2>1, <2>2, <2>3
<1>4. pc = "done" => green = Reference[KE].rows /\ zmax = Reference[KE].zmxa
  BY <1>1 DEF DiskInv
<1> QED BY <1>2, <1>3, <1>4 DEF MatchesReference

\* Whatever the order of the cells and wherever it crashed and resumed, a
\* finished run has written the files of the sequential program.
THEOREM Deterministic == SolverSpec => []MatchesReference
<1>1. SolverInit => IInv BY InitEstablishes
<1>2. IInv /\ [SolverNext]_solverVars => IInv' BY NextKeeps, StutterKeeps
<1>3. IInv => MatchesReference BY InvariantImplies
<1> QED BY <1>1, <1>2, <1>3, PTL DEF SolverSpec

-----------------------------------------------------------------------------
(* The travel-time solver: its queue *)

QueueType == [key : [Nodes -> Int], seq : [Nodes -> Nat], heap : Seq(Nodes),
              pos : [Nodes -> Nat], counter : Nat]

\* `pos` and `heap` are inverse.
Shape(q) ==
  /\ \A i \in 1..Len(q.heap) : q.pos[q.heap[i]] = i
  /\ \A n \in Nodes : /\ q.pos[n] <= Len(q.heap)
                      /\ q.pos[n] > 0 => q.heap[q.pos[n]] = n

\* The nodes in the heap are those that have a time.
Marked(q) == \A n \in Nodes : q.pos[n] > 0 <=> q.key[n] > UNREACHED

\* No node is before its parent.
Ordered(q) == \A i \in 2..Len(q.heap) : ~Less(q, q.heap[i], q.heap[i \div 2])

Good(q) == q \in QueueType /\ Shape(q) /\ Marked(q) /\ Ordered(q)

\* While the node at place `at` rises, it alone may be before its parent, and
\* its children are not before the parent it would leave them to.
Rising(q, at) ==
  /\ \A i \in 2..Len(q.heap) : i # at => ~Less(q, q.heap[i], q.heap[i \div 2])
  /\ \A i \in 2..Len(q.heap) :
        i \div 2 = at /\ at > 1 => ~Less(q, q.heap[i], q.heap[at \div 2])

\* While it sinks, only its children may be before it, and they are not before
\* its parent.
Sinking(q, at) ==
  /\ \A i \in 2..Len(q.heap) : i \div 2 # at => ~Less(q, q.heap[i], q.heap[i \div 2])
  /\ \A i \in 2..Len(q.heap) :
        i \div 2 = at /\ at > 1 => ~Less(q, q.heap[i], q.heap[at \div 2])

\* q has the nodes and times of q0, in another order.
Permuted(q, q0) ==
  /\ q \in QueueType /\ Shape(q) /\ Len(q.heap) = Len(q0.heap)
  /\ q.key = q0.key /\ q.seq = q0.seq /\ q.counter = q0.counter
  /\ \A n \in Nodes : q.pos[n] > 0 <=> q0.pos[n] > 0

\* The order of times and ages is a strict weak order.
LEMMA LessOrders ==
  ASSUME NEW q, q \in QueueType, NEW a \in Nodes, NEW b \in Nodes
  PROVE  /\ Less(q, a, b) => ~Less(q, b, a)
         /\ \A c \in Nodes : ~Less(q, a, b) /\ ~Less(q, b, c) => ~Less(q, a, c)
<1>1. q.key \in [Nodes -> Int] /\ q.seq \in [Nodes -> Nat] BY DEF QueueType
<1> QED BY <1>1 DEF Less

\* What the exchange of two places changes.
LEMMA Swapped ==
  ASSUME NEW q, q \in QueueType, Shape(q),
         NEW i \in 1..Len(q.heap), NEW j \in 1..Len(q.heap), i # j
  PROVE  /\ Permuted(Swap(q, i, j), q)
         /\ \A m \in 1..Len(q.heap) :
              Swap(q, i, j).heap[m] = IF m = i THEN q.heap[j]
                                      ELSE IF m = j THEN q.heap[i] ELSE q.heap[m]
<1> DEFINE hp == [q.heap EXCEPT ![i] = q.heap[j], ![j] = q.heap[i]]
           p == [q.pos EXCEPT ![q.heap[i]] = j, ![q.heap[j]] = i]
           r == Swap(q, i, j)
           L == Len(q.heap)
<1>1. /\ q.key \in [Nodes -> Int] /\ q.seq \in [Nodes -> Nat] /\ q.heap \in Seq(Nodes)
      /\ q.pos \in [Nodes -> Nat] /\ q.counter \in Nat
  BY DEF QueueType
<1>2. L \in Nat /\ q.heap \in [1..L -> Nodes] BY <1>1, LenProperties
<1>3. q.heap[i] \in Nodes /\ q.heap[j] \in Nodes BY <1>2
<1>4. hp \in [1..L -> Nodes] BY <1>2, <1>3
<1>5. hp \in Seq(Nodes) /\ Len(hp) = L BY <1>2, <1>4, IsASeq
<1>6. p \in [Nodes -> Nat]
  <2>1. i \in Nat /\ j \in Nat OBVIOUS
  <2> QED BY <2>1, <1>1, <1>3
<1>7. r = [q EXCEPT !.heap = hp, !.pos = p] BY DEF Swap
<1>8. /\ r \in QueueType
      /\ r.key = q.key /\ r.seq = q.seq /\ r.counter = q.counter /\ r.heap = hp /\ r.pos = p
  BY <1>1, <1>5, <1>6, <1>7 DEF QueueType
<1>9. \A m \in 1..L : hp[m] = IF m = i THEN q.heap[j] ELSE IF m = j THEN q.heap[i] ELSE q.heap[m]
  BY <1>2
<1>10. q.heap[i] # q.heap[j] BY DEF Shape
<1>11. \A n \in Nodes : p[n] = IF n = q.heap[i] THEN j ELSE IF n = q.heap[j] THEN i ELSE q.pos[n]
  BY <1>1, <1>3, <1>10
<1>12. ASSUME NEW m \in 1..L PROVE p[hp[m]] = m
  <2>1. hp[m] \in Nodes /\ q.heap[m] \in Nodes /\ q.pos[q.heap[m]] = m BY <1>2, <1>4 DEF Shape
  <2>2. q.pos[q.heap[i]] = i /\ q.pos[q.heap[j]] = j BY DEF Shape
  <2> HIDE DEF hp, p
  <2> QED BY <2>1, <2>2, <1>9, <1>11, <1>10
<1>13. ASSUME NEW n \in Nodes
       PROVE  /\ p[n] <= L /\ (p[n] > 0 => hp[p[n]] = n)
              /\ p[n] > 0 <=> q.pos[n] > 0
  <2>1. q.pos[n] \in Nat /\ q.pos[n] <= L /\ (q.pos[n] > 0 => q.heap[q.pos[n]] = n)
    BY <1>1 DEF Shape
  <2>2. q.pos[q.heap[i]] = i /\ q.pos[q.heap[j]] = j BY DEF Shape
  <2> HIDE DEF hp, p
  <2>3. CASE n = q.heap[i] BY <2>3, <2>2, <1>9, <1>11, <1>2, <1>10
  <2>4. CASE n = q.heap[j] BY <2>4, <2>2, <1>9, <1>11, <1>2, <1>10
  <2>5. CASE n # q.heap[i] /\ n # q.heap[j]
    <3>1. p[n] = q.pos[n] BY <2>5, <1>11
    <3>2. q.pos[n] > 0 => q.pos[n] \in 1..L /\ q.pos[n] # i /\ q.pos[n] # j
      BY <2>1, <2>5, <1>2
    <3> QED BY <3>1, <3>2, <2>1, <1>9
  <2> QED BY <2>3, <2>4, <2>5
<1> HIDE DEF hp, p, r
<1>14. Shape(r) BY <1>8, <1>5, <1>12, <1>13 DEF Shape
<1>15. Permuted(r, q) BY <1>8, <1>5, <1>13, <1>14 DEF Permuted
<1> QED BY <1>8, <1>9, <1>15 DEF r

\* A reordered queue compares its nodes as before.
LEMMA PermutedLess ==
  ASSUME NEW q, NEW q0, Permuted(q, q0), NEW a, NEW b
  PROVE  Less(q, a, b) = Less(q0, a, b)
BY DEF Permuted, Less

\* Reordering twice is reordering.
LEMMA PermutedTwice ==
  ASSUME NEW q, NEW q0, NEW q1, Permuted(q, q0), Permuted(q0, q1)
  PROVE  Permuted(q, q1)
BY DEF Permuted

\* A parent's place comes before its children's.
LEMMA Parents ==
  ASSUME NEW L \in Nat
  PROVE  \A i \in 2..L : i \div 2 \in 1..L /\ i \div 2 < i
OBVIOUS

\* The places of the two children of a node.
LEMMA Children ==
  ASSUME NEW at \in Nat, at >= 1
  PROVE  /\ (2 * at) \div 2 = at /\ (2 * at + 1) \div 2 = at
         /\ \A i \in Nat : i \div 2 = at => i = 2 * at \/ i = 2 * at + 1
OBVIOUS

\* The states of _sift_up's loop and those of _sift_down's.
UpStates(q0) ==
  {s \in [q : QueueType, at : Nat] :
     Permuted(s.q, q0) /\ s.at \in 1..Len(q0.heap) /\ Rising(s.q, s.at)}
DownStates(q0) ==
  {s \in [q : QueueType, at : Nat] :
     Permuted(s.q, q0) /\ s.at \in 1..Len(q0.heap) /\ Sinking(s.q, s.at)}

\* A turn of _sift_up's loop: the node rises, or the queue is in order.
LEMMA RiseKeeps ==
  ASSUME NEW q0, q0 \in QueueType, NEW s \in UpStates(q0)
  PROVE  /\ Rise(s) \in UpStates(q0)
         /\ \/ Rise(s) = s /\ Ordered(s.q)
            \/ Rise(s).at < s.at /\ ~Ordered(s.q)
<1> DEFINE q == s.q
           at == s.at
           p == at \div 2
           L == Len(q0.heap)
           x == q.heap[at]
           y == q.heap[p]
<1>1. /\ q \in QueueType /\ at \in Nat /\ Permuted(q, q0) /\ at \in 1..L /\ Rising(q, at)
      /\ Len(q.heap) = L /\ Shape(q)
  BY DEF UpStates, Permuted
<1>2. q.heap \in Seq(Nodes) /\ L \in Nat /\ q.heap \in [1..L -> Nodes]
  BY <1>1, LenProperties DEF QueueType
<1>3. CASE ~(at > 1 /\ Less(q, x, y))
  <2>1. Rise(s) = s BY <1>3 DEF Rise
  <2>2. ASSUME NEW i \in 2..Len(q.heap) PROVE ~Less(q, q.heap[i], q.heap[i \div 2])
    BY <1>1, <1>3 DEF Rising
  <2> QED BY <2>1, <2>2 DEF Ordered
<1>4. CASE at > 1 /\ Less(q, x, y)
  <2> DEFINE r == Swap(q, at, p)
  <2>1. p \in 1..L /\ p < at /\ p # at BY <1>1, <1>2, <1>4
  <2>2. Rise(s) = [q |-> r, at |-> p] BY <1>4 DEF Rise
  <2>3. /\ Permuted(r, q)
        /\ \A m \in 1..L : r.heap[m] = IF m = at THEN y ELSE IF m = p THEN x ELSE q.heap[m]
    <3>1. at \in 1..Len(q.heap) /\ p \in 1..Len(q.heap) /\ at # p BY <1>1, <2>1
    <3> HIDE DEF p, at, q
    <3> QED BY <3>1, <1>1, Swapped
  <2> HIDE DEF r
  <2>4. Permuted(r, q0) /\ r \in QueueType /\ Len(r.heap) = L
    BY <1>1, <2>3, PermutedTwice DEF Permuted
  <2>5. \A a, b : Less(r, a, b) = Less(q, a, b) BY <2>3, PermutedLess
  <2>6. x \in Nodes /\ y \in Nodes BY <1>1, <1>2, <2>1
  <2>7. ~Less(q, y, x) BY <1>1, <1>4, <2>6, LessOrders
  <2>8. \A i \in 2..L : i \div 2 \in 1..L /\ i \div 2 < i /\ i \in 1..L BY <1>2
  <2>9. ASSUME NEW i \in 2..L, i # p
        PROVE  ~Less(q, r.heap[i], r.heap[i \div 2])
    <3> DEFINE u == q.heap[i]
    <3>1. u \in Nodes /\ i \div 2 \in 1..L /\ i \div 2 < i /\ i \in 1..L BY <1>2, <2>8
    <3>2. CASE i = at BY <3>2, <2>1, <2>3, <2>7
    <3>3. CASE i # at /\ i \div 2 = at
      <4>1. r.heap[i] = u /\ r.heap[i \div 2] = y BY <3>1, <3>3, <2>9, <2>3
      <4>2. ~Less(q, u, y) BY <1>1, <1>4, <3>3 DEF Rising
      <4> QED BY <4>1, <4>2
    <3>4. CASE i # at /\ i \div 2 = p
      <4>1. r.heap[i] = u /\ r.heap[i \div 2] = x BY <3>1, <3>4, <2>1, <2>9, <2>3
      <4>2. ~Less(q, u, y) BY <1>1, <3>4 DEF Rising
      <4> QED BY <4>1, <4>2, <3>1, <2>6, <2>7, <1>1, LessOrders
    <3>5. CASE i # at /\ i \div 2 # at /\ i \div 2 # p
      <4>1. r.heap[i] = u /\ r.heap[i \div 2] = q.heap[i \div 2]
        BY <3>1, <3>5, <2>9, <2>3
      <4>2. ~Less(q, u, q.heap[i \div 2]) BY <1>1, <3>5 DEF Rising
      <4> QED BY <4>1, <4>2
    <3> QED BY <3>2, <3>3, <3>4, <3>5
  <2>10. ASSUME NEW i \in 2..L, i \div 2 = p, p > 1
         PROVE  ~Less(q, r.heap[i], r.heap[p \div 2])
    <3> DEFINE u == q.heap[i]
               z == q.heap[p \div 2]
    <3>1. p \in 2..L /\ p \div 2 \in 1..L /\ p \div 2 < p BY <2>1, <2>10
    <3>2. u \in Nodes /\ z \in Nodes BY <1>2, <2>8, <3>1
    <3>3. r.heap[p \div 2] = z BY <3>1, <2>1, <2>3
    <3>4. ~Less(q, y, z) BY <1>1, <2>1, <3>1 DEF Rising
    <3>5. CASE i = at BY <3>5, <3>3, <3>4, <2>3, <2>8
    <3>6. CASE i # at
      <4>1. r.heap[i] = u BY <3>6, <2>10, <2>8, <2>3
      <4>2. ~Less(q, u, y) BY <1>1, <3>6, <2>10 DEF Rising
      <4> QED BY <4>1, <4>2, <3>2, <3>3, <3>4, <2>6, <1>1, LessOrders
    <3> QED BY <3>5, <3>6
  <2>11. Rising(r, p) BY <2>4, <2>5, <2>9, <2>10 DEF Rising
  <2>12. p \in Nat BY <2>1
  <2>13. ~Ordered(q)
    <3>1. at \in 2..Len(q.heap) BY <1>1, <1>2, <1>4
    <3> QED BY <3>1, <1>4 DEF Ordered
  <2> HIDE DEF p
  <2> QED BY <2>1, <2>2, <2>4, <2>11, <2>12, <2>13 DEF UpStates
<1> QED BY <1>3, <1>4

\* A turn of _sift_down's loop: the node sinks, or the queue is in order.
LEMMA SinkKeeps ==
  ASSUME NEW q0, q0 \in QueueType, NEW s \in DownStates(q0)
  PROVE  /\ Sink(s) \in DownStates(q0)
         /\ \/ Sink(s) = s /\ Ordered(s.q)
            \/ Sink(s).at > s.at /\ ~Ordered(s.q)
<1> DEFINE q == s.q
           at == s.at
           L == Len(q0.heap)
           left == 2 * at
           c == IF left + 1 <= L /\ Less(q, q.heap[left + 1], q.heap[left])
                THEN left + 1 ELSE left
           x == q.heap[at]
           w == q.heap[c]
<1>1. /\ q \in QueueType /\ at \in Nat /\ Permuted(q, q0) /\ at \in 1..L /\ Sinking(q, at)
      /\ Len(q.heap) = L /\ Shape(q)
  BY DEF DownStates, Permuted
<1>2. q.heap \in Seq(Nodes) /\ L \in Nat /\ q.heap \in [1..L -> Nodes]
  BY <1>1, LenProperties DEF QueueType
<1>3. c \in {left, left + 1} /\ (left <= L => c \in 2..L /\ c \div 2 = at /\ c > at)
  <2>1. at \in Nat /\ at >= 1 BY <1>1
  <2>2. left \div 2 = at /\ (left + 1) \div 2 = at /\ left >= 2 /\ left > at /\ left \in Nat
    <3> HIDE DEF at
    <3> QED BY <2>1, Children
  <2>3. c = left \/ (c = left + 1 /\ left + 1 <= L) OBVIOUS
  <2> HIDE DEF left, c, at
  <2> QED BY <2>1, <2>2, <2>3, <1>2
<1>4. ASSUME NEW i \in 2..L, i \div 2 = at
      PROVE  left <= L /\ ~Less(q, q.heap[i], w)
  <2>1. i \in {left, left + 1} /\ left <= L /\ left \in 1..L
    <3>1. at \in Nat /\ at >= 1 /\ i \in Nat BY <1>1
    <3> HIDE DEF at
    <3> QED BY <3>1, <1>2, <1>4, Children
  <2>2. q.heap[i] \in Nodes /\ q.heap[left] \in Nodes BY <1>2, <2>1
  <2>3. CASE i = left /\ c = left
    BY <2>2, <2>3, <1>1, LessOrders
  <2>4. CASE i = left /\ c # left
    <3>1. left + 1 <= L /\ Less(q, q.heap[left + 1], q.heap[left]) /\ c = left + 1
      BY <2>4
    <3>2. q.heap[left + 1] \in Nodes BY <1>1, <1>2, <3>1
    <3> QED BY <3>1, <3>2, <2>2, <2>4, <1>1, LessOrders
  <2>5. CASE i = left + 1 /\ c = left BY <2>5, <1>4
  <2>6. CASE i = left + 1 /\ c = left + 1
    BY <2>2, <2>6, <1>1, LessOrders
  <2> QED BY <1>3, <2>1, <2>3, <2>4, <2>5, <2>6
<1>5. Sink(s) = IF left <= L /\ Less(q, w, x) THEN [q |-> Swap(q, at, c), at |-> c] ELSE s
  BY <1>1 DEF Sink
<1>6. CASE ~(left <= L /\ Less(q, w, x))
  <2>1. Sink(s) = s BY <1>5, <1>6
  <2>2. ASSUME NEW i \in 2..L PROVE ~Less(q, q.heap[i], q.heap[i \div 2])
    <3>1. CASE i \div 2 # at BY <3>1, <1>1 DEF Sinking
    <3>2. CASE i \div 2 = at
      <4>1. left <= L /\ ~Less(q, q.heap[i], w) /\ ~Less(q, w, x) BY <3>2, <1>4, <1>6
      <4>2. q.heap[i] \in Nodes /\ w \in Nodes /\ x \in Nodes
        <5>1. i \in 1..L /\ c \in 1..L BY <1>2, <1>3, <4>1
        <5> HIDE DEF c
        <5> QED BY <1>1, <1>2, <5>1
      <4> HIDE DEF w, x
      <4>3. ~Less(q, q.heap[i], x) BY <4>1, <4>2, <1>1, LessOrders
      <4> QED BY <4>3, <3>2 DEF x
    <3> QED BY <3>1, <3>2
  <2> QED BY <2>1, <2>2, <1>1 DEF Ordered
<1>7. CASE left <= L /\ Less(q, w, x)
  <2> DEFINE r == Swap(q, at, c)
  <2>1. c \in 1..L /\ c \in 2..L /\ c \div 2 = at /\ c > at /\ c # at
    <3>1. c \in 2..L /\ c \div 2 = at /\ c > at BY <1>3, <1>7
    <3> HIDE DEF c
    <3> QED BY <3>1, <1>1, <1>2
  <2>2. Sink(s) = [q |-> r, at |-> c] BY <1>5, <1>7
  <2> HIDE DEF c
  <2>3. /\ Permuted(r, q)
        /\ \A m \in 1..L : r.heap[m] = IF m = at THEN w ELSE IF m = c THEN x ELSE q.heap[m]
    <3>1. at \in 1..Len(q.heap) /\ c \in 1..Len(q.heap) /\ at # c BY <1>1, <2>1
    <3> HIDE DEF at, q
    <3> QED BY <3>1, <1>1, Swapped
  <2> HIDE DEF r
  <2>4. Permuted(r, q0) /\ r \in QueueType /\ Len(r.heap) = L
    BY <1>1, <2>3, PermutedTwice DEF Permuted
  <2>5. \A a, b : Less(r, a, b) = Less(q, a, b) BY <2>3, PermutedLess
  <2>6. x \in Nodes /\ w \in Nodes BY <1>1, <1>2, <2>1
  <2>7. ~Less(q, x, w) BY <1>1, <1>7, <2>6, LessOrders
  <2>8. \A i \in 2..L : i \div 2 \in 1..L /\ i \div 2 < i /\ i \in 1..L BY <1>2
  <2>9. ASSUME NEW i \in 2..L, i \div 2 # c
        PROVE  ~Less(q, r.heap[i], r.heap[i \div 2])
    <3> DEFINE u == q.heap[i]
    <3>1. u \in Nodes /\ i \div 2 \in 1..L /\ i \div 2 < i /\ i \in 1..L BY <1>2, <2>8
    <3>2. CASE i = c BY <3>2, <2>1, <2>3, <2>7, <1>1
    <3>3. CASE i # c /\ i \div 2 = at
      <4>1. r.heap[i] = u /\ r.heap[i \div 2] = w BY <3>1, <3>3, <2>3
      <4>2. ~Less(q, u, w) BY <1>4, <3>3
      <4> QED BY <4>1, <4>2
    <3>4. CASE i = at
      <4>1. at > 1 /\ r.heap[i] = w /\ r.heap[i \div 2] = q.heap[at \div 2]
        BY <3>1, <3>4, <2>3, <2>9
      <4>2. ~Less(q, w, q.heap[at \div 2]) BY <1>1, <4>1, <2>1 DEF Sinking
      <4> QED BY <4>1, <4>2
    <3>5. CASE i # c /\ i # at /\ i \div 2 # at
      <4>1. r.heap[i] = u /\ r.heap[i \div 2] = q.heap[i \div 2]
        BY <3>1, <3>5, <2>9, <2>3
      <4>2. ~Less(q, u, q.heap[i \div 2]) BY <1>1, <3>5 DEF Sinking
      <4> QED BY <4>1, <4>2
    <3> QED BY <3>2, <3>3, <3>4, <3>5
  <2>10. ASSUME NEW i \in 2..L, i \div 2 = c
         PROVE  ~Less(q, r.heap[i], r.heap[c \div 2])
    <3>1. r.heap[i] = q.heap[i] /\ r.heap[c \div 2] = w
      <4>1. i \in 1..L /\ i # c /\ i # at BY <2>1, <2>8, <2>10, <1>1
      <4>2. c \div 2 = at /\ at \in 1..L BY <2>1, <1>1
      <4> HIDE DEF at, x, w
      <4>3. r.heap[i] = q.heap[i] BY <4>1, <2>3
      <4>4. r.heap[at] = w BY <4>2, <2>3
      <4> QED BY <4>2, <4>3, <4>4
    <3>2. ~Less(q, q.heap[i], q.heap[i \div 2]) BY <1>1, <2>1, <2>10 DEF Sinking
    <3> QED BY <3>1, <3>2, <2>10
  <2>11. Sinking(r, c) BY <2>4, <2>5, <2>9, <2>10 DEF Sinking
  <2>12. c \in Nat BY <2>1
  <2>13. ~Ordered(q) BY <1>1, <1>7, <2>1 DEF Ordered
  <2> QED BY <2>1, <2>2, <2>4, <2>11, <2>12, <2>13 DEF DownStates
<1> QED BY <1>6, <1>7

\* _sift_up puts in order a queue whose node at place i may be too far down.
LEMMA SiftUpSorts ==
  ASSUME NEW q, q \in QueueType, Shape(q), NEW i \in 1..Len(q.heap), Rising(q, i)
  PROVE  Permuted(SiftUp(q, i), q) /\ Ordered(SiftUp(q, i))
<1> DEFINE S == UpStates(q)
           a == [q |-> q, at |-> i]
           F == [x \in S \X (1..i) |-> Rise(x[1])]
           Is(f) == f = [j \in 0..i |-> IF j = 0 THEN [q |-> q, at |-> i] ELSE Rise(f[j - 1])]
           turn == CHOOSE f : Is(f)
<1>1. i \in Nat /\ i >= 1 /\ Len(q.heap) \in Nat BY LenProperties DEF QueueType
<1>2. Permuted(q, q) BY DEF Permuted
<1>3. a \in S BY <1>1, <1>2 DEF UpStates
<1>4. \A s \in S : Rise(s) \in S BY RiseKeeps
<1>5. F \in [S \X (1..i) -> S] BY <1>4
<1> HIDE DEF S
<1>6. \E f : Is(f)
  <2> HIDE DEF F, a, Is
  <2>1. PICK f \in [0..i -> S] : f[0] = a /\ \A j \in 1..i : f[j] = F[<<f[j - 1], j>>]
    <3>1. HasRun(i, S, a, F) BY <1>1, <1>3, <1>5, LoopHasRun DEF Bodies
    <3> QED BY <3>1 DEF HasRun
  <2>2. ASSUME NEW j \in 0..i
        PROVE  f[j] = IF j = 0 THEN [q |-> q, at |-> i] ELSE Rise(f[j - 1])
    <3>1. CASE j = 0 BY <3>1, <2>1 DEF a
    <3>2. CASE j # 0
      <4>1. j \in 1..i /\ j - 1 \in 0..i BY <3>2, <1>1
      <4>2. f[j - 1] \in S BY <2>1, <4>1
      <4>3. F[<<f[j - 1], j>>] = Rise(f[j - 1]) BY <4>1, <4>2 DEF F
      <4> QED BY <4>1, <4>3, <2>1, <3>2
    <3> QED BY <3>1, <3>2
  <2>3. Is(f) BY <2>1, <2>2 DEF Is
  <2> QED BY <2>3
<1>7. Is(turn) BY <1>6
<1>8. SiftUp(q, i) = turn[i].q BY DEF SiftUp
<1> HIDE DEF turn
<1>9. turn[0] = a /\ \A j \in 1..i : turn[j] = Rise(turn[j - 1])
  <2>1. \A j \in 0..i : turn[j] = IF j = 0 THEN [q |-> q, at |-> i] ELSE Rise(turn[j - 1])
    BY <1>7
  <2> QED BY <2>1, <1>1
<1> HIDE DEF a, Is
<1>10. \A j \in 0..i : j \in {m \in 0..i : turn[m] \in S /\ (turn[m].at <= i - m \/ Ordered(turn[m].q))}
  <2> DEFINE T == {m \in 0..i : turn[m] \in S /\ (turn[m].at <= i - m \/ Ordered(turn[m].q))}
  <2>1. 0 \in T BY <1>1, <1>3, <1>9 DEF a
  <2>2. ASSUME NEW j \in 1..i, j - 1 \in T PROVE j \in T
    <3> DEFINE s == turn[j - 1]
    <3>1. s \in S /\ (s.at <= i - (j - 1) \/ Ordered(s.q)) /\ turn[j] = Rise(s)
      BY <2>2, <1>9
    <3> HIDE DEF s
    <3>2. /\ Rise(s) \in S
          /\ (Rise(s) = s /\ Ordered(s.q)) \/ (Rise(s).at < s.at /\ ~Ordered(s.q))
      BY <3>1, RiseKeeps DEF S
    <3>3. s.at \in Nat /\ Rise(s).at \in Nat BY <3>1, <3>2 DEF S, UpStates
    <3>4. Rise(s).at <= i - j \/ Ordered(Rise(s).q) BY <3>1, <3>2, <3>3, <1>1
    <3> QED BY <3>1, <3>2, <3>4, <1>1
  <2> HIDE DEF T
  <2>3. \A j \in 0..i : j \in T BY <2>1, <2>2, <1>1, Turns
  <2> QED BY <2>3 DEF T
<1>11. turn[i] \in S /\ (turn[i].at <= i - i \/ Ordered(turn[i].q)) BY <1>10, <1>1
<1>12. turn[i].at >= 1 /\ turn[i].at \in Nat /\ Permuted(turn[i].q, q) BY <1>11 DEF S, UpStates
<1> QED BY <1>1, <1>8, <1>11, <1>12

\* _sift_down puts in order a queue whose first node may be too far up.
LEMMA SiftDownSorts ==
  ASSUME NEW q, q \in QueueType, Shape(q), Len(q.heap) >= 1, Sinking(q, 1)
  PROVE  Permuted(SiftDown(q, 1), q) /\ Ordered(SiftDown(q, 1))
<1> DEFINE L == Len(q.heap)
           S == DownStates(q)
           a == [q |-> q, at |-> 1]
           F == [x \in S \X (1..L) |-> Sink(x[1])]
           Is(f) == f = [j \in 0..L |-> IF j = 0 THEN [q |-> q, at |-> 1] ELSE Sink(f[j - 1])]
           turn == CHOOSE f : Is(f)
<1>1. L \in Nat /\ L >= 1 /\ 1 \in 1..L /\ 1 \in Nat BY LenProperties DEF QueueType
<1>2. Permuted(q, q) BY DEF Permuted
<1>3. a \in S BY <1>1, <1>2 DEF DownStates
<1>4. \A s \in S : Sink(s) \in S BY SinkKeeps
<1>5. F \in [S \X (1..L) -> S] BY <1>4
<1>8. SiftDown(q, 1) = turn[L].q BY DEF SiftDown
<1> HIDE DEF S, L
<1>6. \E f : Is(f)
  <2> HIDE DEF F, a, Is
  <2>1. PICK f \in [0..L -> S] : f[0] = a /\ \A j \in 1..L : f[j] = F[<<f[j - 1], j>>]
    <3>1. HasRun(L, S, a, F) BY <1>1, <1>3, <1>5, LoopHasRun DEF Bodies
    <3> QED BY <3>1 DEF HasRun
  <2>2. ASSUME NEW j \in 0..L
        PROVE  f[j] = IF j = 0 THEN [q |-> q, at |-> 1] ELSE Sink(f[j - 1])
    <3>1. CASE j = 0 BY <3>1, <2>1 DEF a
    <3>2. CASE j # 0
      <4>1. j \in 1..L /\ j - 1 \in 0..L BY <3>2, <1>1
      <4>2. f[j - 1] \in S BY <2>1, <4>1
      <4>3. F[<<f[j - 1], j>>] = Sink(f[j - 1]) BY <4>1, <4>2 DEF F
      <4> QED BY <4>1, <4>3, <2>1, <3>2
    <3> QED BY <3>1, <3>2
  <2>3. Is(f) BY <2>1, <2>2 DEF Is
  <2> QED BY <2>3
<1>7. Is(turn) BY <1>6
<1> HIDE DEF turn
<1>9. turn[0] = a /\ \A j \in 1..L : turn[j] = Sink(turn[j - 1])
  <2>1. \A j \in 0..L : turn[j] = IF j = 0 THEN [q |-> q, at |-> 1] ELSE Sink(turn[j - 1])
    BY <1>7
  <2> QED BY <2>1, <1>1
<1> HIDE DEF a, Is
<1>10. \A j \in 0..L : j \in {m \in 0..L : turn[m] \in S /\ (turn[m].at > m \/ Ordered(turn[m].q))}
  <2> DEFINE T == {m \in 0..L : turn[m] \in S /\ (turn[m].at > m \/ Ordered(turn[m].q))}
  <2>1. 0 \in T BY <1>1, <1>3, <1>9 DEF a
  <2>2. ASSUME NEW j \in 1..L, j - 1 \in T PROVE j \in T
    <3> DEFINE s == turn[j - 1]
    <3>1. s \in S /\ (s.at > j - 1 \/ Ordered(s.q)) /\ turn[j] = Sink(s)
      BY <2>2, <1>9
    <3> HIDE DEF s
    <3>2. /\ Sink(s) \in S
          /\ (Sink(s) = s /\ Ordered(s.q)) \/ (Sink(s).at > s.at /\ ~Ordered(s.q))
      BY <3>1, SinkKeeps DEF S
    <3>3. s.at \in Nat /\ Sink(s).at \in Nat BY <3>1, <3>2 DEF S, DownStates
    <3>4. Sink(s).at > j \/ Ordered(Sink(s).q) BY <3>1, <3>2, <3>3, <1>1
    <3> QED BY <3>1, <3>2, <3>4, <1>1
  <2> HIDE DEF T
  <2>3. \A j \in 0..L : j \in T BY <2>1, <2>2, <1>1, Turns
  <2> QED BY <2>3 DEF T
<1>11. turn[L] \in S /\ (turn[L].at > L \/ Ordered(turn[L].q)) BY <1>10, <1>1
<1>12. turn[L].at <= L /\ turn[L].at \in Nat /\ Permuted(turn[L].q, q)
  BY <1>11, <1>1 DEF S, DownStates, L
<1> QED BY <1>1, <1>8, <1>11, <1>12

\* The first node of an ordered queue is before every other.
LEMMA RootIsFirst ==
  ASSUME NEW q, q \in QueueType, Ordered(q), NEW i \in 1..Len(q.heap)
  PROVE  ~Less(q, q.heap[i], q.heap[1]) /\ q.key[q.heap[1]] <= q.key[q.heap[i]]
<1> DEFINE L == Len(q.heap)
           T == {m \in 1..L : Less(q, q.heap[m], q.heap[1])}
<1>1. L \in Nat /\ q.heap \in [1..L -> Nodes] BY LenProperties DEF QueueType
<1>2. ASSUME T # {} PROVE FALSE
  <2>0. T \subseteq Nat BY <1>1
  <2>1. PICK m \in T : \A y \in T : m <= y
    <3> HIDE DEF T
    <3> QED BY <2>0, <1>2, LeastNat
  <2>2. m \in 1..L /\ 1 \in 1..L /\ q.heap[m] \in Nodes /\ q.heap[1] \in Nodes BY <1>1, <2>1
  <2>3. m # 1 BY <2>1, <2>2, LessOrders
  <2>4. m \in 2..L /\ m \div 2 \in 1..L /\ m \div 2 < m BY <2>2, <2>3, <1>1
  <2>5. ~Less(q, q.heap[m \div 2], q.heap[1]) BY <2>1, <2>4
  <2>6. ~Less(q, q.heap[m], q.heap[m \div 2]) BY <2>4 DEF Ordered
  <2>7. q.heap[m \div 2] \in Nodes BY <2>4, <1>1
  <2> QED BY <2>1, <2>2, <2>5, <2>6, <2>7, LessOrders
<1>3. ~Less(q, q.heap[i], q.heap[1]) BY <1>2
<1>4. q.heap[i] \in Nodes /\ q.heap[1] \in Nodes /\ q.key \in [Nodes -> Int]
  BY <1>1 DEF QueueType
<1> QED BY <1>3, <1>4 DEF Less

\* A node that is queued for the first time, or again for an earlier time.
LEMMA QueueKeeps ==
  ASSUME NEW q, Good(q), NEW n \in Nodes, NEW time \in Nat,
         q.key[n] >= UNREACHED, q.key[n] = UNREACHED \/ time < q.key[n]
  PROVE  Good(Queue(q, n, time)) /\ Queue(q, n, time).key = [q.key EXCEPT ![n] = time]
<1> DEFINE L == Len(q.heap)
           p == [q EXCEPT !.key[n] = time, !.seq[n] = q.counter, !.counter = @ + 1]
<1>1. /\ q.key \in [Nodes -> Int] /\ q.seq \in [Nodes -> Nat] /\ q.heap \in Seq(Nodes)
      /\ q.pos \in [Nodes -> Nat] /\ q.counter \in Nat /\ q \in QueueType
      /\ Shape(q) /\ Marked(q) /\ Ordered(q)
  BY DEF Good, QueueType
<1>2. L \in Nat /\ q.heap \in [1..L -> Nodes] BY <1>1, LenProperties
<1>3. /\ p.heap = q.heap /\ p.pos = q.pos /\ p.counter = q.counter + 1
      /\ p.key = [q.key EXCEPT ![n] = time] /\ p.seq = [q.seq EXCEPT ![n] = q.counter]
      /\ p \in QueueType
  <2>1. /\ [q.key EXCEPT ![n] = time] \in [Nodes -> Int]
        /\ [q.seq EXCEPT ![n] = q.counter] \in [Nodes -> Nat] /\ q.counter + 1 \in Nat
    BY <1>1
  <2>2. p = [q EXCEPT !.key = [q.key EXCEPT ![n] = time],
                      !.seq = [q.seq EXCEPT ![n] = q.counter], !.counter = q.counter + 1]
    BY <1>1
  <2> HIDE DEF p
  <2> QED BY <1>1, <2>1, <2>2 DEF QueueType
<1>4. \A a, b \in Nodes : a # n /\ b # n => Less(p, a, b) = Less(q, a, b)
  BY <1>1, <1>3 DEF Less
<1>5. \A a \in Nodes : a # n /\ q.key[n] > UNREACHED /\ ~Less(q, a, n) => ~Less(p, a, n)
  BY <1>1, <1>3 DEF Less, UNREACHED
<1>6. p.key[n] = time /\ time > UNREACHED /\ \A m \in Nodes : m # n => p.key[m] = q.key[m]
  BY <1>1, <1>3 DEF UNREACHED
<1> HIDE DEF p
<1>7. CASE q.pos[n] = 0
  <2> DEFINE r == [p EXCEPT !.heap = Append(@, n), !.pos[n] = L + 1]
  <2>1. Queue(q, n, time) = SiftUp(r, L + 1) BY <1>7 DEF Queue, p
  <2>2. /\ r.heap = Append(q.heap, n) /\ r.pos = [q.pos EXCEPT ![n] = L + 1]
        /\ r.key = p.key /\ r.seq = p.seq /\ r \in QueueType
    <3>1. Append(q.heap, n) \in Seq(Nodes) /\ L + 1 \in Nat BY <1>1, <1>2, AppendProperties
    <3>2. [q.pos EXCEPT ![n] = L + 1] \in [Nodes -> Nat] BY <1>1, <3>1
    <3>3. r = [p EXCEPT !.heap = Append(q.heap, n), !.pos = [q.pos EXCEPT ![n] = L + 1]]
      BY <1>3
    <3> QED BY <1>1, <1>3, <3>1, <3>2, <3>3 DEF QueueType
  <2> HIDE DEF r
  <2>3. /\ Len(r.heap) = L + 1 /\ r.heap[L + 1] = n
        /\ \A i \in 1..L : r.heap[i] = q.heap[i]
    BY <1>1, <1>2, <2>2, AppendProperties
  <2>4. \A i \in 1..L : q.heap[i] \in Nodes /\ q.heap[i] # n BY <1>1, <1>2, <1>7 DEF Shape
  <2>5. \A m \in Nodes : r.pos[m] = IF m = n THEN L + 1 ELSE q.pos[m] BY <2>2, <1>1
  <2>6. Shape(r)
    <3>1. ASSUME NEW i \in 1..Len(r.heap) PROVE r.pos[r.heap[i]] = i
      <4>1. CASE i = L + 1 BY <4>1, <2>3, <2>5
      <4>2. CASE i # L + 1
        <5>1. i \in 1..L BY <4>2, <2>3, <1>2
        <5> QED BY <5>1, <2>3, <2>4, <2>5, <1>1 DEF Shape
      <4> QED BY <4>1, <4>2
    <3>2. ASSUME NEW m \in Nodes
          PROVE  r.pos[m] <= Len(r.heap) /\ (r.pos[m] > 0 => r.heap[r.pos[m]] = m)
      <4>1. CASE m = n BY <4>1, <2>3, <2>5, <1>2
      <4>2. CASE m # n
        <5>1. q.pos[m] \in Nat /\ q.pos[m] <= L /\ (q.pos[m] > 0 => q.heap[q.pos[m]] = m)
          BY <1>1 DEF Shape
        <5>2. q.pos[m] > 0 => q.pos[m] \in 1..L BY <5>1, <1>2
        <5> QED BY <4>2, <5>1, <5>2, <2>3, <2>5, <1>2
      <4> QED BY <4>1, <4>2
    <3> QED BY <3>1, <3>2 DEF Shape
  <2>7. \A a, b \in Nodes : a # n /\ b # n => Less(r, a, b) = Less(q, a, b)
    BY <1>4, <2>2 DEF Less
  <2>8. Rising(r, L + 1)
    <3>1. ASSUME NEW i \in 2..Len(r.heap), i # L + 1
          PROVE  ~Less(r, r.heap[i], r.heap[i \div 2])
      <4>1. i \in 1..L /\ i \div 2 \in 1..L /\ i \in 2..L BY <3>1, <2>3, <1>2
      <4>2. ~Less(q, q.heap[i], q.heap[i \div 2]) BY <4>1, <1>1 DEF Ordered
      <4> QED BY <4>1, <4>2, <2>3, <2>4, <2>7
    <3>2. ASSUME NEW i \in 2..Len(r.heap), i \div 2 = L + 1 PROVE FALSE
      BY <3>2, <2>3, <1>2
    <3> QED BY <3>1, <3>2 DEF Rising
  <2>9. L + 1 \in 1..Len(r.heap) BY <2>3, <1>2
  <2>10. Permuted(SiftUp(r, L + 1), r) /\ Ordered(SiftUp(r, L + 1))
    BY <2>2, <2>6, <2>8, <2>9, SiftUpSorts
  <2>11. \A m \in Nodes : r.pos[m] > 0 <=> r.key[m] > UNREACHED
    BY <1>1, <1>2, <1>6, <2>2, <2>5 DEF Marked
  <2> QED BY <2>1, <2>2, <2>10, <2>11, <1>3 DEF Permuted, Good, Marked
<1>8. CASE q.pos[n] # 0
  <2> DEFINE i == q.pos[n]
  <2>1. Queue(q, n, time) = SiftUp(p, i) BY <1>8 DEF Queue, p
  <2>2. i \in 1..L /\ q.heap[i] = n /\ q.key[n] > UNREACHED
    BY <1>1, <1>2, <1>8 DEF Shape, Marked
  <2>3. \A j \in 1..L : q.heap[j] \in Nodes /\ (j # i => q.heap[j] # n)
    BY <1>1, <1>2, <2>2 DEF Shape
  <2> HIDE DEF i
  <2>4. Rising(p, i)
    <3>1. ASSUME NEW j \in 2..L, j # i PROVE ~Less(p, q.heap[j], q.heap[j \div 2])
      <4>1. j \in 1..L /\ j \div 2 \in 1..L BY <1>2
      <4>2. ~Less(q, q.heap[j], q.heap[j \div 2]) BY <1>1 DEF Ordered
      <4>3. CASE j \div 2 = i BY <3>1, <4>1, <4>2, <4>3, <2>2, <2>3, <1>5
      <4>4. CASE j \div 2 # i BY <3>1, <4>1, <4>2, <4>4, <2>3, <1>4
      <4> QED BY <4>3, <4>4
    <3>2. ASSUME NEW j \in 2..L, j \div 2 = i, i > 1
          PROVE  ~Less(p, q.heap[j], q.heap[i \div 2])
      <4>1. i \in 2..L /\ j \in 1..L /\ i \div 2 \in 1..L /\ j # i /\ i \div 2 # i
        BY <1>2, <2>2, <3>2
      <4>2. ~Less(q, q.heap[j], q.heap[i]) /\ ~Less(q, q.heap[i], q.heap[i \div 2])
        BY <1>1, <3>2, <4>1 DEF Ordered
      <4>3. ~Less(q, q.heap[j], q.heap[i \div 2])
        BY <4>1, <4>2, <2>2, <2>3, <1>1, LessOrders
      <4> QED BY <4>1, <4>3, <2>3, <1>4
    <3> QED BY <3>1, <3>2, <1>3 DEF Rising
  <2>5. Shape(p) BY <1>1, <1>3 DEF Shape
  <2>6. Permuted(SiftUp(p, i), p) /\ Ordered(SiftUp(p, i))
    BY <2>2, <2>4, <2>5, <1>3, SiftUpSorts
  <2>7. \A m \in Nodes : p.pos[m] > 0 <=> p.key[m] > UNREACHED
    BY <1>1, <1>3, <1>6, <2>2 DEF Marked
  <2> QED BY <2>1, <2>6, <2>7, <1>3 DEF Permuted, Good, Marked
<1> QED BY <1>7, <1>8

\* The first node leaves: it is settled, and what is left is in order.
LEMMA PopKeeps ==
  ASSUME NEW q, Good(q), q.heap # <<>>
  PROVE  /\ Good(Pop(q)) /\ Pop(q).key = [q.key EXCEPT ![q.heap[1]] = SETTLED]
         /\ q.heap[1] \in Nodes /\ q.key[q.heap[1]] \in Nat
         /\ \A n \in Nodes : q.key[n] > UNREACHED => q.key[q.heap[1]] <= q.key[n]
<1> DEFINE L == Len(q.heap)
           first == q.heap[1]
           hp == [q.heap EXCEPT ![1] = q.heap[L]]
           r == [q EXCEPT !.heap = SubSeq(hp, 1, L - 1),
                          !.pos = [[@ EXCEPT ![q.heap[L]] = 1] EXCEPT ![first] = 0],
                          !.key[first] = SETTLED]
<1>1. /\ q.key \in [Nodes -> Int] /\ q.seq \in [Nodes -> Nat] /\ q.heap \in Seq(Nodes)
      /\ q.pos \in [Nodes -> Nat] /\ q.counter \in Nat /\ q \in QueueType
      /\ Shape(q) /\ Marked(q) /\ Ordered(q)
  BY DEF Good, QueueType
<1>2. L \in Nat /\ q.heap \in [1..L -> Nodes] /\ L >= 1 /\ L - 1 \in Nat
  <2>1. L \in Nat /\ q.heap \in [1..L -> Nodes] /\ L # 0
    BY <1>1, LenProperties, EmptySeq
  <2> QED BY <2>1
<1>3. 1 \in 1..L /\ L \in 1..L /\ first \in Nodes /\ q.heap[L] \in Nodes
  BY <1>2
<1>4. q.pos[first] = 1 /\ q.pos[q.heap[L]] = L /\ q.key[first] > UNREACHED
  <2>1. q.pos[first] = 1 /\ q.pos[q.heap[L]] = L BY <1>1, <1>3 DEF Shape
  <2>2. first \in Nodes /\ q.pos[first] > 0 BY <1>3, <2>1
  <2> HIDE DEF first
  <2> QED BY <1>1, <2>1, <2>2 DEF Marked
<1>5. q.key[first] \in Nat BY <1>1, <1>3, <1>4 DEF UNREACHED
<1>6. ASSUME NEW n \in Nodes, q.key[n] > UNREACHED PROVE q.key[first] <= q.key[n]
  <2>1. q.pos[n] \in 1..L /\ q.heap[q.pos[n]] = n BY <1>1, <1>2, <1>6 DEF Shape, Marked
  <2> QED BY <2>1, <1>1, RootIsFirst
<1>7. Pop(q) = IF L = 1 THEN r ELSE SiftDown(r, 1) BY DEF Pop
<1>8. hp \in [1..L -> Nodes] /\ hp \in Seq(Nodes) /\ Len(hp) = L
  <2>1. hp \in [1..L -> Nodes] BY <1>2, <1>3
  <2> QED BY <2>1, <1>2, IsASeq
<1>9. hp[1] = q.heap[L] /\ \A i \in 2..L : hp[i] = q.heap[i] BY <1>2, <1>3
<1>0. Len(q.heap) = L OBVIOUS
<1> HIDE DEF hp, L
<1>10. /\ SubSeq(hp, 1, L - 1) \in Seq(Nodes) /\ Len(SubSeq(hp, 1, L - 1)) = L - 1
       /\ \A i \in 1..(L - 1) : SubSeq(hp, 1, L - 1)[i] = hp[i]
  <2>1. SubSeq(hp, 1, L - 1) = [i \in 1..(L - 1) |-> hp[i]] BY <1>2, <1>8
  <2>2. \A i \in 1..(L - 1) : i \in 1..L /\ hp[i] \in Nodes BY <1>2, <1>8
  <2>3. [i \in 1..(L - 1) |-> hp[i]] \in [1..(L - 1) -> Nodes] BY <2>2
  <2> QED BY <2>1, <2>3, <1>2, IsASeq
<1>11. /\ r.heap = SubSeq(hp, 1, L - 1) /\ r.key = [q.key EXCEPT ![first] = SETTLED]
       /\ r.pos = [[q.pos EXCEPT ![q.heap[L]] = 1] EXCEPT ![first] = 0]
       /\ r.seq = q.seq /\ r.counter = q.counter /\ r \in QueueType
  <2>1. [q.key EXCEPT ![first] = SETTLED] \in [Nodes -> Int] BY <1>1, <1>3 DEF SETTLED
  <2>2. [[q.pos EXCEPT ![q.heap[L]] = 1] EXCEPT ![first] = 0] \in [Nodes -> Nat]
    BY <1>1, <1>3
  <2>3. r = [q EXCEPT !.heap = SubSeq(hp, 1, L - 1),
                      !.pos = [[q.pos EXCEPT ![q.heap[L]] = 1] EXCEPT ![first] = 0],
                      !.key = [q.key EXCEPT ![first] = SETTLED]]
    BY <1>1
  <2> HIDE DEF r, first
  <2> QED BY <1>1, <1>10, <2>1, <2>2, <2>3 DEF QueueType
<1> HIDE DEF r
<1>12. /\ Len(r.heap) = L - 1
       /\ \A i \in 1..(L - 1) : r.heap[i] = IF i = 1 THEN q.heap[L] ELSE q.heap[i]
  BY <1>2, <1>9, <1>10, <1>11
<1>13. \A m \in Nodes : r.pos[m] = IF m = first THEN 0
                                   ELSE IF m = q.heap[L] THEN 1 ELSE q.pos[m]
  BY <1>1, <1>3, <1>11
<1>14. \A i \in 1..L : q.heap[i] \in Nodes /\ q.pos[q.heap[i]] = i BY <1>0, <1>1, <1>2 DEF Shape
<1>15. Shape(r)
  <2>1. ASSUME NEW i \in 1..Len(r.heap) PROVE r.pos[r.heap[i]] = i
    <3>1. i \in 1..(L - 1) /\ i \in 1..L /\ i # L BY <1>2, <1>12
    <3>2. CASE i = 1
      <4>1. r.heap[i] = q.heap[L] /\ q.heap[L] # first BY <3>1, <3>2, <1>12, <1>4
      <4> QED BY <4>1, <3>2, <1>13, <1>3
    <3>3. CASE i # 1
      <4>1. r.heap[i] = q.heap[i] /\ q.heap[i] # first /\ q.heap[i] # q.heap[L]
        BY <3>1, <3>3, <1>12, <1>14, <1>4
      <4> QED BY <4>1, <3>1, <1>13, <1>14
    <3> QED BY <3>2, <3>3
  <2>2. ASSUME NEW m \in Nodes
        PROVE  r.pos[m] <= Len(r.heap) /\ (r.pos[m] > 0 => r.heap[r.pos[m]] = m)
    <3>1. CASE m = first BY <3>1, <1>12, <1>13, <1>2
    <3>2. CASE m # first /\ m = q.heap[L]
      <4>1. L # 1 BY <3>2
      <4>2. 1 \in 1..(L - 1) BY <4>1, <1>2
      <4>3. r.pos[m] = 1 /\ r.heap[1] = m BY <3>2, <4>2, <1>12, <1>13
      <4> QED BY <4>1, <4>3, <1>2, <1>12
    <3>3. CASE m # first /\ m # q.heap[L]
      <4>1. r.pos[m] = q.pos[m] /\ q.pos[m] \in Nat /\ q.pos[m] <= L
            /\ (q.pos[m] > 0 => q.heap[q.pos[m]] = m)
        BY <3>3, <1>0, <1>1, <1>13 DEF Shape
      <4>2. q.pos[m] # 1 /\ q.pos[m] # L BY <4>1, <3>3, <1>2
      <4>3. q.pos[m] > 0 => q.pos[m] \in 1..(L - 1) BY <4>1, <4>2, <1>2
      <4> QED BY <4>1, <4>2, <4>3, <1>2, <1>12
    <3> QED BY <3>1, <3>2, <3>3
  <2> QED BY <2>1, <2>2 DEF Shape
<1>16. Marked(r)
  <2>1. ASSUME NEW m \in Nodes PROVE r.pos[m] > 0 <=> r.key[m] > UNREACHED
    <3>1. CASE m = first BY <3>1, <1>1, <1>11, <1>13 DEF SETTLED, UNREACHED
    <3>2. CASE m # first /\ m = q.heap[L]
      <4>1. q.key[m] > UNREACHED BY <3>2, <1>1, <1>2, <1>3, <1>4 DEF Marked
      <4> QED BY <3>2, <4>1, <1>1, <1>11, <1>13
    <3>3. CASE m # first /\ m # q.heap[L]
      <4>1. r.pos[m] = q.pos[m] /\ r.key[m] = q.key[m] BY <3>3, <1>1, <1>11, <1>13
      <4> QED BY <4>1, <1>1 DEF Marked
    <3> QED BY <3>1, <3>2, <3>3
  <2> QED BY <2>1 DEF Marked
<1>17. \A a, b \in Nodes : a # first /\ b # first => Less(r, a, b) = Less(q, a, b)
  BY <1>1, <1>11 DEF Less
<1>18. CASE L = 1
  <2>1. Ordered(r) BY <1>18, <1>12 DEF Ordered
  <2> QED BY <1>18, <1>5, <1>6, <1>3, <1>7, <1>11, <1>15, <1>16, <2>1 DEF Good
<1>19. CASE L # 1
  <2>1. Sinking(r, 1)
    <3>1. ASSUME NEW i \in 2..Len(r.heap), i \div 2 # 1
          PROVE  ~Less(r, r.heap[i], r.heap[i \div 2])
      <4>1. i \in 2..L /\ i \in 1..(L - 1) /\ i \div 2 \in 1..(L - 1) /\ i # 1 /\ i \div 2 # 1
            /\ i \in 1..L /\ i \div 2 \in 1..L
        BY <3>1, <1>2, <1>12
      <4>2. ~Less(q, q.heap[i], q.heap[i \div 2]) BY <4>1, <1>0, <1>1 DEF Ordered
      <4>3. q.heap[i] # first /\ q.heap[i \div 2] # first BY <4>1, <1>4, <1>14
      <4> QED BY <4>1, <4>2, <4>3, <1>12, <1>14, <1>17
    <3> QED BY <3>1 DEF Sinking
  <2>2. Len(r.heap) >= 1 BY <1>2, <1>12, <1>19
  <2>3. Permuted(SiftDown(r, 1), r) /\ Ordered(SiftDown(r, 1))
    BY <2>1, <2>2, <1>11, <1>15, SiftDownSorts
  <2>4. Good(SiftDown(r, 1)) BY <2>3, <1>16 DEF Permuted, Good, Marked
  <2> QED BY <2>3, <2>4, <1>19, <1>5, <1>6, <1>3, <1>7, <1>11 DEF Permuted
<1> QED BY <1>18, <1>19
-----------------------------------------------------------------------------
(* The travel-time solver: lengths, sums and costs *)

\* Division with rest.
LEMMA Division ==
  ASSUME NEW a \in Int, NEW b \in Nat, b > 0
  PROVE  /\ a \div b \in Int /\ (a % b) \in 0..(b - 1) /\ a = b * (a \div b) + (a % b)
         /\ a >= 0 => a \div b \in Nat
OBVIOUS

\* What the costs need of a row of the stencil's table.
RowTyped(r) ==
  /\ r.unit \in Nat \ {0} /\ r.major \in Nat \ {0} /\ r.minor \in Nat
  /\ r.cells \in Seq(Int \X Int \X Nat)

\* The rows of the octets have it, and only those of the axes and the diagonals
\* end next to the node.
LEMMA RowsTyped ==
  ASSUME NEW o \in 1..16
  PROVE  RowTyped(Primitives[o]) /\ (o > 2 => Primitives[o].major > 1)
<1>1. RowTyped(Row_1_0) BY DEF RowTyped, Row_1_0
<1>2. RowTyped(Row_1_1) BY DEF RowTyped, Row_1_1
<1>3. RowTyped(Row_2_1) /\ Row_2_1.major > 1 BY DEF RowTyped, Row_2_1
<1>4. RowTyped(Row_3_1) /\ Row_3_1.major > 1 BY DEF RowTyped, Row_3_1
<1>5. RowTyped(Row_3_2) /\ Row_3_2.major > 1 BY DEF RowTyped, Row_3_2
<1>6. RowTyped(Row_4_1) /\ Row_4_1.major > 1 BY DEF RowTyped, Row_4_1
<1>7. RowTyped(Row_4_3) /\ Row_4_3.major > 1 BY DEF RowTyped, Row_4_3
<1>8. RowTyped(Row_5_1) /\ Row_5_1.major > 1 BY DEF RowTyped, Row_5_1
<1>9. RowTyped(Row_5_2) /\ Row_5_2.major > 1 BY DEF RowTyped, Row_5_2
<1>10. RowTyped(Row_5_3) /\ Row_5_3.major > 1 BY DEF RowTyped, Row_5_3
<1>11. RowTyped(Row_6_1) /\ Row_6_1.major > 1 BY DEF RowTyped, Row_6_1
<1>12. RowTyped(Row_5_4) /\ Row_5_4.major > 1 BY DEF RowTyped, Row_5_4
<1>13. RowTyped(Row_7_3) /\ Row_7_3.major > 1 BY DEF RowTyped, Row_7_3
<1>14. RowTyped(Row_8_1) /\ Row_8_1.major > 1 BY DEF RowTyped, Row_8_1
<1>15. RowTyped(Row_7_6) /\ Row_7_6.major > 1 BY DEF RowTyped, Row_7_6
<1>16. RowTyped(Row_13_1) /\ Row_13_1.major > 1 BY DEF RowTyped, Row_13_1
<1>17. \/ o = 1 /\ Primitives[o] = Row_1_0
       \/ o = 2 /\ Primitives[o] = Row_1_1
       \/ /\ o > 2
          /\ Primitives[o] \in {Row_2_1, Row_3_1, Row_3_2, Row_4_1, Row_4_3, Row_5_1, Row_5_2,
                                Row_5_3, Row_6_1, Row_5_4, Row_7_3, Row_8_1, Row_7_6, Row_13_1}
  BY DEF Primitives
<1> QED
  BY <1>1, <1>2, <1>3, <1>4, <1>5, <1>6, <1>7, <1>8, <1>9, <1>10, <1>11, <1>12, <1>13,
     <1>14, <1>15, <1>16, <1>17

\* The reflections keep cells on the grid's axes.
LEMMA ReflectTyped ==
  ASSUME NEW n \in 1..8, NEW x \in Int, NEW y \in Int
  PROVE  /\ Reflect(n, x, y) \in Int \X Int
         /\ Reflect(n, x, y)[1] \in {x, -x} \/ Reflect(n, x, y)[2] \in {x, -x}
<1>1. n \in {1, 2, 3, 4, 5, 6, 7, 8} OBVIOUS
<1> QED BY <1>1 DEF Reflect

\* What the directions select.
LEMMA DirectionsTyped ==
  ASSUME NEW dir \in 1..NEIGHBOURS
  PROVE  /\ Directions[dir].octet \in 1..16 /\ Directions[dir].image \in 1..8
         /\ dir > 8 => Directions[dir].octet > 2
         /\ dir <= 4 => Directions[dir].octet = 1
         /\ dir > 4 /\ dir <= 8 => Directions[dir].octet = 2
<1>1. dir \in 1..120 BY DEF NEIGHBOURS
<1>2. Directions[dir] = CASE dir <= 4 -> [octet |-> 1, image |-> <<1, 2, 5, 6>>[dir]]
          [] dir \in 5..8 -> [octet |-> 2, image |-> dir - 4]
          [] OTHER  -> [octet |-> 3 + (dir - 9) \div 8, image |-> ((dir - 9) % 8) + 1]
  BY DEF Directions
<1>3. CASE dir <= 4
  <2>1. dir \in {1, 2, 3, 4} BY <1>1, <1>3
  <2>2. <<1, 2, 5, 6>>[dir] \in 1..8 BY <2>1
  <2>3. Directions[dir] = [octet |-> 1, image |-> <<1, 2, 5, 6>>[dir]] BY <1>1, <1>2, <1>3
  <2> QED BY <1>1, <1>3, <2>2, <2>3
<1>4. CASE dir > 4 /\ dir <= 8
  <2>1. Directions[dir] = [octet |-> 2, image |-> dir - 4] BY <1>1, <1>2, <1>4
  <2> QED BY <1>1, <1>4, <2>1
<1>5. CASE dir > 8
  <2>1. Directions[dir] = [octet |-> 3 + (dir - 9) \div 8, image |-> ((dir - 9) % 8) + 1]
    BY <1>1, <1>2, <1>5
  <2>2. (dir - 9) \div 8 \in 0..13 /\ (dir - 9) % 8 \in 0..7 BY <1>1, <1>5
  <2> QED BY <1>1, <1>5, <2>1, <2>2
<1> QED BY <1>1, <1>3, <1>4, <1>5

\* The whole part of a square root exists, and is what its name says.
LEMMA RootNear ==
  ASSUME NEW v \in Nat
  PROVE  /\ Root(v) \in Nat /\ Root(v) * Root(v) <= v
         /\ v < (Root(v) + 1) * (Root(v) + 1)
<1> DEFINE P(r) == r * r <= v /\ v < (r + 1) * (r + 1)
           T == {r \in Nat : v < (r + 1) * (r + 1)}
<1>1. v \in T OBVIOUS
<1>2. PICK r \in T : \A y \in T : r <= y
  <2>1. T \subseteq Nat /\ T # {} BY <1>1
  <2> HIDE DEF T
  <2> QED BY <2>1, LeastNat
<1>3. r \in 0..v /\ v < (r + 1) * (r + 1) BY <1>1, <1>2
<1>4. r * r <= v
  <2>1. CASE r = 0 BY <2>1
  <2>2. CASE r # 0
    <3>1. r - 1 \in Nat /\ ~(r <= r - 1) BY <1>3, <2>2
    <3>2. r - 1 \notin T BY <3>1, <1>2
    <3>3. ~(v < ((r - 1) + 1) * ((r - 1) + 1)) BY <3>1, <3>2
    <3>4. (r - 1) + 1 = r BY <1>3
    <3> QED BY <3>3, <3>4, <1>3
  <2> QED BY <2>1, <2>2
<1>5. \E x \in 0..v : P(x) BY <1>3, <1>4
<1>6. Root(v) \in 0..v /\ P(Root(v)) BY <1>5 DEF Root
<1> QED BY <1>6

\* A sum turn by turn.
LEMMA SumTurns ==
  ASSUME NEW S, S \in {Nat, Int}, NEW n \in Nat, NEW f \in [1..n -> S]
  PROVE  \E g \in [0..n -> S] : /\ g[0] = 0 /\ SumTo(f, n) = g[n]
                                /\ \A i \in 1..n : g[i] = g[i - 1] + f[i]
<1> DEFINE F == [x \in S \X (1..n) |-> x[1] + f[x[2]]]
           Is(g) == g = [i \in 0..n |-> IF i = 0 THEN 0 ELSE g[i - 1] + f[i]]
           sum == CHOOSE g : Is(g)
<1>1. 0 \in S /\ \A a, b \in S : a + b \in S OBVIOUS
<1>2. F \in [S \X (1..n) -> S] BY <1>1
<1>3. SumTo(f, n) = sum[n] BY DEF SumTo
<1>4. \E g \in [0..n -> S] : Is(g)
  <2> HIDE DEF F, Is
  <2>1. PICK g \in [0..n -> S] : g[0] = 0 /\ \A j \in 1..n : g[j] = F[<<g[j - 1], j>>]
    <3>1. HasRun(n, S, 0, F) BY <1>1, <1>2, LoopHasRun DEF Bodies
    <3> QED BY <3>1 DEF HasRun
  <2>2. ASSUME NEW i \in 0..n PROVE g[i] = IF i = 0 THEN 0 ELSE g[i - 1] + f[i]
    <3>1. CASE i = 0 BY <3>1, <2>1
    <3>2. CASE i # 0
      <4>1. i \in 1..n /\ i - 1 \in 0..n BY <3>2
      <4>2. g[i - 1] \in S BY <2>1, <4>1
      <4>3. F[<<g[i - 1], i>>] = g[i - 1] + f[i] BY <4>1, <4>2 DEF F
      <4> QED BY <4>1, <4>3, <2>1, <3>2
    <3> QED BY <3>1, <3>2
  <2>3. Is(g) BY <2>1, <2>2 DEF Is
  <2> QED BY <2>3
<1>5. Is(sum) BY <1>4
<1> HIDE DEF sum
<1>6. \A i \in 0..n : sum[i] = IF i = 0 THEN 0 ELSE sum[i - 1] + f[i] BY <1>5
<1>7. sum = [i \in 0..n |-> sum[i]]
  <2>1. sum = [i \in 0..n |-> IF i = 0 THEN 0 ELSE sum[i - 1] + f[i]] BY <1>5
  <2> QED BY <2>1, <1>6
<1> HIDE DEF Is
<1>8. sum[0] = 0 BY <1>6
<1>9. ASSUME NEW j \in 1..n PROVE sum[j] = sum[j - 1] + f[j]
  <2>1. j \in 0..n /\ j # 0 OBVIOUS
  <2> QED BY <2>1, <1>6
<1> DEFINE T == {i \in 0..n : sum[i] \in S}
<1>10. 0 \in T BY <1>1, <1>8
<1>11. ASSUME NEW j \in 1..n, j - 1 \in T PROVE j \in T
  <2>1. j \in 0..n /\ sum[j - 1] \in S BY <1>11
  <2>2. f[j] \in S OBVIOUS
  <2> QED BY <2>1, <2>2, <1>1, <1>9
<1> HIDE DEF T
<1>12. \A i \in 0..n : i \in T BY <1>10, <1>11, Turns
<1>13. sum \in [0..n -> S] BY <1>7, <1>12 DEF T
<1> QED BY <1>3, <1>8, <1>9, <1>13

\* A sum is a number of the kind of its terms.
LEMMA SumTyped ==
  ASSUME NEW S, S \in {Nat, Int}, NEW n \in Nat, NEW f \in [1..n -> S]
  PROVE  SumTo(f, n) \in S
<1>1. CASE S = Nat
  <2>1. f \in [1..n -> Nat] BY <1>1
  <2>2. \E g \in [0..n -> Nat] : g[0] = 0 /\ SumTo(f, n) = g[n]
                                /\ \A i \in 1..n : g[i] = g[i - 1] + f[i]
    BY <2>1, SumTurns
  <2> QED BY <2>2, <1>1
<1>2. CASE S = Int
  <2>1. f \in [1..n -> Int] BY <1>2
  <2>2. \E g \in [0..n -> Int] : g[0] = 0 /\ SumTo(f, n) = g[n]
                                /\ \A i \in 1..n : g[i] = g[i - 1] + f[i]
    BY <2>1, SumTurns
  <2> QED BY <2>2, <1>2
<1> QED BY <1>1, <1>2

\* A sum of terms above zero is above zero.
LEMMA SumPositive ==
  ASSUME NEW n \in Nat, n > 0, NEW f \in [1..n -> Int], \A i \in 1..n : f[i] > 0
  PROVE  SumTo(f, n) > 0
<1>1. PICK g \in [0..n -> Int] : /\ g[0] = 0 /\ SumTo(f, n) = g[n]
                                 /\ \A i \in 1..n : g[i] = g[i - 1] + f[i]
  BY SumTurns
<1> DEFINE T == {j \in 0..n : g[j] >= j}
<1>2. 0 \in T BY <1>1
<1>3. ASSUME NEW j \in 1..n, j - 1 \in T PROVE j \in T
  <2>1. j \in 0..n /\ g[j - 1] >= j - 1 /\ g[j - 1] \in Int /\ f[j] \in Int /\ f[j] > 0
    BY <1>1, <1>3
  <2>2. g[j] = g[j - 1] + f[j] BY <1>1
  <2> QED BY <2>1, <2>2
<1> HIDE DEF T
<1>4. \A j \in 0..n : j \in T BY <1>2, <1>3, Turns
<1>5. n \in T BY <1>4
<1> QED BY <1>1, <1>5 DEF T

\* What the solver's table holds for a direction.
LEMMA SegmentsTyped ==
  ASSUME NEW dir \in Near, NEW s, s = Segments[dir]
  PROVE  /\ s.to \in Int \X Int /\ s.unit \in Nat \ {0} /\ s.steps \in Nat \ {0}
         /\ Len(s.weights) \in Nat
         /\ \A i \in 1..Len(s.weights) : s.weights[i][1] \in s.block /\ s.weights[i][2] \in Nat
         /\ \A mode \in {"client", "default"}, row \in 0..NY-1 : s.metres[mode][row] \in Nat
         /\ s.to[1] \in -1..1 /\ s.to[2] \in -1..1 => s.block = {s.to}
         /\ s.to # <<0, 0>>
<1> DEFINE d == Directions[dir]
           r == Row(d)
           c == r.cells
<1>1. dir \in 1..NEIGHBOURS BY DEF Near
<1>2. d.octet \in 1..16 /\ d.image \in 1..8 BY <1>1, DirectionsTyped
<1>3. RowTyped(r) BY <1>2, RowsTyped DEF Row
<1>4. /\ s.to = Neighbour(d) /\ s.block = BlockCells(d) /\ s.weights = Weighted(d)
      /\ s.unit = r.unit /\ s.steps = 2 * r.major
      /\ \A mode \in {"client", "default"}, row \in 0..NY-1 :
            s.metres[mode][row] = Metres(mode, row, Neighbour(d))
  BY DEF Segments
<1>5. r.major \in Nat /\ r.minor \in Nat /\ r.major > 0 /\ r.unit \in Nat \ {0}
      /\ c \in Seq(Int \X Int \X Nat)
  BY <1>3 DEF RowTyped
<1>6. Neighbour(d) = Reflect(d.image, r.major, r.minor) BY DEF Neighbour
<1>7. /\ Neighbour(d) \in Int \X Int
      /\ Neighbour(d)[1] \in {r.major, -r.major} \/ Neighbour(d)[2] \in {r.major, -r.major}
  <2> DEFINE M == r.major
             m == r.minor
             g == d.image
  <2>1. M \in Int /\ m \in Int /\ g \in 1..8 /\ Neighbour(d) = Reflect(g, M, m)
    BY <1>2, <1>5, <1>6
  <2> HIDE DEF M, m, g
  <2>2. /\ Reflect(g, M, m) \in Int \X Int
        /\ Reflect(g, M, m)[1] \in {M, -M} \/ Reflect(g, M, m)[2] \in {M, -M}
    BY <2>1, ReflectTyped
  <2> QED BY <2>1, <2>2 DEF M
<1>8. Len(c) \in Nat /\ \A i \in 1..Len(c) : c[i] \in Int \X Int \X Nat BY <1>5
<1>9. /\ Len(Weighted(d)) = Len(c)
      /\ \A i \in 1..Len(c) : Weighted(d)[i] = <<Reflect(d.image, c[i][1], c[i][2]), c[i][3]>>
  <2> DEFINE w == [i \in 1..Len(c) |-> <<Reflect(d.image, c[i][1], c[i][2]), c[i][3]>>]
  <2>1. Weighted(d) = w BY DEF Weighted
  <2>2. \A i \in 1..Len(c) : w[i] = <<Reflect(d.image, c[i][1], c[i][2]), c[i][3]>> OBVIOUS
  <2>3. DOMAIN w = 1..Len(c) OBVIOUS
  <2>4. w \in [1..Len(c) -> {w[i] : i \in 1..Len(c)}] OBVIOUS
  <2> HIDE DEF w
  <2>5. Len(w) = Len(c) BY <2>4, <1>8, IsASeq
  <2> QED BY <2>1, <2>2, <2>5
<1>10. \A i \in 1..Len(c) : Weighted(d)[i][1] \in BlockCells(d) /\ Weighted(d)[i][2] \in Nat
  BY <1>8, <1>9 DEF BlockCells
<1>11. ASSUME NEW mode \in {"client", "default"}, NEW row \in 0..NY-1
       PROVE  Metres(mode, row, Neighbour(d)) \in Nat
  <2> DEFINE x == Neighbour(d)[1]
             y == Neighbour(d)[2]
             end == IF mode = "client" THEN row ELSE row - y
             v == x * x * CellWidth[row] * CellWidth[end] + y * y * CellHeight * CellHeight
  <2>1. x \in Int /\ y \in Int BY <1>7
  <2>2. CASE end \in 0..NY-1
    <3>1. CellWidth[row] \in Nat /\ CellWidth[end] \in Nat /\ CellHeight \in Nat
      BY <2>2, GridAssumption
    <3>2. Metres(mode, row, Neighbour(d)) = Root(v) BY <2>2 DEF Metres
    <3>3. v \in Nat
      <4>1. x * x \in Nat /\ y * y \in Nat BY <2>1
      <4>2. \A a, b \in Nat : a * b \in Nat OBVIOUS
      <4>3. x * x * CellWidth[row] \in Nat /\ y * y * CellHeight \in Nat BY <4>1, <4>2, <3>1
      <4>4. x * x * CellWidth[row] * CellWidth[end] \in Nat
            /\ y * y * CellHeight * CellHeight \in Nat
        BY <4>2, <4>3, <3>1
      <4> QED BY <4>4
    <3> HIDE DEF v
    <3> QED BY <3>2, <3>3, RootNear
  <2>3. CASE ~(end \in 0..NY-1) BY <2>3 DEF Metres
  <2> QED BY <2>2, <2>3
<1>12. ASSUME NEW x \in Int, NEW y \in Int, x \in -1..1, y \in -1..1,
              Neighbour(d) = <<x, y>>
       PROVE  BlockCells(d) = {Neighbour(d)}
  <2>2. r.major = 1
    <3> DEFINE M == r.major
    <3>1. M \in Nat /\ M > 0 BY <1>5
    <3>2. x \in {M, -M} \/ y \in {M, -M} BY <1>7, <1>12
    <3> HIDE DEF M
    <3>3. M = 1 BY <3>1, <3>2, <1>12
    <3> QED BY <3>3 DEF M
  <2>3. d.octet <= 2 BY <2>2, <1>2, RowsTyped DEF Row
  <2>4. r \in {Row_1_0, Row_1_1} BY <2>3, <1>2 DEF Row, Primitives
  <2>5. Len(c) = 1 /\ c[1][1] = r.major /\ c[1][2] = r.minor
    BY <2>4 DEF Row_1_0, Row_1_1
  <2>6. Blockers(d) = {} BY <2>2 DEF Blockers
  <2>7. Weighted(d)[1][1] = Neighbour(d) BY <2>5, <1>6, <1>9
  <2> QED BY <2>5, <2>6, <2>7 DEF BlockCells
<1>13. Neighbour(d) # <<0, 0>>
  <2> DEFINE M == r.major
  <2>1. /\ M \in Nat /\ M > 0
        /\ Neighbour(d)[1] \in {M, -M} \/ Neighbour(d)[2] \in {M, -M}
    BY <1>5, <1>7
  <2> HIDE DEF M
  <2> QED BY <2>1
<1> HIDE DEF d, r, c
<1>14. 2 * r.major \in Nat \ {0} BY <1>5
<1>15. s.to[1] \in -1..1 /\ s.to[2] \in -1..1 => s.block = {s.to}
  <2>1. s.to = <<s.to[1], s.to[2]>> /\ s.to[1] \in Int /\ s.to[2] \in Int BY <1>4, <1>7
  <2> QED BY <2>1, <1>4, <1>12
<1>16. \A i \in 1..Len(s.weights) : s.weights[i][1] \in s.block /\ s.weights[i][2] \in Nat
  BY <1>4, <1>9, <1>10
<1>17. Len(s.weights) \in Nat BY <1>4, <1>8, <1>9
<1>18. \A mode \in {"client", "default"}, row \in 0..NY-1 : s.metres[mode][row] \in Nat
  BY <1>4, <1>11
<1> QED BY <1>4, <1>5, <1>7, <1>13, <1>14, <1>15, <1>16, <1>17, <1>18

\* The inputs of a run.
InputsOK ==
  /\ slowness \in [Nodes -> Nat]
  /\ request.lon \in Int /\ request.lat \in Int
  /\ request.mode \in {"client", "default"} /\ (NodeOffset = 1 => request.mode = "default")

\* A segment whose cells are on the grid costs a time.
LEMMA CostTyped ==
  ASSUME InputsOK, NEW dir \in Near, NEW n \in Nodes,
         \A c \in Segments[dir].block : Shift(n, c) \in Nodes
  PROVE  Cost(n, Segments[dir]) \in Nat
<1> DEFINE s == Segments[dir]
           L == Len(s.weights)
           w == [i \in 1..L |-> s.weights[i][2] * slowness[Shift(n, s.weights[i][1])]]
           sum == s.unit * slowness[n] + SumTo(w, L)
           m == s.metres[request.mode][n[1]]
<1>1. /\ s.unit \in Nat \ {0} /\ s.steps \in Nat \ {0} /\ L \in Nat
      /\ \A i \in 1..L : s.weights[i][1] \in s.block /\ s.weights[i][2] \in Nat
      /\ \A mode \in {"client", "default"}, row \in 0..NY-1 : s.metres[mode][row] \in Nat
  BY SegmentsTyped
<1>2. Cost(n, s) = (m * sum) \div (s.unit * s.steps) BY DEF Cost
<1>3. ASSUME NEW i \in 1..L
      PROVE  s.weights[i][2] * slowness[Shift(n, s.weights[i][1])] \in Nat
  <2> DEFINE a == s.weights[i][2]
             b == slowness[Shift(n, s.weights[i][1])]
  <2>1. s.weights[i][1] \in s.block /\ a \in Nat BY <1>1
  <2>2. Shift(n, s.weights[i][1]) \in Nodes BY <2>1
  <2>3. b \in Nat BY <2>2 DEF InputsOK
  <2> HIDE DEF a, b
  <2>4. a * b \in Nat BY <2>1, <2>3
  <2> QED BY <2>4 DEF a, b
<1>4. w \in [1..L -> Nat] BY <1>3
<1>5. n[1] \in 0..NY-1 BY DEF Nodes
<1>6. m \in Nat /\ slowness[n] \in Nat BY <1>1, <1>5 DEF InputsOK
<1> HIDE DEF w, m, L
<1>7. SumTo(w, L) \in Nat BY <1>1, <1>4, SumTyped
<1>8. sum \in Nat /\ s.unit * s.steps \in Nat /\ s.unit * s.steps > 0
  <2> DEFINE u == s.unit
             v == s.steps
             o == slowness[n]
             z == SumTo(w, L)
  <2>1. u \in Nat \ {0} /\ v \in Nat \ {0} /\ o \in Nat /\ z \in Nat BY <1>1, <1>6, <1>7
  <2> HIDE DEF u, v, o, z
  <2>2. u * o + z \in Nat /\ u * v \in Nat /\ u * v > 0 BY <2>1
  <2> QED BY <2>2 DEF u, v, o, z
<1> HIDE DEF sum
<1>9. m * sum \in Nat BY <1>6, <1>8
<1> QED BY <1>2, <1>8, <1>9, Division

\* Bounds of a clipped number.
LEMMA Clipped ==
  ASSUME NEW v \in Int, NEW low \in Int, NEW high \in Int, low <= high
  PROVE  Clip(v, low, high) \in low..high
BY DEF Clip

\* Clipping brings numbers no farther apart, and leaves those within the bounds.
LEMMA ClipStep ==
  ASSUME NEW high \in Nat, NEW v \in Int, NEW u \in Int
  PROVE  /\ v - u \in -1..1 => Clip(v, 0, high) - Clip(u, 0, high) \in -1..1
         /\ v \in 0..high => Clip(v, 0, high) = v
BY DEF Clip

\* Rounding moves a number by half a unit at most.
LEMMA RoundNear ==
  ASSUME NEW v \in Int, NEW den \in Nat, den > 0
  PROVE  /\ Round(v, den) \in Int
         /\ 2 * (v - den * Round(v, den)) <= den /\ 2 * (v - den * Round(v, den)) >= -den
<1> DEFINE q == v \div den
           r == v % den
<1>1. q \in Int /\ r \in 0..(den - 1) /\ v = den * q + r BY Division
<1>2. Round(v, den) = IF 2 * r > den \/ (2 * r = den /\ q % 2 = 1) THEN q + 1 ELSE q
  BY DEF Round
<1> HIDE DEF q, r
<1>3. den * (q + 1) = den * q + den /\ den * q \in Int BY <1>1
<1>4. CASE Round(v, den) = q /\ ~(2 * r > den) BY <1>1, <1>3, <1>4
<1>5. CASE Round(v, den) = q + 1 /\ 2 * r >= den BY <1>1, <1>3, <1>5
<1> QED BY <1>1, <1>2, <1>4, <1>5

\* Numbers less than a unit apart are rounded to one number or to neighbours.
LEMMA RoundStep ==
  ASSUME NEW v \in Int, NEW u \in Int, NEW den \in Nat, den > 0, v - u < den, u - v < den
  PROVE  Round(v, den) - Round(u, den) \in -1..1
<1> DEFINE a == Round(v, den)
           b == Round(u, den)
<1>1. /\ a \in Int /\ 2 * (v - den * a) <= den /\ 2 * (v - den * a) >= -den
      /\ b \in Int /\ 2 * (u - den * b) <= den /\ 2 * (u - den * b) >= -den
  BY RoundNear
<1> HIDE DEF a, b
<1>2. den * a \in Int /\ den * b \in Int /\ den * (a - b) = den * a - den * b BY <1>1
<1>3. den * (a - b) < 2 * den /\ den * (a - b) > -(2 * den) BY <1>1, <1>2
<1>4. ASSUME a - b >= 2 PROVE FALSE
  <2>1. den * (a - b) >= den * 2 BY <1>1, <1>4
  <2> QED BY <2>1, <1>1, <1>2, <1>3
<1>5. ASSUME a - b <= -2 PROVE FALSE
  <2>1. den * (a - b) <= den * (-2) BY <1>1, <1>5
  <2> QED BY <2>1, <1>1, <1>2, <1>3
<1>6. a - b \in -1..1 BY <1>1, <1>4, <1>5
<1> QED BY <1>6 DEF a, b

\* What is less than half a unit from a whole number is rounded to it.
LEMMA RoundWhole ==
  ASSUME NEW v \in Int, NEW c \in Int, NEW den \in Nat, den > 0,
         2 * (v - den * c) < den, 2 * (v - den * c) > -den
  PROVE  Round(v, den) = c
<1> DEFINE a == Round(v, den)
<1>1. /\ a \in Int /\ 2 * (v - den * a) <= den /\ 2 * (v - den * a) >= -den
  BY RoundNear
<1> HIDE DEF a
<1>2. den * a \in Int /\ den * c \in Int /\ den * (a - c) = den * a - den * c BY <1>1
<1>3. den * (a - c) < den /\ den * (a - c) > -den BY <1>1, <1>2
<1>4. ASSUME a - c >= 1 PROVE FALSE
  <2>1. den * (a - c) >= den * 1 BY <1>1, <1>4
  <2> QED BY <2>1, <1>1, <1>2, <1>3
<1>5. ASSUME a - c <= -1 PROVE FALSE
  <2>1. den * (a - c) <= den * (-1) BY <1>1, <1>5
  <2> QED BY <2>1, <1>1, <1>2, <1>3
<1>6. a = c BY <1>1, <1>4, <1>5
<1> QED BY <1>6 DEF a

\* The unit does not matter.
LEMMA RoundScales ==
  ASSUME NEW v \in Int, NEW s \in Nat, s > 0
  PROVE  Round(v * s, 4 * s) = Round(v, 4)
<1> DEFINE q == v \div 4
           r == v % 4
           Q == (v * s) \div (4 * s)
           R == (v * s) % (4 * s)
<1>1. q \in Int /\ r \in 0..3 /\ v = 4 * q + r OBVIOUS
<1>2. v * s \in Int /\ 4 * s \in Nat /\ 4 * s > 0 OBVIOUS
<1>3. Q \in Int /\ R \in 0..(4 * s - 1) /\ v * s = (4 * s) * Q + R BY <1>2, Division
<1>4. /\ Round(v * s, 4 * s) = IF 2 * R > 4 * s \/ (2 * R = 4 * s /\ Q % 2 = 1) THEN Q + 1 ELSE Q
      /\ Round(v, 4) = IF 2 * r > 4 \/ (2 * r = 4 /\ q % 2 = 1) THEN q + 1 ELSE q
  BY DEF Round
<1> HIDE DEF q, r, Q, R
<1>5. v * s = (4 * s) * q + r * s BY <1>1
<1>6. r * s \in 0..(4 * s - 1)
  <2>1. r \in {0, 1, 2, 3} BY <1>1
  <2> QED BY <2>1
<1>7. (4 * s) * (q - Q) = R - r * s BY <1>1, <1>3, <1>5, <1>6
<1>8. q = Q
  <2> DEFINE d == 4 * s
             e == r * s
  <2>1. d \in Nat /\ d > 0 /\ e \in 0..(d - 1) /\ R \in 0..(d - 1) /\ d * (q - Q) = R - e
    BY <1>3, <1>6, <1>7
  <2> HIDE DEF d, e
  <2>2. ASSUME q - Q >= 1 PROVE FALSE
    <3>1. d * (q - Q) >= d * 1 BY <2>1, <2>2, <1>1, <1>3
    <3> QED BY <3>1, <2>1
  <2>3. ASSUME q - Q <= -1 PROVE FALSE
    <3>1. d * (q - Q) <= d * (-1) BY <2>1, <2>3, <1>1, <1>3
    <3> QED BY <3>1, <2>1
  <2> QED BY <2>2, <2>3, <1>1, <1>3
<1>9. R = r * s BY <1>1, <1>3, <1>5, <1>6, <1>8
<1>10. (2 * R > 4 * s <=> 2 * r > 4) /\ (2 * R = 4 * s <=> 2 * r = 4)
  <2>1. r \in {0, 1, 2, 3} BY <1>1
  <2> QED BY <2>1, <1>9
<1> QED BY <1>4, <1>8, <1>10

\* A rounded number is a number.
LEMMA Rounded ==
  ASSUME NEW v \in Int, NEW den \in Nat, den > 0
  PROVE  Round(v, den) \in Int
BY RoundNear

\* The position asked for is a number of quarter cells.
LEMMA PositionTyped ==
  ASSUME InputsOK
  PROVE  X(request) \in Int /\ Y(request) \in Int
<1>1. Circle \in Nat /\ Circle > 0 /\ NodeOffset \in Int
  BY GridAssumption DEF XMax
<1>2. request.lon % Circle \in Int BY <1>1, Division DEF InputsOK
<1> QED BY <1>1, <1>2 DEF X, Y, WrapLongitude, InputsOK

\* The node that the j-th sample on the way from the epicenter to node n is
\* nearest to.
Sample(n, steps, j) ==
  LET D == 4 * steps
      px == X(request) * steps + j * (4 * n[2] - X(request))
      py == Y(request) * steps + j * (4 * (NY - 1 - n[1]) - Y(request))
  IN <<NY - 1 - Clip(Round(py, D), 0, NY - 1), Clip(Round(px, D), 0, NX - 1)>>

\* Where the samples are.
LEMMA SampleTyped ==
  ASSUME InputsOK, NEW n \in Nodes, NEW steps \in Nat, steps > 0, NEW j \in 0..steps
  PROVE  Sample(n, steps, j) \in Nodes
<1> DEFINE D == 4 * steps
           px == X(request) * steps + j * (4 * n[2] - X(request))
           py == Y(request) * steps + j * (4 * (NY - 1 - n[1]) - Y(request))
<1>1. NX \in Nat /\ NY \in Nat /\ NX >= 2 /\ NY >= 2 BY GridAssumption
<1>2. n[1] \in 0..NY-1 /\ n[2] \in 0..NX-1 BY DEF Nodes
<1>3. px \in Int /\ py \in Int
  <2>1. X(request) \in Int /\ Y(request) \in Int /\ j \in Int BY PositionTyped
  <2>2. 4 * n[2] \in Int /\ 4 * (NY - 1 - n[1]) \in Int BY <1>1, <1>2
  <2>3. \A a, b, c \in Int : a * steps + c * (b - a) \in Int OBVIOUS
  <2> QED BY <2>1, <2>2, <2>3
<1>4. D \in Nat /\ D > 0 OBVIOUS
<1>5. Sample(n, steps, j) = <<NY - 1 - Clip(Round(py, D), 0, NY - 1), Clip(Round(px, D), 0, NX - 1)>>
  BY DEF Sample
<1> HIDE DEF D, px, py
<1>6. /\ Clip(Round(py, D), 0, NY - 1) \in 0..NY-1
      /\ Clip(Round(px, D), 0, NX - 1) \in 0..NX-1
  <2>1. Round(py, D) \in Int /\ Round(px, D) \in Int BY <1>3, <1>4, Rounded
  <2>2. NY - 1 \in Int /\ NX - 1 \in Int /\ 0 <= NY - 1 /\ 0 <= NX - 1 /\ 0 \in Int BY <1>1
  <2> QED BY <2>1, <2>2, Clipped
<1> DEFINE a == Clip(Round(py, D), 0, NY - 1)
<1>7. NY - 1 - a \in 0..NY-1
  <2>1. a \in 0..NY-1 BY <1>6
  <2> HIDE DEF a
  <2> QED BY <2>1, <1>1
<1> QED BY <1>5, <1>6, <1>7 DEF Nodes

\* The first sample is nearest to the source, and the last one is the node.
LEMMA SampleEnds ==
  ASSUME InputsOK, locate_source(request) \in Nodes, NEW n \in Nodes,
         NEW steps \in Nat, steps > 0
  PROVE  Sample(n, steps, 0) = locate_source(request) /\ Sample(n, steps, steps) = n
<1> DEFINE D == 4 * steps
           x == X(request)
           y == Y(request)
           x1 == 4 * n[2]
           y1 == 4 * (NY - 1 - n[1])
<1>1. NX \in Nat /\ NY \in Nat /\ NX >= 2 /\ NY >= 2 BY GridAssumption
<1>2. n[1] \in 0..NY-1 /\ n[2] \in 0..NX-1 /\ n = <<n[1], n[2]>> BY DEF Nodes
<1>3. x \in Int /\ y \in Int BY PositionTyped
<1>4. x1 \in Int /\ y1 \in Int BY <1>1, <1>2
<1>5. locate_source(request) = <<NY - 1 - Round(y, 4), Round(x, 4)>> BY DEF locate_source
<1>6. Round(y, 4) \in Int /\ Round(x, 4) \in Int
  <2>1. 4 \in Nat /\ 4 > 0 OBVIOUS
  <2> QED BY <2>1, <1>3, Rounded
<1>7. Round(y, 4) \in 0..NY-1 /\ Round(x, 4) \in 0..NX-1
  <2>1. NY - 1 - Round(y, 4) \in 0..NY-1 /\ Round(x, 4) \in 0..NX-1 BY <1>5 DEF Nodes
  <2> QED BY <2>1, <1>1, <1>6
<1>8. ASSUME NEW j \in Int
      PROVE  Sample(n, steps, j) = <<NY - 1 - Clip(Round(y * steps + j * (y1 - y), D), 0, NY - 1),
                                     Clip(Round(x * steps + j * (x1 - x), D), 0, NX - 1)>>
  BY DEF Sample
<1>9. Round(x * steps, D) = Round(x, 4) /\ Round(y * steps, D) = Round(y, 4)
  BY <1>3, RoundScales
<1>10. x * steps + 0 * (x1 - x) = x * steps /\ y * steps + 0 * (y1 - y) = y * steps
  <2> HIDE DEF x, y, x1, y1
  <2> QED BY <1>3, <1>4
<1>11. x * steps + steps * (x1 - x) = D * n[2] /\ y * steps + steps * (y1 - y) = D * (NY - 1 - n[1])
  <2>1. \A a, b \in Int : a * steps + steps * (b - a) = steps * b OBVIOUS
  <2>2. x * steps + steps * (x1 - x) = steps * x1 /\ y * steps + steps * (y1 - y) = steps * y1
    BY <2>1, <1>3, <1>4
  <2>3. \A c \in Int : steps * (4 * c) = (4 * steps) * c OBVIOUS
  <2>4. n[2] \in Int /\ NY - 1 - n[1] \in Int BY <1>1, <1>2
  <2>5. steps * (4 * n[2]) = (4 * steps) * n[2]
        /\ steps * (4 * (NY - 1 - n[1])) = (4 * steps) * (NY - 1 - n[1])
    BY <2>3, <2>4
  <2> QED BY <2>2, <2>5
<1> HIDE DEF x, y, x1, y1
<1>12. Round(D * n[2], D) = n[2] /\ Round(D * (NY - 1 - n[1]), D) = NY - 1 - n[1]
  <2>1. D \in Nat /\ D > 0 OBVIOUS
  <2>2. ASSUME NEW c \in Int PROVE Round(D * c, D) = c
    <3>1. D * c \in Int BY <2>1
    <3>2. 2 * (D * c - D * c) < D /\ 2 * (D * c - D * c) > -D BY <2>1, <3>1
    <3> HIDE DEF D
    <3> QED BY <2>1, <3>1, <3>2, RoundWhole
  <2>3. n[2] \in Int /\ NY - 1 - n[1] \in Int BY <1>1, <1>2
  <2> HIDE DEF D
  <2> QED BY <2>2, <2>3
<1> HIDE DEF D
<1>13. NY - 1 \in Nat /\ NX - 1 \in Nat BY <1>1
<1>14. Sample(n, steps, 0) = locate_source(request)
  <2>1. Sample(n, steps, 0) = <<NY - 1 - Clip(Round(y, 4), 0, NY - 1), Clip(Round(x, 4), 0, NX - 1)>>
    BY <1>8, <1>9, <1>10
  <2>2. Clip(Round(y, 4), 0, NY - 1) = Round(y, 4) /\ Clip(Round(x, 4), 0, NX - 1) = Round(x, 4)
    BY <1>6, <1>7, <1>13, ClipStep
  <2> QED BY <2>1, <2>2, <1>5
<1>15. Sample(n, steps, steps) = n
  <2>1. Sample(n, steps, steps) = <<NY - 1 - Clip(NY - 1 - n[1], 0, NY - 1), Clip(n[2], 0, NX - 1)>>
    BY <1>8, <1>11, <1>12
  <2>2. NY - 1 - n[1] \in 0..NY-1 /\ NY - 1 - n[1] \in Int /\ n[2] \in Int BY <1>1, <1>2
  <2>3. Clip(NY - 1 - n[1], 0, NY - 1) = NY - 1 - n[1] /\ Clip(n[2], 0, NX - 1) = n[2]
    BY <2>2, <1>2, <1>13, ClipStep
  <2>4. NY - 1 - (NY - 1 - n[1]) = n[1] BY <1>1, <1>2
  <2> QED BY <2>1, <2>3, <2>4, <1>2
<1> QED BY <1>14, <1>15

\* Samples that are less than a cell apart are nearest to one node or to two
\* that touch.
LEMMA SampleStep ==
  ASSUME InputsOK, NEW n \in Nodes, NEW steps \in Nat, steps > 0, NEW j \in 1..steps,
         4 * n[2] - X(request) \in (1 - 4 * steps)..(4 * steps - 1),
         4 * (NY - 1 - n[1]) - Y(request) \in (1 - 4 * steps)..(4 * steps - 1)
  PROVE  /\ Sample(n, steps, j - 1)[1] - Sample(n, steps, j)[1] \in -1..1
         /\ Sample(n, steps, j - 1)[2] - Sample(n, steps, j)[2] \in -1..1
<1> DEFINE D == 4 * steps
           dx == 4 * n[2] - X(request)
           dy == 4 * (NY - 1 - n[1]) - Y(request)
           px(i) == X(request) * steps + i * dx
           py(i) == Y(request) * steps + i * dy
<1>1. NX \in Nat /\ NY \in Nat /\ NX >= 2 /\ NY >= 2 /\ NY - 1 \in Nat /\ NX - 1 \in Nat
  BY GridAssumption
<1>2. dx \in Int /\ dy \in Int /\ X(request) \in Int /\ Y(request) \in Int
      /\ dx \in (1 - D)..(D - 1) /\ dy \in (1 - D)..(D - 1)
  BY PositionTyped
<1>3. D \in Nat /\ D > 0 OBVIOUS
<1>4. \A i \in Int :
        /\ Sample(n, steps, i)[1] = NY - 1 - Clip(Round(py(i), D), 0, NY - 1)
        /\ Sample(n, steps, i)[2] = Clip(Round(px(i), D), 0, NX - 1)
  BY DEF Sample
<1> HIDE DEF dx, dy, D
<1>5. \A i \in Int : px(i) \in Int /\ py(i) \in Int
  <2>1. \A a, b, i \in Int : a * steps + i * b \in Int OBVIOUS
  <2> QED BY <2>1, <1>2
<1>6. px(j) - px(j - 1) = dx /\ py(j) - py(j - 1) = dy
  <2>1. \A a, b \in Int : (a * steps + j * b) - (a * steps + (j - 1) * b) = b OBVIOUS
  <2> QED BY <2>1, <1>2
<1>7. j \in Int /\ j - 1 \in Int OBVIOUS
<1> DEFINE a == px(j)
           b == px(j - 1)
           c == py(j)
           d == py(j - 1)
<1>8. a \in Int /\ b \in Int /\ c \in Int /\ d \in Int BY <1>5, <1>7
<1>9. /\ Sample(n, steps, j)[1] = NY - 1 - Clip(Round(c, D), 0, NY - 1)
      /\ Sample(n, steps, j)[2] = Clip(Round(a, D), 0, NX - 1)
      /\ Sample(n, steps, j - 1)[1] = NY - 1 - Clip(Round(d, D), 0, NY - 1)
      /\ Sample(n, steps, j - 1)[2] = Clip(Round(b, D), 0, NX - 1)
  BY <1>4, <1>7
<1>10. a - b = dx /\ c - d = dy BY <1>6
<1> HIDE DEF a, b, c, d
<1>11. a - b < D /\ b - a < D /\ c - d < D /\ d - c < D BY <1>2, <1>3, <1>8, <1>10
<1>12. Round(b, D) - Round(a, D) \in -1..1 /\ Round(c, D) - Round(d, D) \in -1..1
  BY <1>3, <1>8, <1>11, RoundStep
<1>13. Round(a, D) \in Int /\ Round(b, D) \in Int /\ Round(c, D) \in Int /\ Round(d, D) \in Int
  BY <1>3, <1>8, Rounded
<1> DEFINE ca == Clip(Round(a, D), 0, NX - 1)
           cb == Clip(Round(b, D), 0, NX - 1)
           cc == Clip(Round(c, D), 0, NY - 1)
           cd == Clip(Round(d, D), 0, NY - 1)
<1>14. cb - ca \in -1..1 /\ cc - cd \in -1..1 BY <1>1, <1>12, <1>13, ClipStep
<1>15. cc \in Int /\ cd \in Int
  <2>1. 0 \in Int /\ NY - 1 \in Int /\ 0 <= NY - 1 BY <1>1
  <2>2. cc \in 0..NY-1 /\ cd \in 0..NY-1 BY <2>1, <1>13, Clipped
  <2> QED BY <2>2, <1>1
<1> HIDE DEF ca, cb, cc, cd
<1>16. (NY - 1 - cd) - (NY - 1 - cc) = cc - cd BY <1>1, <1>15
<1> QED BY <1>9, <1>14, <1>16 DEF ca, cb, cc, cd

\* The mean slowness along a seed's segment is a number, and tells whether a
\* sample is nearest to land.
LEMMA MeanSamples ==
  ASSUME InputsOK, NEW n \in Nodes, NEW steps \in Nat, steps > 0
  PROVE  /\ MeanSlowness(n, steps) \in Nat
         /\ MeanSlowness(n, steps) > 0
              <=> \A j \in 0..steps : slowness[Sample(n, steps, j)] > 0
<1> DEFINE D  == 4 * steps
           x1 == 4 * n[2]
           y1 == 4 * (NY - 1 - n[1])
           px(j) == X(request) * steps + j * (x1 - X(request))
           py(j) == Y(request) * steps + j * (y1 - Y(request))
           at(south, column) == slowness[<<NY - 1 - south, column>>]
           nearest(j) == at(Clip(Round(py(j), D), 0, NY - 1),
                            Clip(Round(px(j), D), 0, NX - 1))
           column(j) == Clip(px(j) \div D, 0, NX - 2)
           south(j)  == Clip(py(j) \div D, 0, NY - 2)
           fx(j) == Clip(px(j) - column(j) * D, 0, D)
           fy(j) == Clip(py(j) - south(j) * D, 0, D)
           corner(j, dy, dx) == at(south(j) + dy, column(j) + dx)
           interpolated(j) ==
             IF \E dy, dx \in {0, 1} : corner(j, dy, dx) = 0
             THEN nearest(j) * D * D
             ELSE corner(j, 0, 0) * (D - fx(j)) * (D - fy(j)) + corner(j, 0, 1) * fx(j) * (D - fy(j))
                  + corner(j, 1, 0) * (D - fx(j)) * fy(j) + corner(j, 1, 1) * fx(j) * fy(j)
           f == [i \in 1..(steps + 1) |->
                   IF i \in {1, steps + 1} THEN interpolated(i - 1) ELSE 2 * interpolated(i - 1)]
<1>1. MeanSlowness(n, steps) = IF \E j \in 0..steps : nearest(j) = 0 THEN 0
                               ELSE SumTo(f, steps + 1)
  BY DEF MeanSlowness
<1>2. NX \in Nat /\ NY \in Nat /\ NX >= 2 /\ NY >= 2 BY GridAssumption
<1>3. D \in Nat /\ D > 0 OBVIOUS
<1>4. n[1] \in 0..NY-1 /\ n[2] \in 0..NX-1 BY DEF Nodes
<1>5. x1 \in Int /\ y1 \in Int BY <1>2, <1>4
<1>6. \A j \in 0..steps : nearest(j) = slowness[Sample(n, steps, j)] BY DEF Sample
<1>7. \A j \in 0..steps : nearest(j) \in Nat
  <2>1. \A j \in 0..steps : Sample(n, steps, j) \in Nodes BY SampleTyped
  <2> QED BY <2>1, <1>6 DEF InputsOK
<1>8. ASSUME NEW v \in 0..NY-1, NEW u \in 0..NX-1 PROVE at(v, u) \in Nat
  <2>1. <<NY - 1 - v, u>> \in Nodes BY <1>2 DEF Nodes
  <2> QED BY <2>1 DEF InputsOK
<1> HIDE DEF x1, y1, D, at, nearest
<1>9. ASSUME NEW j \in 0..steps, nearest(j) # 0 PROVE interpolated(j) \in Int /\ interpolated(j) > 0
  <2>1. px(j) \in Int /\ py(j) \in Int
    <3>1. X(request) \in Int /\ Y(request) \in Int /\ j \in Int BY PositionTyped
    <3>2. \A a, b, c \in Int : a * steps + c * (b - a) \in Int OBVIOUS
    <3> QED BY <3>1, <3>2, <1>5
  <2> HIDE DEF px, py
  <2>2. column(j) \in 0..(NX - 2) /\ south(j) \in 0..(NY - 2)
    <3>1. px(j) \div D \in Int /\ py(j) \div D \in Int BY <2>1, <1>3, Division
    <3>2. NY - 2 \in Int /\ NX - 2 \in Int /\ 0 <= NY - 2 /\ 0 <= NX - 2 /\ 0 \in Int BY <1>2
    <3> QED BY <3>1, <3>2, Clipped
  <2> HIDE DEF column, south
  <2>3. fx(j) \in 0..D /\ fy(j) \in 0..D
    <3>1. column(j) \in Int /\ south(j) \in Int /\ D \in Int /\ 0 <= D /\ 0 \in Int
      BY <2>2, <1>2, <1>3
    <3>2. px(j) - column(j) * D \in Int /\ py(j) - south(j) * D \in Int BY <3>1, <2>1
    <3> QED BY <3>1, <3>2, Clipped
  <2> HIDE DEF fx, fy
  <2>4. \A dy, dx \in {0, 1} : corner(j, dy, dx) \in Nat
    <3>1. \A dy, dx \in {0, 1} : south(j) + dy \in 0..NY-1 /\ column(j) + dx \in 0..NX-1
      BY <2>2, <1>2
    <3> QED BY <3>1, <1>8
  <2> HIDE DEF corner
  <2>5. CASE \E dy, dx \in {0, 1} : corner(j, dy, dx) = 0
    <3> DEFINE z == nearest(j)
    <3>1. z \in Nat /\ z > 0 BY <1>7, <1>9
    <3> HIDE DEF z
    <3>2. z * D \in Nat /\ z * D > 0 BY <3>1, <1>3
    <3>3. z * D * D \in Nat /\ z * D * D > 0 BY <3>2, <1>3
    <3> QED BY <3>3, <2>5 DEF z
  <2>6. CASE ~ \E dy, dx \in {0, 1} : corner(j, dy, dx) = 0
    <3> DEFINE a == corner(j, 0, 0)
               b == corner(j, 0, 1)
               c == corner(j, 1, 0)
               d == corner(j, 1, 1)
               p == fx(j)
               q == fy(j)
               P == D - p
               Q == D - q
    <3>1. a \in Nat /\ a >= 1 /\ b \in Nat /\ b >= 1 /\ c \in Nat /\ c >= 1 /\ d \in Nat /\ d >= 1
      BY <2>4, <2>6
    <3>2. p \in Nat /\ q \in Nat /\ P \in Nat /\ Q \in Nat /\ p + P = D /\ q + Q = D
      BY <2>3, <1>3
    <3>3. interpolated(j) = a * P * Q + b * p * Q + c * P * q + d * p * q BY <2>6
    <3> HIDE DEF a, b, c, d, p, q, P, Q
    <3>4. \A i, u, v \in Nat : i >= 1 => i * u * v \in Nat /\ i * u * v >= u * v
      <4>1. ASSUME NEW i \in Nat, NEW u \in Nat, NEW v \in Nat, i >= 1
            PROVE  i * u * v \in Nat /\ i * u * v >= u * v
        <5>1. u * v \in Nat /\ i * u * v = i * (u * v) OBVIOUS
        <5> DEFINE w == u * v
        <5>2. w \in Nat BY <5>1
        <5> HIDE DEF w
        <5>3. i * w \in Nat /\ i * w >= w BY <5>2, <4>1
        <5> QED BY <5>1, <5>3 DEF w
      <4> QED BY <4>1
    <3>5. /\ a * P * Q \in Nat /\ a * P * Q >= P * Q /\ b * p * Q \in Nat /\ b * p * Q >= p * Q
          /\ c * P * q \in Nat /\ c * P * q >= P * q /\ d * p * q \in Nat /\ d * p * q >= p * q
      BY <3>1, <3>2, <3>4
    <3>6. P * Q + p * Q + P * q + p * q = (p + P) * (q + Q) BY <3>2
    <3>7. (p + P) * (q + Q) > 0 BY <3>2, <1>3
    <3>8. P * Q \in Int /\ p * Q \in Int /\ P * q \in Int /\ p * q \in Int BY <3>2
    <3> QED BY <3>3, <3>5, <3>6, <3>7, <3>8
  <2> QED BY <2>5, <2>6
<1> HIDE DEF interpolated
<1>10. CASE \E j \in 0..steps : nearest(j) = 0
  <2>1. MeanSlowness(n, steps) = 0 BY <1>1, <1>10
  <2>2. PICK j \in 0..steps : nearest(j) = 0 BY <1>10
  <2>3. ~(slowness[Sample(n, steps, j)] > 0) BY <2>2, <1>6
  <2> QED BY <2>1, <2>3
<1>11. CASE \A j \in 0..steps : nearest(j) # 0
  <2>1. ASSUME NEW i \in 1..(steps + 1) PROVE f[i] \in Int /\ f[i] > 0
    <3>1. i - 1 \in 0..steps OBVIOUS
    <3>2. interpolated(i - 1) \in Int /\ interpolated(i - 1) > 0 BY <3>1, <1>9, <1>11
    <3>3. f[i] = IF i \in {1, steps + 1} THEN interpolated(i - 1) ELSE 2 * interpolated(i - 1)
      OBVIOUS
    <3> HIDE DEF f
    <3> QED BY <3>2, <3>3
  <2>2. f = [i \in 1..(steps + 1) |-> f[i]] OBVIOUS
  <2>3. f \in [1..(steps + 1) -> Int] BY <2>1, <2>2
  <2>4. steps + 1 \in Nat /\ steps + 1 > 0 OBVIOUS
  <2> HIDE DEF f
  <2>5. SumTo(f, steps + 1) > 0 /\ SumTo(f, steps + 1) \in Int
    BY <2>1, <2>3, <2>4, SumPositive, SumTyped
  <2>6. MeanSlowness(n, steps) > 0 /\ MeanSlowness(n, steps) \in Nat BY <2>5, <1>1, <1>11
  <2>7. \A j \in 0..steps : slowness[Sample(n, steps, j)] > 0
    <3>1. \A j \in 0..steps : nearest(j) \in Nat /\ nearest(j) # 0 BY <1>7, <1>11
    <3> QED BY <3>1, <1>6
  <2> QED BY <2>6, <2>7
<1> QED BY <1>10, <1>11

\* A seed's distance and its time are numbers.
LEMMA SeedTyped ==
  ASSUME InputsOK, NEW n \in Nodes
  PROVE  /\ SeedMetres(n) \in Nat /\ Samples(n) \in Nat /\ Samples(n) > 0
         /\ MeanSlowness(n, Samples(n)) > 0 => SeedSeconds(n) \in Nat
<1> DEFINE dx == X(request) - 4 * n[2]
           dy == Y(request) - 4 * (NY - 1 - n[1])
           row == Clip(locate_source(request)[1], 0, NY - 1)
           a == CellWidth[row]
           b == CellWidth[n[1]]
           v == dx * dx * a * b + dy * dy * CellHeight * CellHeight
<1>1. NX \in Nat /\ NY \in Nat /\ NX >= 2 /\ NY >= 2 /\ CellHeight \in Nat /\ CellHeight > 0
  BY GridAssumption
<1>2. n[1] \in 0..NY-1 /\ n[2] \in 0..NX-1 BY DEF Nodes
<1>3. X(request) \in Int /\ Y(request) \in Int BY PositionTyped
<1>4. dx \in Int /\ dy \in Int BY <1>1, <1>2, <1>3
<1>5. row \in 0..NY-1
  <2>1. 4 \in Nat /\ 4 > 0 OBVIOUS
  <2>2. Round(Y(request), 4) \in Int BY <2>1, <1>3, Rounded
  <2>3. locate_source(request)[1] = NY - 1 - Round(Y(request), 4) BY DEF locate_source
  <2>4. locate_source(request)[1] \in Int BY <2>2, <2>3, <1>1
  <2>5. NY - 1 \in Int /\ 0 <= NY - 1 /\ 0 \in Int BY <1>1
  <2> QED BY <2>4, <2>5, Clipped
<1>6. a \in Nat /\ b \in Nat BY <1>2, <1>5, GridAssumption
<1>7. SeedMetres(n) = Root(v \div 16) BY DEF SeedMetres
<1> HIDE DEF a, b, dx, dy
<1>8. v \in Nat
  <2>1. dx * dx \in Nat /\ dy * dy \in Nat BY <1>4
  <2>2. \A x, y \in Nat : x * y \in Nat OBVIOUS
  <2>3. dx * dx * a \in Nat /\ dy * dy * CellHeight \in Nat BY <2>1, <2>2, <1>1, <1>6
  <2>4. dx * dx * a * b \in Nat /\ dy * dy * CellHeight * CellHeight \in Nat
    BY <2>2, <2>3, <1>1, <1>6
  <2> QED BY <2>4
<1> HIDE DEF v
<1>9. v \div 16 \in Nat BY <1>8
<1>10. SeedMetres(n) \in Nat BY <1>7, <1>9, RootNear
<1>11. Samples(n) \in Nat /\ Samples(n) > 0
  <2> DEFINE t == CeilDiv(2 * SeedMetres(n), CellHeight)
  <2>1. -(2 * SeedMetres(n)) \in Int BY <1>10
  <2>2. (-(2 * SeedMetres(n))) \div CellHeight \in Int BY <2>1, <1>1, Division
  <2>3. t \in Int BY <2>2 DEF CeilDiv
  <2> HIDE DEF t
  <2>4. Samples(n) = IF t < 2 THEN 2 ELSE t BY DEF Samples, t
  <2> QED BY <2>3, <2>4
<1>12. ASSUME MeanSlowness(n, Samples(n)) > 0 PROVE SeedSeconds(n) \in Nat
  <2> DEFINE u == SeedMetres(n)
             w == MeanSlowness(n, Samples(n))
             p == Samples(n)
             z == 2 * p * (4 * p) * (4 * p)
  <2>1. w \in Int BY <1>11, MeanSamples
  <2>2. w \in Nat /\ u \in Nat /\ p \in Nat /\ p > 0 BY <2>1, <1>10, <1>11, <1>12
  <2>3. SeedSeconds(n) = (u * w) \div z BY DEF SeedSeconds
  <2> HIDE DEF u, w, p
  <2>4. u * w \in Nat BY <2>2
  <2>5. z \in Nat /\ z > 0
    <3>1. \A x, y \in Nat : x > 0 /\ y > 0 => x * y \in Nat /\ x * y > 0 OBVIOUS
    <3>2. 4 * p \in Nat /\ 4 * p > 0 /\ 2 * p \in Nat /\ 2 * p > 0 BY <2>2
    <3> QED BY <3>1, <3>2
  <2> HIDE DEF z
  <2> QED BY <2>3, <2>4, <2>5, Division
<1> QED BY <1>10, <1>11, <1>12

\* An epicenter that travel_times() accepts has a water node nearest to it, unless
\* numpy read another row in its place.
LEMMA SourceTyped ==
  ASSUME InputsOK, NodeOffset = 1 => locate_source(request) \in Nodes,
         InsideGrid(request.lon, request.lat),
         Indexable(locate_source(request)), slowness[Indexed(locate_source(request))] > 0
  PROVE  /\ locate_source(request) \in Nodes /\ slowness[locate_source(request)] > 0
         /\ Indexed(locate_source(request)) = locate_source(request)
<1> DEFINE s == locate_source(request)
           y == Round(Y(request), 4)
<1>1. NX \in Nat /\ NY \in Nat /\ NX >= 2 /\ NY >= 2 /\ NodeOffset \in {0, 1}
  BY GridAssumption DEF InputsOK
<1>4. s = <<NY - 1 - y, Round(X(request), 4)>> BY DEF locate_source
<1>5. s[1] = NY - 1 - y /\ s[2] \in 0..NX-1 BY <1>4 DEF Indexable
<1>6. s[1] \in 0..NY-1
  <2>1. CASE NodeOffset = 0
    <3>1. Y(request) \in 0..(4 * (NY - 1))
      BY <1>1, <2>1 DEF InputsOK, InsideGrid, YMax, Y
    <3>2. y \in 0..(NY - 1) BY <1>1, <3>1 DEF Round
    <3> HIDE DEF y
    <3> QED BY <1>1, <1>5, <3>2
  <2>2. CASE NodeOffset = 1 BY <2>2 DEF Nodes
  <2> QED BY <1>1, <2>1, <2>2
<1> HIDE DEF y
<1>7. s = <<s[1], s[2]>> BY <1>4
<1>8. s[1] % NY = s[1]
  <2> DEFINE x == s[1]
  <2>1. x \in Nat /\ x < NY BY <1>1, <1>6
  <2> HIDE DEF x
  <2>2. x % NY = x BY <2>1, <1>1
  <2> QED BY <2>2 DEF x
<1>9. Indexed(s) = s BY <1>7, <1>8 DEF Indexed
<1>10. s \in Nodes BY <1>5, <1>6, <1>7 DEF Nodes
<1> QED BY <1>9, <1>10

\* The seeds are water nodes, and their times are times.
LEMMA SeedsTyped ==
  ASSUME InputsOK, InsideGrid(request.lon, request.lat),
         Indexable(locate_source(request)), slowness[Indexed(locate_source(request))] > 0
  PROVE  /\ DOMAIN Seeds \subseteq {n \in Nodes : slowness[n] > 0}
         /\ Seeds \in [DOMAIN Seeds -> Nat]
<1>1. CASE request.mode = "client"
  <2>1. locate_source(request) \in Nodes /\ slowness[locate_source(request)] > 0
    <3>1. NodeOffset = 0 BY <1>1, GridAssumption DEF InputsOK
    <3> QED BY <3>1, SourceTyped
  <2>2. Seeds = [n \in {locate_source(request)} |-> 0] BY <1>1 DEF Seeds
  <2> QED BY <2>1, <2>2
<1>2. CASE request.mode # "client"
  <2> DEFINE A == {m \in Nodes : /\ slowness[m] > 0
                                 /\ InSeedWindow(m)
                                 /\ SeedMetres(m) <= SeedCells * CellHeight
                                 /\ MeanSlowness(m, Samples(m)) > 0}
  <2>1. Seeds = [n \in A |-> SeedSeconds(n)] BY <1>2 DEF Seeds, SeedsAround
  <2>2. \A n \in A : SeedSeconds(n) \in Nat BY SeedTyped
  <2>3. A \subseteq {n \in Nodes : slowness[n] > 0} OBVIOUS
  <2> HIDE DEF A
  <2> QED BY <2>1, <2>2, <2>3
<1> QED BY <1>1, <1>2

\* The order of the seeds visits each node once.
LEMMA PlacesOnce ==
  /\ NX * NY \in Nat
  /\ \A i \in 1..(NX * NY) : Place(i) \in Nodes
  /\ \A i, j \in 1..(NX * NY) : Place(i) = Place(j) => i = j
  /\ \A n \in Nodes : \E i \in 1..(NX * NY) : Place(i) = n
<1>1. NX \in Nat /\ NY \in Nat /\ NX >= 2 /\ NY >= 2 /\ NX > 0 BY GridAssumption
<1>2. NX * NY \in Nat BY <1>1
<1>3. ASSUME NEW i \in 1..(NX * NY)
      PROVE  /\ (i - 1) \div NX \in 0..(NY - 1) /\ ((i - 1) % NX) \in 0..(NX - 1)
             /\ i - 1 = NX * ((i - 1) \div NX) + ((i - 1) % NX)
  <2> DEFINE a == (i - 1) \div NX
             b == (i - 1) % NX
  <2>1. i - 1 \in Nat /\ i - 1 < NX * NY BY <1>2
  <2>2. a \in Nat /\ b \in 0..(NX - 1) /\ i - 1 = NX * a + b BY <2>1, <1>1, Division
  <2> HIDE DEF a, b
  <2>3. a < NY
    <3>1. ASSUME a >= NY PROVE FALSE
      <4>1. NX * a >= NX * NY BY <3>1, <2>2, <1>1
      <4>2. NX * a \in Nat BY <2>2, <1>1
      <4> QED BY <4>1, <4>2, <2>1, <2>2, <1>1, <1>2
    <3> QED BY <3>1, <2>2, <1>1
  <2> QED BY <2>2, <2>3, <1>1 DEF a, b
<1>4. \A i \in 1..(NX * NY) : Place(i) \in Nodes
  <2>1. ASSUME NEW i \in 1..(NX * NY) PROVE Place(i) \in Nodes
    <3>1. NY - 1 - ((i - 1) \div NX) \in 0..NY-1 /\ ((i - 1) % NX) \in 0..NX-1 BY <1>1, <1>3
    <3> QED BY <3>1 DEF Place, Nodes
  <2> QED BY <2>1
<1>5. \A i, j \in 1..(NX * NY) : Place(i) = Place(j) => i = j
  <2>1. ASSUME NEW i \in 1..(NX * NY), NEW j \in 1..(NX * NY), Place(i) = Place(j)
        PROVE  i = j
    <3>1. NY - 1 - ((i - 1) \div NX) = NY - 1 - ((j - 1) \div NX)
          /\ ((i - 1) % NX) = ((j - 1) % NX)
      BY <2>1 DEF Place
    <3>2. (i - 1) \div NX = (j - 1) \div NX BY <3>1, <1>1, <1>3
    <3>3. i - 1 = j - 1 BY <3>1, <3>2, <1>3
    <3> QED BY <3>3, <1>2
  <2> QED BY <2>1
<1>6. ASSUME NEW n \in Nodes PROVE \E i \in 1..(NX * NY) : Place(i) = n
  <2> DEFINE a == NY - 1 - n[1]
             b == n[2]
             i == NX * a + b + 1
  <2>1. n = <<n[1], n[2]>> /\ n[1] \in 0..NY-1 /\ n[2] \in 0..NX-1 BY DEF Nodes
  <2>2. a \in 0..(NY - 1) /\ b \in 0..(NX - 1) /\ NY - 1 - a = n[1] BY <2>1, <1>1
  <2> HIDE DEF a, b
  <2>3. NX * a \in Nat /\ NX * a <= NX * (NY - 1) BY <2>2, <1>1
  <2>4. NX * (NY - 1) = NX * NY - NX BY <1>1
  <2>5. i \in 1..(NX * NY) BY <2>2, <2>3, <2>4, <1>1, <1>2
  <2>6. i - 1 = NX * a + b BY <2>2, <2>3
  <2>7. (i - 1) \div NX = a /\ ((i - 1) % NX) = b
    <3> DEFINE u == (i - 1) \div NX
               v == (i - 1) % NX
    <3>1. u \in 0..(NY - 1) /\ v \in 0..(NX - 1) /\ NX * a + b = NX * u + v
      BY <2>5, <2>6, <1>3
    <3> HIDE DEF u, v
    <3>2. NX * (a - u) = v - b BY <3>1, <2>2, <1>1
    <3>3. v - b < NX /\ v - b > -NX BY <3>1, <2>2, <1>1
    <3>4. a = u
      <4>1. ASSUME a - u >= 1 PROVE FALSE
        <5>1. NX * (a - u) >= NX BY <4>1, <3>1, <2>2, <1>1
        <5> QED BY <5>1, <3>2, <3>3, <3>1, <2>2, <1>1
      <4>2. ASSUME a - u <= -1 PROVE FALSE
        <5>1. NX * (a - u) <= -NX BY <4>2, <3>1, <2>2, <1>1
        <5> QED BY <5>1, <3>2, <3>3, <3>1, <2>2, <1>1
      <4> QED BY <4>1, <4>2, <3>1, <2>2, <1>1
    <3>5. b = v BY <3>1, <3>4, <2>2, <1>1
    <3> QED BY <3>4, <3>5 DEF u, v
  <2>8. Place(i) = n BY <2>1, <2>2, <2>7 DEF Place, b
  <2> QED BY <2>5, <2>8
<1> QED BY <1>2, <1>4, <1>5, <1>6

-----------------------------------------------------------------------------
(* The travel-time solver: the loops over the seeds and over the directions *)

\* The runs of a loop whose j-th turn leaves the state in I[j].
HasGuardedRun(n, S, I, a, G) ==
  \E f \in [0..n -> S] : /\ f[0] = a /\ \A j \in 1..n : f[j] = G[<<f[j - 1], j>>]
                         /\ \A j \in 0..n : f[j] \in I[j]

\* A loop whose turns keep a family of invariants has a run.
LEMMA GuardedLoopHasRun ==
  ASSUME NEW n \in Nat, NEW S, NEW I \in [0..n -> SUBSET S], NEW a \in I[0], NEW G,
         \A j \in 1..n : \A x \in I[j - 1] : G[<<x, j>>] \in I[j]
  PROVE  HasGuardedRun(n, S, I, a, G)
<1> DEFINE F == [x \in S \X (1..n) |-> IF G[x] \in S THEN G[x] ELSE a]
<1>1. a \in S OBVIOUS
<1>2. F \in Bodies(n, S) BY <1>1 DEF Bodies
<1>3. \A x \in S, j \in 1..n : G[<<x, j>>] \in S => F[<<x, j>>] = G[<<x, j>>] OBVIOUS
<1> HIDE DEF F
<1>4. HasRun(n, S, a, F) BY <1>1, <1>2, LoopHasRun
<1>5. PICK f \in [0..n -> S] : f[0] = a /\ \A j \in 1..n : f[j] = F[<<f[j - 1], j>>]
  BY <1>4 DEF HasRun
<1> DEFINE T == {j \in 0..n : f[j] \in I[j]}
<1>6. ASSUME NEW j \in 1..n, j - 1 \in T
      PROVE  j \in T /\ f[j] = G[<<f[j - 1], j>>]
  <2>1. j - 1 \in 0..n /\ j \in 0..n /\ f[j - 1] \in S /\ f[j - 1] \in I[j - 1] BY <1>6
  <2>2. G[<<f[j - 1], j>>] \in I[j] BY <2>1
  <2>3. G[<<f[j - 1], j>>] \in S BY <2>1, <2>2
  <2>4. f[j] = G[<<f[j - 1], j>>] BY <2>1, <2>3, <1>3, <1>5
  <2> QED BY <2>1, <2>2, <2>4
<1>7. 0 \in T BY <1>5
<1>8. \A j \in 0..n : j \in T
  <2> HIDE DEF T
  <2> QED BY <1>6, <1>7, Turns
<1>9. \A j \in 1..n : f[j] = G[<<f[j - 1], j>>]
  <2>1. \A j \in 1..n : j - 1 \in 0..n OBVIOUS
  <2> HIDE DEF T
  <2> QED BY <2>1, <1>6, <1>8
<1> QED BY <1>5, <1>8, <1>9 DEF HasGuardedRun

\* The queue once the seeds are in it: each has its time, and no other node's
\* mark changed.
LEMMA SeededKeeps ==
  ASSUME NEW q, Good(q), NEW times, times \in [DOMAIN times -> Nat],
         DOMAIN times \subseteq {n \in Nodes : q.key[n] = UNREACHED}
  PROVE  /\ Good(Seeded(q, times))
         /\ \A n \in Nodes : Seeded(q, times).key[n] =
                               IF n \in DOMAIN times THEN times[n] ELSE q.key[n]
<1> DEFINE N == NX * NY
           Given(j) == {Place(i) : i \in 1..j} \cap DOMAIN times
           Inv(j) == {r \in QueueType :
                        /\ Good(r)
                        /\ \A n \in Nodes : r.key[n] = IF n \in Given(j) THEN times[n] ELSE q.key[n]}
           I == [j \in 0..N |-> Inv(j)]
           body(r, j) == IF Place(j) \in DOMAIN times THEN Queue(r, Place(j), times[Place(j)])
                         ELSE r
           G == [x \in QueueType \X (1..N) |-> body(x[1], x[2])]
           Is(f) == f = [i \in 0..N |->
                           IF i = 0 THEN q
                           ELSE IF Place(i) \in DOMAIN times
                                THEN Queue(f[i - 1], Place(i), times[Place(i)])
                                ELSE f[i - 1]]
           after == CHOOSE f : Is(f)
<1>1. N \in Nat /\ \A i \in 1..N : Place(i) \in Nodes BY PlacesOnce
<1>2. Seeded(q, times) = after[N] BY DEF Seeded
<1>3. q \in Inv(0) BY DEF Good
<1>4. ASSUME NEW j \in 1..N, NEW r \in Inv(j - 1) PROVE body(r, j) \in Inv(j)
  <2> DEFINE p == Place(j)
  <2>1. p \in Nodes /\ Good(r) /\ r \in QueueType BY <1>1, <1>4
  <2>2. \A n \in Nodes : r.key[n] = IF n \in Given(j - 1) THEN times[n] ELSE q.key[n] BY <1>4
  <2>3. Given(j) = Given(j - 1) \cup ({p} \cap DOMAIN times)
    <3>1. 1..j = 1..(j - 1) \cup {j} BY <1>1
    <3> QED BY <3>1
  <2>4. p \notin Given(j - 1)
    <3>1. ASSUME NEW i \in 1..(j - 1) PROVE Place(i) # p
      <4>1. i \in 1..N /\ i # j BY <1>1
      <4> QED BY <4>1, PlacesOnce
    <3> QED BY <3>1
  <2> HIDE DEF p, Given
  <2>5. CASE p \in DOMAIN times
    <3>1. times[p] \in Nat /\ q.key[p] = UNREACHED BY <2>5
    <3>2. r.key[p] = UNREACHED /\ r.key[p] >= UNREACHED BY <2>1, <2>2, <2>4, <3>1 DEF UNREACHED
    <3>3. Good(Queue(r, p, times[p])) /\ Queue(r, p, times[p]).key = [r.key EXCEPT ![p] = times[p]]
      BY <2>1, <3>1, <3>2, QueueKeeps
    <3>4. r.key \in [Nodes -> Int] BY <2>1 DEF QueueType
    <3>5. \A n \in Nodes : Queue(r, p, times[p]).key[n] = IF n = p THEN times[p] ELSE r.key[n]
      BY <3>3, <3>4, <2>1
    <3>6. \A n \in Nodes : Queue(r, p, times[p]).key[n]
                             = IF n \in Given(j) THEN times[n] ELSE q.key[n]
      BY <3>5, <2>2, <2>3, <2>4, <2>5
    <3>7. body(r, j) = Queue(r, p, times[p]) BY <2>5 DEF p
    <3> QED BY <3>3, <3>6, <3>7 DEF Good
  <2>6. CASE p \notin DOMAIN times
    <3>1. Given(j) = Given(j - 1) BY <2>3, <2>6
    <3>2. body(r, j) = r BY <2>6 DEF p
    <3> QED BY <3>1, <3>2, <2>1, <2>2
  <2> QED BY <2>5, <2>6
<1> HIDE DEF N, Inv
<1>5. /\ I \in [0..N -> SUBSET QueueType] /\ q \in I[0]
      /\ \A j \in 0..N : I[j] = Inv(j)
  BY <1>1, <1>3 DEF Inv
<1>6. \A r \in QueueType, j \in 1..N : G[<<r, j>>] = body(r, j) OBVIOUS
<1>7. \A j \in 1..N : j \in 0..N /\ j - 1 \in 0..N BY <1>1
<1> HIDE DEF I, G
<1>8. \A j \in 1..N : \A r \in I[j - 1] : r \in QueueType /\ body(r, j) \in I[j]
  BY <1>4, <1>5, <1>7
<1> HIDE DEF body
<1>9. \A j \in 1..N : \A r \in I[j - 1] : G[<<r, j>>] \in I[j] BY <1>6, <1>8
<1>10. HasGuardedRun(N, QueueType, I, q, G) BY <1>1, <1>5, <1>9, GuardedLoopHasRun
<1>11. PICK f \in [0..N -> QueueType] :
         f[0] = q /\ (\A j \in 1..N : f[j] = G[<<f[j - 1], j>>]) /\ \A j \in 0..N : f[j] \in I[j]
  BY <1>10 DEF HasGuardedRun
<1>12. \A j \in 1..N : f[j] = body(f[j - 1], j) BY <1>6, <1>7, <1>11
<1>13. Is(f)
  <2>1. ASSUME NEW i \in 0..N
        PROVE  f[i] = IF i = 0 THEN q
                      ELSE IF Place(i) \in DOMAIN times
                           THEN Queue(f[i - 1], Place(i), times[Place(i)])
                           ELSE f[i - 1]
    <3>1. CASE i = 0 BY <3>1, <1>11
    <3>2. CASE i # 0
      <4>1. i \in 1..N BY <3>2, <1>1
      <4> QED BY <4>1, <3>2, <1>12 DEF body
    <3> QED BY <3>1, <3>2
  <2> QED BY <2>1, <1>11
<1>14. Is(after) BY <1>13
<1> HIDE DEF after
<1>15. after[0] = q /\ \A j \in 1..N : after[j] = body(after[j - 1], j)
  <2>1. \A i \in 0..N : after[i] = IF i = 0 THEN q
                                   ELSE IF Place(i) \in DOMAIN times
                                        THEN Queue(after[i - 1], Place(i), times[Place(i)])
                                        ELSE after[i - 1]
    BY <1>14
  <2>2. 0 \in 0..N /\ \A j \in 1..N : j # 0 BY <1>1
  <2> QED BY <2>1, <2>2, <1>7 DEF body
<1> HIDE DEF Is
<1> DEFINE T == {j \in 0..N : after[j] \in I[j]}
<1>16. 0 \in T BY <1>1, <1>5, <1>15
<1>17. ASSUME NEW j \in 1..N, j - 1 \in T PROVE j \in T BY <1>7, <1>8, <1>15, <1>17
<1> HIDE DEF T
<1>18. \A j \in 0..N : j \in T BY <1>1, <1>16, <1>17, Turns
<1>19. after[N] \in Inv(N) BY <1>1, <1>5, <1>18 DEF T
<1>20. \A n \in Nodes : n \in Given(N) <=> n \in DOMAIN times BY PlacesOnce DEF N
<1> HIDE DEF Given
<1> QED BY <1>2, <1>19, <1>20 DEF Inv

\* The direction from node n, settled at time t, is open and arrives before what
\* its end has.
Improves(q, n, t, dir) ==
  /\ Shift(n, Segments[dir].to) \in Nodes
  /\ q.key[Shift(n, Segments[dir].to)] >= UNREACHED
  /\ Free(n, Segments[dir])
  /\ \/ q.key[Shift(n, Segments[dir].to)] = UNREACHED
     \/ t + Cost(n, Segments[dir]) < q.key[Shift(n, Segments[dir].to)]

\* The cost of an open segment is a time.
LEMMA FreeCost ==
  ASSUME InputsOK, open \subseteq Nodes, NEW n \in Nodes, NEW dir \in Near, Free(n, Segments[dir])
  PROVE  Cost(n, Segments[dir]) \in Nat
BY CostTyped DEF Free

\* One direction: its end is queued, or moved up, when that improves it.
LEMMA ReachKeeps ==
  ASSUME InputsOK, open \subseteq Nodes, NEW n \in Nodes, NEW t \in Nat, NEW dir \in Near,
         NEW q, Good(q)
  PROVE  \/ Reach(q, n, t, Segments[dir]) = q /\ ~Improves(q, n, t, dir)
         \/ /\ Improves(q, n, t, dir) /\ Good(Reach(q, n, t, Segments[dir]))
            /\ Reach(q, n, t, Segments[dir]).key =
                 [q.key EXCEPT ![Shift(n, Segments[dir].to)] = t + Cost(n, Segments[dir])]
<1> DEFINE s == Segments[dir]
           to == Shift(n, s.to)
           arrival == t + Cost(n, s)
<1>1. Reach(q, n, t, s) = IF Improves(q, n, t, dir) THEN Queue(q, to, arrival) ELSE q
  BY DEF Reach, Improves
<1>2. CASE Improves(q, n, t, dir)
  <2>1. to \in Nodes /\ q.key[to] >= UNREACHED /\ (q.key[to] = UNREACHED \/ arrival < q.key[to])
    BY <1>2 DEF Improves
  <2>2. Cost(n, s) \in Nat BY <1>2, FreeCost DEF Improves
  <2>3. arrival \in Nat BY <2>2
  <2> HIDE DEF to, arrival, s
  <2>4. Good(Queue(q, to, arrival)) /\ Queue(q, to, arrival).key = [q.key EXCEPT ![to] = arrival]
    BY <2>1, <2>3, QueueKeeps
  <2> QED BY <1>1, <1>2, <2>4 DEF to, arrival, s
<1>3. CASE ~Improves(q, n, t, dir) BY <1>1, <1>3
<1> QED BY <1>2, <1>3

\* The marks of a queue r that was q when node n was settled at time t, once
\* the directions up to j are done: each that changed is an arrival from n,
\* and none of the open ends is later than its arrival.
Relaxed(r, q, n, t, j) ==
  /\ Good(r)
  /\ \A m \in Nodes :
       \/ r.key[m] = q.key[m]
       \/ /\ q.key[m] >= UNREACHED /\ (q.key[m] = UNREACHED \/ r.key[m] < q.key[m])
          /\ \E dir \in Near : /\ Shift(n, Segments[dir].to) = m /\ Free(n, Segments[dir])
                             /\ r.key[m] = t + Cost(n, Segments[dir])
  /\ \A dir \in Near :
       /\ dir <= j /\ Shift(n, Segments[dir].to) \in Nodes
       /\ q.key[Shift(n, Segments[dir].to)] >= UNREACHED /\ Free(n, Segments[dir])
       => /\ r.key[Shift(n, Segments[dir].to)] > UNREACHED
          /\ r.key[Shift(n, Segments[dir].to)] <= t + Cost(n, Segments[dir])

\* One more direction.
LEMMA ReachRelaxes ==
  ASSUME InputsOK, open \subseteq Nodes, NEW n \in Nodes, NEW t \in Nat, NEW q, Good(q),
         NEW j \in Nat, NEW r, Relaxed(r, q, n, t, j - 1)
  PROVE  /\ j \in Near => Relaxed(Reach(r, n, t, Segments[j]), q, n, t, j)
         /\ j \notin Near => Relaxed(r, q, n, t, j)
<1>0. Near \subseteq Nat BY DEF Near, NEIGHBOURS
<1>1. CASE j \notin Near
  <2>1. \A dir \in Near : dir <= j => dir <= j - 1 BY <1>0, <1>1
  <2> QED BY <1>1, <2>1 DEF Relaxed
<1>2. CASE j \in Near
  <2> DEFINE p == Reach(r, n, t, Segments[j])
             e(dir) == Shift(n, Segments[dir].to)
             c(dir) == t + Cost(n, Segments[dir])
  <2>1. \A dir \in Near : Free(n, Segments[dir]) => c(dir) \in Nat /\ c(dir) > UNREACHED
    <3>1. \A dir \in Near : Free(n, Segments[dir]) => Cost(n, Segments[dir]) \in Nat BY FreeCost
    <3> QED BY <3>1 DEF UNREACHED
  <2>2. Good(r) /\ r.key \in [Nodes -> Int] /\ q.key \in [Nodes -> Int]
    BY DEF Relaxed, Good, QueueType
  <2>3. \A m \in Nodes :
          \/ r.key[m] = q.key[m]
          \/ /\ q.key[m] >= UNREACHED /\ (q.key[m] = UNREACHED \/ r.key[m] < q.key[m])
             /\ \E dir \in Near : e(dir) = m /\ Free(n, Segments[dir]) /\ r.key[m] = c(dir)
    BY DEF Relaxed
  <2>4. \A dir \in Near : dir <= j - 1 /\ e(dir) \in Nodes /\ q.key[e(dir)] >= UNREACHED
                        /\ Free(n, Segments[dir])
                        => r.key[e(dir)] > UNREACHED /\ r.key[e(dir)] <= c(dir)
    BY DEF Relaxed
  <2>5. \/ p = r /\ ~Improves(r, n, t, j)
        \/ Improves(r, n, t, j) /\ Good(p) /\ p.key = [r.key EXCEPT ![e(j)] = c(j)]
    BY <1>2, <2>2, ReachKeeps
  <2>6. Improves(r, n, t, j) <=> /\ e(j) \in Nodes /\ r.key[e(j)] >= UNREACHED
                                 /\ Free(n, Segments[j])
                                 /\ r.key[e(j)] = UNREACHED \/ c(j) < r.key[e(j)]
    BY DEF Improves
  <2>7. \A m \in Nodes : r.key[m] >= UNREACHED <=> q.key[m] >= UNREACHED
    BY <2>1, <2>2, <2>3 DEF UNREACHED
  <2>8. \A dir \in Near : dir <= j => dir <= j - 1 \/ dir = j BY <1>0
  <2> HIDE DEF p, c, e
  <2>9. CASE p = r /\ ~Improves(r, n, t, j)
    <3>1. ASSUME e(j) \in Nodes, q.key[e(j)] >= UNREACHED, Free(n, Segments[j])
          PROVE  r.key[e(j)] > UNREACHED /\ r.key[e(j)] <= c(j)
      <4>1. r.key[e(j)] >= UNREACHED BY <3>1, <2>7
      <4>2. ~(r.key[e(j)] = UNREACHED \/ c(j) < r.key[e(j)]) BY <3>1, <4>1, <2>6, <2>9
      <4>3. c(j) \in Nat /\ r.key[e(j)] \in Int BY <3>1, <1>2, <2>1, <2>2
      <4> QED BY <4>1, <4>2, <4>3 DEF UNREACHED
    <3>2. \A dir \in Near : dir <= j /\ e(dir) \in Nodes /\ q.key[e(dir)] >= UNREACHED
                          /\ Free(n, Segments[dir])
                          => r.key[e(dir)] > UNREACHED /\ r.key[e(dir)] <= c(dir)
      BY <3>1, <2>4, <2>8
    <3>3. Relaxed(r, q, n, t, j) BY <2>2, <2>3, <3>2 DEF Relaxed, e, c
    <3> QED BY <3>3, <2>9, <1>2 DEF p
  <2>10. CASE Improves(r, n, t, j) /\ Good(p) /\ p.key = [r.key EXCEPT ![e(j)] = c(j)]
    <3>1. /\ e(j) \in Nodes /\ r.key[e(j)] >= UNREACHED /\ Free(n, Segments[j])
          /\ r.key[e(j)] = UNREACHED \/ c(j) < r.key[e(j)]
          /\ c(j) \in Nat /\ c(j) > UNREACHED
      BY <2>6, <2>10, <1>2, <2>1
    <3>2. \A m \in Nodes : p.key[m] = IF m = e(j) THEN c(j) ELSE r.key[m]
      BY <2>2, <2>10, <3>1
    <3>3. ASSUME NEW m \in Nodes
          PROVE  \/ p.key[m] = q.key[m]
                 \/ /\ q.key[m] >= UNREACHED /\ (q.key[m] = UNREACHED \/ p.key[m] < q.key[m])
                    /\ \E dir \in Near : e(dir) = m /\ Free(n, Segments[dir]) /\ p.key[m] = c(dir)
      <4>1. CASE m # e(j) BY <4>1, <3>2, <2>3
      <4>2. CASE m = e(j)
        <5>1. p.key[m] = c(j) /\ q.key[m] >= UNREACHED BY <4>2, <3>1, <3>2, <2>7
        <5>2. q.key[m] = UNREACHED \/ p.key[m] < q.key[m]
          <6>1. r.key[m] = q.key[m] \/ q.key[m] = UNREACHED \/ r.key[m] < q.key[m] BY <2>3
          <6>2. r.key[m] \in Int /\ q.key[m] \in Int BY <2>2
          <6>3. r.key[m] = UNREACHED \/ c(j) < r.key[m] BY <4>2, <3>1
          <6>4. r.key[m] = UNREACHED /\ r.key[m] < q.key[m] => r.key[m] = q.key[m]
            <7>1. \A dir \in Near : Free(n, Segments[dir]) => c(dir) # UNREACHED
              BY <2>1 DEF UNREACHED
            <7> QED BY <7>1, <2>3, <6>2
          <6> QED BY <6>1, <6>2, <6>3, <6>4, <5>1, <3>1 DEF UNREACHED
        <5> QED BY <5>1, <5>2, <4>2, <3>1, <1>2
      <4> QED BY <4>1, <4>2
    <3>4. ASSUME NEW dir \in Near, dir <= j, e(dir) \in Nodes, q.key[e(dir)] >= UNREACHED,
                 Free(n, Segments[dir])
          PROVE  p.key[e(dir)] > UNREACHED /\ p.key[e(dir)] <= c(dir)
      <4>1. CASE dir = j BY <4>1, <3>1, <3>2
      <4>2. CASE dir # j
        <5>1. r.key[e(dir)] > UNREACHED /\ r.key[e(dir)] <= c(dir) /\ c(dir) \in Nat /\ r.key[e(dir)] \in Int
          BY <4>2, <3>4, <2>8, <2>4, <2>1, <2>2
        <5>2. CASE e(dir) # e(j) BY <5>1, <5>2, <3>2, <3>4
        <5>3. CASE e(dir) = e(j)
          <6>1. p.key[e(dir)] = c(j) BY <5>3, <3>1, <3>2
          <6>2. c(j) < r.key[e(dir)] BY <5>1, <5>3, <3>1 DEF UNREACHED
          <6> QED BY <6>1, <6>2, <5>1, <3>1 DEF UNREACHED
        <5> QED BY <5>2, <5>3
      <4> QED BY <4>1, <4>2
    <3>5. Relaxed(p, q, n, t, j)
      <4>1. \A m \in Nodes :
              \/ p.key[m] = q.key[m]
              \/ /\ q.key[m] >= UNREACHED /\ (q.key[m] = UNREACHED \/ p.key[m] < q.key[m])
                 /\ \E dir \in Near : e(dir) = m /\ Free(n, Segments[dir]) /\ p.key[m] = c(dir)
        BY <3>3
      <4>2. \A dir \in Near : dir <= j /\ e(dir) \in Nodes /\ q.key[e(dir)] >= UNREACHED
                            /\ Free(n, Segments[dir])
                            => p.key[e(dir)] > UNREACHED /\ p.key[e(dir)] <= c(dir)
        BY <3>4
      <4> QED BY <4>1, <4>2, <2>10 DEF Relaxed, e, c
    <3> QED BY <3>5, <1>2 DEF p
  <2> QED BY <2>5, <2>9, <2>10
<1> QED BY <1>1, <1>2

\* All the directions from a settled node.
LEMMA RelaxKeeps ==
  ASSUME InputsOK, open \subseteq Nodes, NEW n \in Nodes, NEW t \in Nat, NEW q, Good(q)
  PROVE  Relaxed(Relax(q, n, t), q, n, t, LastNear) /\ \A dir \in Near : dir <= LastNear
<1> DEFINE N == LastNear
           Inv(j) == {r \in QueueType : Relaxed(r, q, n, t, j)}
           I == [j \in 0..N |-> Inv(j)]
           body(r, j) == IF j \in Near THEN Reach(r, n, t, Segments[j]) ELSE r
           G == [x \in QueueType \X (1..N) |-> body(x[1], x[2])]
           Is(f) == f = [dir \in 0..N |->
                           IF dir = 0 THEN q
                           ELSE IF dir \in Near THEN Reach(f[dir - 1], n, t, Segments[dir])
                                ELSE f[dir - 1]]
           after == CHOOSE f : Is(f)
<1>1. N \in 0..NEIGHBOURS /\ \A dir \in Near : dir <= N
  <2>1. NEIGHBOURS \in 0..NEIGHBOURS /\ \A dir \in Near : dir <= NEIGHBOURS BY DEF Near, NEIGHBOURS
  <2>2. \E last \in 0..NEIGHBOURS : \A dir \in Near : dir <= last BY <2>1
  <2> QED BY <2>2 DEF LastNear
<1>2. N \in Nat BY <1>1 DEF NEIGHBOURS
<1>3. Relax(q, n, t) = after[N] BY DEF Relax
<1>4. q \in Inv(0)
  <2>1. \A dir \in Near : ~(dir <= 0) BY DEF Near, NEIGHBOURS
  <2> QED BY <2>1 DEF Good, Relaxed
<1>5. ASSUME NEW j \in 1..N, NEW r \in Inv(j - 1) PROVE body(r, j) \in Inv(j)
  <2>1. j \in Nat /\ Relaxed(r, q, n, t, j - 1) BY <1>2, <1>5
  <2>2. Relaxed(body(r, j), q, n, t, j) BY <2>1, ReachRelaxes
  <2> QED BY <2>2 DEF Relaxed, Good
<1> HIDE DEF N, Inv
<1>6. /\ I \in [0..N -> SUBSET QueueType] /\ q \in I[0]
      /\ \A j \in 0..N : I[j] = Inv(j)
  BY <1>2, <1>4 DEF Inv
<1>7. \A r \in QueueType, j \in 1..N : G[<<r, j>>] = body(r, j) OBVIOUS
<1>8. \A j \in 1..N : j \in 0..N /\ j - 1 \in 0..N BY <1>2
<1> HIDE DEF I, G, body
<1>9. \A j \in 1..N : \A r \in I[j - 1] : r \in QueueType /\ body(r, j) \in I[j]
  BY <1>5, <1>6, <1>8
<1>10. \A j \in 1..N : \A r \in I[j - 1] : G[<<r, j>>] \in I[j] BY <1>7, <1>9
<1>11. HasGuardedRun(N, QueueType, I, q, G) BY <1>2, <1>6, <1>10, GuardedLoopHasRun
<1>12. PICK f \in [0..N -> QueueType] :
         f[0] = q /\ (\A j \in 1..N : f[j] = G[<<f[j - 1], j>>]) /\ \A j \in 0..N : f[j] \in I[j]
  BY <1>11 DEF HasGuardedRun
<1>13. \A j \in 1..N : f[j] = body(f[j - 1], j) BY <1>7, <1>8, <1>12
<1>14. Is(f)
  <2>1. ASSUME NEW dir \in 0..N
        PROVE  f[dir] = IF dir = 0 THEN q
                      ELSE IF dir \in Near THEN Reach(f[dir - 1], n, t, Segments[dir])
                           ELSE f[dir - 1]
    <3>1. CASE dir = 0 BY <3>1, <1>12
    <3>2. CASE dir # 0
      <4>1. dir \in 1..N BY <3>2, <1>2
      <4> QED BY <4>1, <3>2, <1>13 DEF body
    <3> QED BY <3>1, <3>2
  <2> QED BY <2>1, <1>12
<1>15. Is(after) BY <1>14
<1> HIDE DEF after
<1>16. after[0] = q /\ \A j \in 1..N : after[j] = body(after[j - 1], j)
  <2>1. \A dir \in 0..N : after[dir] = IF dir = 0 THEN q
                                   ELSE IF dir \in Near THEN Reach(after[dir - 1], n, t, Segments[dir])
                                        ELSE after[dir - 1]
    BY <1>15
  <2>2. 0 \in 0..N /\ \A j \in 1..N : j # 0 BY <1>2
  <2> QED BY <2>1, <2>2, <1>8 DEF body
<1> HIDE DEF Is
<1> DEFINE T == {j \in 0..N : after[j] \in I[j]}
<1>17. 0 \in T BY <1>2, <1>6, <1>16
<1>18. ASSUME NEW j \in 1..N, j - 1 \in T PROVE j \in T BY <1>8, <1>9, <1>16, <1>18
<1> HIDE DEF T
<1>19. \A j \in 0..N : j \in T BY <1>2, <1>17, <1>18, Turns
<1>20. after[N] \in Inv(N) BY <1>2, <1>6, <1>19 DEF T
<1> QED BY <1>1, <1>3, <1>20 DEF Inv, N
-----------------------------------------------------------------------------
(* The travel-time solver: the inductive invariant *)

\* A time the wavefront can have at node n.
ArrivesAt(n, t) ==
  \/ n \in DOMAIN seeds /\ t = seeds[n]
  \/ \E m \in DOMAIN hours, dir \in Near :
        /\ Shift(m, Segments[dir].to) = n /\ FreeOfLand(m, Segments[dir])
        /\ hours[m] <= t /\ t = hours[m] + Cost(m, Segments[dir])

\* Node n is settled or queued, at time t or before.
ReachedBy(n, t) == \/ n \in DOMAIN hours /\ hours[n] <= t
                   \/ key[n] > UNREACHED /\ key[n] <= t

\* Land is blocked, a node that has its final time is settled, and the rest of
\* the water is open.
MarkInv ==
  /\ InputsOK
  /\ phase \in {"asked", "rejected", "propagate", "done"}
  /\ DOMAIN hours \subseteq Nodes /\ hours \in [DOMAIN hours -> Nat]
  /\ open = {n \in Nodes : slowness[n] > 0} \ DOMAIN hours
  /\ \A n \in Nodes : /\ key[n] \in {UNREACHED, SETTLED, BLOCKED} \cup Nat
                      /\ key[n] = BLOCKED <=> slowness[n] = 0
                      /\ key[n] = SETTLED <=> n \in DOMAIN hours

\* Before the seeds nothing is reached, and at the end nothing is queued.
PhaseInv ==
  /\ phase = "asked" => /\ DOMAIN seeds = {} /\ DOMAIN hours = {}
                        /\ \A n \in Nodes : slowness[n] > 0 => key[n] = UNREACHED
  /\ phase = "done" => heap = <<>>

QueueInv == Good(State)

\* Nothing queued is earlier than what is settled.
OrderInv == \A n \in Nodes, m \in DOMAIN hours : key[n] > UNREACHED => hours[m] <= key[n]

ArrivalInv == /\ \A n \in Nodes : key[n] > UNREACHED => ArrivesAt(n, key[n])
              /\ \A n \in DOMAIN hours : ArrivesAt(n, hours[n])

SeedInv == phase \in {"propagate", "done"} =>
             \A n \in DOMAIN seeds : n \in Nodes /\ seeds[n] \in Nat /\ ReachedBy(n, seeds[n])

NeighbourInv ==
  \A n \in DOMAIN hours, dir \in Near :
    /\ Shift(n, Segments[dir].to) \in Adjacent[n] /\ slowness[Shift(n, Segments[dir].to)] > 0
    => ReachedBy(Shift(n, Segments[dir].to), hours[n] + Cost(n, Segments[dir]))

WaveInv == MarkInv /\ PhaseInv /\ QueueInv /\ OrderInv /\ ArrivalInv /\ SeedInv /\ NeighbourInv

\* What the initial state establishes.
LEMMA InitWave == Init => WaveInv
<1> SUFFICES ASSUME Init PROVE WaveInv OBVIOUS
<1>1. InputsOK
  <2>1. PICK s \in Surveys : /\ slowness \in [Nodes -> s.values]
                             /\ request \in [lon : s.lons, lat : s.lats, mode : {s.mode}]
    BY DEF Init
  <2>2. /\ s.values \subseteq Nat /\ s.lons \subseteq Int /\ s.lats \subseteq Int
        /\ s.mode \in {"client", "default"} /\ (NodeOffset = 1 => s.mode = "default")
    BY GridAssumption
  <2> QED BY <2>1, <2>2 DEF InputsOK
<1>2. \A n \in Nodes : slowness[n] \in Nat BY <1>1 DEF InputsOK
<1>3. DOMAIN hours = {} /\ DOMAIN seeds = {} /\ phase = "asked" /\ heap = <<>> /\ Len(heap) = 0
  BY DEF Init
<1>4. \A n \in Nodes : /\ key[n] = IF slowness[n] > 0 THEN UNREACHED ELSE BLOCKED
                       /\ pos[n] = 0 /\ seq[n] = 0
  BY DEF Init
<1>5. MarkInv
  <2>1. open = {n \in Nodes : slowness[n] > 0} \ DOMAIN hours BY <1>3 DEF Init
  <2>2. hours \in [DOMAIN hours -> Nat] BY DEF Init
  <2>3. \A n \in Nodes : /\ key[n] \in {UNREACHED, SETTLED, BLOCKED} \cup Nat
                         /\ key[n] = BLOCKED <=> slowness[n] = 0
                         /\ key[n] # SETTLED
    BY <1>2, <1>4 DEF UNREACHED, BLOCKED, SETTLED
  <2> QED BY <1>1, <1>3, <2>1, <2>2, <2>3 DEF MarkInv
<1>6. PhaseInv BY <1>3, <1>4 DEF PhaseInv
<1>7. QueueInv
  <2>1. /\ State.key = key /\ State.seq = seq /\ State.heap = heap /\ State.pos = pos
        /\ State.counter = counter
    BY DEF State
  <2>2. State \in QueueType
    <3>1. /\ key \in [Nodes -> Int] /\ seq \in [Nodes -> Nat] /\ heap \in Seq(Nodes)
          /\ pos \in [Nodes -> Nat] /\ counter \in Nat
      BY DEF Init, UNREACHED, BLOCKED
    <3> QED BY <3>1 DEF State, QueueType
  <2>3. Shape(State) BY <1>3, <1>4, <2>1 DEF Shape
  <2>4. Marked(State) BY <1>4, <2>1 DEF Marked, UNREACHED, BLOCKED
  <2>5. Ordered(State) BY <1>3, <2>1 DEF Ordered
  <2> QED BY <2>2, <2>3, <2>4, <2>5 DEF QueueInv, Good
<1>8. \A n \in Nodes : ~(key[n] > UNREACHED) BY <1>4 DEF UNREACHED, BLOCKED
<1> QED BY <1>3, <1>5, <1>6, <1>7, <1>8
        DEF WaveInv, OrderInv, ArrivalInv, SeedInv, NeighbourInv

\* A queue written back to the variables is the next state's.
LEMMA BecomesState ==
  ASSUME NEW q, q \in QueueType, Becomes(q)
  PROVE  State' = q
<1>1. q = [key |-> q.key, seq |-> q.seq, heap |-> q.heap, pos |-> q.pos, counter |-> q.counter]
  BY DEF QueueType
<1>2. State' = [key |-> q.key, seq |-> q.seq, heap |-> q.heap, pos |-> q.pos,
                counter |-> q.counter]
  BY DEF Becomes, State
<1> QED BY <1>1, <1>2

\* The inputs, and so the costs, stay.
LEMMA CostsStay ==
  ASSUME UNCHANGED inputs
  PROVE  /\ slowness' = slowness /\ request' = request /\ (InputsOK => InputsOK')
         /\ \A n, s : Cost(n, s)' = Cost(n, s)
         /\ \A n, s : FreeOfLand(n, s)' = FreeOfLand(n, s)
<1>1. slowness' = slowness /\ request' = request BY DEF inputs
<1>2. \A n, s : Cost(n, s)' = Cost(n, s) BY <1>1 DEF Cost
<1>3. \A n, s : FreeOfLand(n, s)' = FreeOfLand(n, s) BY <1>1 DEF FreeOfLand
<1> QED BY <1>1, <1>2, <1>3 DEF InputsOK

\* The steps that leave the wavefront alone.
LEMMA StillWave ==
  ASSUME WaveInv, UNCHANGED <<inputs, open, key, seq, heap, pos, counter, hours, seeds>>,
         \/ phase' = "rejected" \/ phase' = phase
         \/ phase = "propagate" /\ phase' = "done" /\ heap = <<>>
  PROVE  WaveInv'
<1>1. /\ open' = open /\ key' = key /\ seq' = seq /\ heap' = heap /\ pos' = pos
      /\ counter' = counter /\ hours' = hours /\ seeds' = seeds
  OBVIOUS
<1>2. /\ slowness' = slowness /\ InputsOK'
      /\ \A n, s : Cost(n, s)' = Cost(n, s)
      /\ \A n, s : FreeOfLand(n, s)' = FreeOfLand(n, s)
  BY CostsStay DEF WaveInv, MarkInv
<1>3. \A n, t : ArrivesAt(n, t)' = ArrivesAt(n, t) /\ ReachedBy(n, t)' = ReachedBy(n, t)
  BY <1>1, <1>2 DEF ArrivesAt, ReachedBy
<1>4. MarkInv' BY <1>1, <1>2 DEF WaveInv, MarkInv
<1>5. PhaseInv' BY <1>1, <1>2 DEF WaveInv, PhaseInv
<1>6. QueueInv' BY <1>1 DEF WaveInv, QueueInv, State
<1>7. OrderInv' BY <1>1 DEF WaveInv, OrderInv
<1>8. ArrivalInv' BY <1>1, <1>3 DEF WaveInv, ArrivalInv
<1>9. SeedInv' BY <1>1, <1>3 DEF WaveInv, SeedInv
<1>10. NeighbourInv' BY <1>1, <1>2, <1>3 DEF WaveInv, NeighbourInv
<1> QED BY <1>4, <1>5, <1>6, <1>7, <1>8, <1>9, <1>10 DEF WaveInv

\* _solve up to the end of the loop over the seeds.
LEMMA SeedWave ==
  ASSUME WaveInv, Seed
  PROVE  WaveInv'
<1>1. /\ phase = "asked" /\ phase' = "propagate" /\ InsideGrid(request.lon, request.lat)
      /\ Indexable(locate_source(request)) /\ slowness[Indexed(locate_source(request))] > 0
      /\ seeds' = Seeds /\ Becomes(Seeded(State, seeds'))
      /\ UNCHANGED inputs /\ open' = open /\ hours' = hours
  BY DEF Seed
<1>2. InputsOK /\ Good(State) /\ DOMAIN hours = {} BY <1>1 DEF WaveInv, MarkInv, QueueInv, PhaseInv
<1>3. DOMAIN Seeds \subseteq {n \in Nodes : slowness[n] > 0} /\ Seeds \in [DOMAIN Seeds -> Nat]
  BY <1>1, <1>2, SeedsTyped
<1>4. /\ slowness' = slowness /\ InputsOK' BY <1>1, <1>2, CostsStay
<1> DEFINE times == seeds'
           q == Seeded(State, times)
<1>5. times \in [DOMAIN times -> Nat] /\ \A n \in DOMAIN times : n \in Nodes /\ slowness[n] > 0
  BY <1>1, <1>3
<1>6. State.key = key BY DEF State
<1>7. DOMAIN times \subseteq {n \in Nodes : State.key[n] = UNREACHED}
  BY <1>1, <1>5, <1>6 DEF WaveInv, PhaseInv
<1>8. /\ Good(q)
      /\ \A n \in Nodes : q.key[n] = IF n \in DOMAIN times THEN times[n] ELSE State.key[n]
  <2> DEFINE z == State
             w == times
  <2>1. Good(z) /\ w \in [DOMAIN w -> Nat] /\ DOMAIN w \subseteq {n \in Nodes : z.key[n] = UNREACHED}
    BY <1>2, <1>5, <1>7
  <2> HIDE DEF z, w
  <2>2. /\ Good(Seeded(z, w))
        /\ \A n \in Nodes : Seeded(z, w).key[n] = IF n \in DOMAIN w THEN w[n] ELSE z.key[n]
    BY <2>1, SeededKeeps
  <2> QED BY <2>2 DEF z, w
<1>9. State' = q /\ key' = q.key
  <2>1. q \in QueueType /\ Becomes(q) BY <1>1, <1>8 DEF Good
  <2> HIDE DEF q
  <2>2. State' = q BY <2>1, BecomesState
  <2> QED BY <2>1, <2>2 DEF Becomes
<1>10. \A n \in Nodes : key'[n] = IF n \in DOMAIN times THEN times[n] ELSE key[n]
  BY <1>6, <1>8, <1>9
<1>11. \A n \in Nodes : slowness[n] \in Nat /\ key[n] = IF slowness[n] > 0 THEN UNREACHED ELSE BLOCKED
  BY <1>1 DEF WaveInv, MarkInv, PhaseInv, InputsOK
<1>12. \A n \in DOMAIN times : times[n] \in Nat BY <1>5
<1> HIDE DEF q
<1>13. \A n \in Nodes : key'[n] > UNREACHED <=> n \in DOMAIN times
  BY <1>10, <1>11, <1>12 DEF UNREACHED, BLOCKED
<1>14. MarkInv'
  <2>1. \A n \in Nodes : /\ key'[n] \in {UNREACHED, SETTLED, BLOCKED} \cup Nat
                         /\ key'[n] = BLOCKED <=> slowness[n] = 0
                         /\ key'[n] # SETTLED
    BY <1>5, <1>10, <1>11, <1>12 DEF UNREACHED, BLOCKED, SETTLED
  <2>2. open' = {n \in Nodes : slowness'[n] > 0} \ DOMAIN hours'
    BY <1>1, <1>4 DEF WaveInv, MarkInv
  <2>3. DOMAIN hours' = {} /\ hours' \in [DOMAIN hours' -> Nat]
    BY <1>1, <1>2 DEF WaveInv, MarkInv
  <2> QED BY <1>1, <1>4, <2>1, <2>2, <2>3 DEF MarkInv
<1>15. PhaseInv' BY <1>1 DEF PhaseInv
<1>16. QueueInv' BY <1>8, <1>9 DEF QueueInv
<1>17. DOMAIN hours' = {} BY <1>1, <1>2
<1>18. OrderInv' /\ NeighbourInv' BY <1>17 DEF OrderInv, NeighbourInv
<1>19. ArrivalInv' BY <1>10, <1>13, <1>17 DEF ArrivalInv, ArrivesAt
<1>20. SeedInv' BY <1>5, <1>10, <1>12, <1>13 DEF SeedInv, ReachedBy
<1> QED BY <1>14, <1>15, <1>16, <1>18, <1>19, <1>20 DEF WaveInv

\* A direction to an adjacent node is blocked by that node alone.
LEMMA AdjacentSegment ==
  ASSUME NEW n \in Nodes, NEW dir \in Near, Shift(n, Segments[dir].to) \in Adjacent[n]
  PROVE  Segments[dir].block = {Segments[dir].to} /\ Shift(n, Segments[dir].to) \in Nodes
<1> DEFINE c == Segments[dir].to
           m == Shift(n, c)
<1>1. c \in Int \X Int
      /\ (c[1] \in -1..1 /\ c[2] \in -1..1 => Segments[dir].block = {c})
  BY SegmentsTyped
<1>2. m = <<n[1] - c[2], n[2] + c[1]>> BY DEF Shift
<1>3. m \in Nodes /\ n[1] - m[1] \in -1..1 /\ n[2] - m[2] \in -1..1 BY DEF Adjacent
<1>4. n[1] \in Int /\ n[2] \in Int /\ c[1] \in Int /\ c[2] \in Int
  BY <1>1, GridAssumption DEF Nodes
<1>5. m[1] = n[1] - c[2] /\ m[2] = n[2] + c[1] BY <1>2
<1> HIDE DEF c, m
<1>6. c[1] \in -1..1 /\ c[2] \in -1..1 BY <1>3, <1>4, <1>5
<1> QED BY <1>1, <1>3, <1>6 DEF c, m

\* One turn of _propagate's loop.
LEMMA SettleWave ==
  ASSUME WaveInv, Settle
  PROVE  WaveInv'
<1> DEFINE n == heap[1]
           t == key[n]
           z == State
           q == Pop(z)
           r == Relax(q, n, t)
           e(dir) == Shift(n, Segments[dir].to)
           c(dir) == t + Cost(n, Segments[dir])
<1>1. /\ phase = "propagate" /\ phase' = "propagate" /\ heap # <<>> /\ Becomes(r)
      /\ open' = open \ {n}
      /\ hours' = [m \in DOMAIN hours \cup {n} |-> IF m = n THEN t ELSE hours[m]]
      /\ UNCHANGED inputs /\ seeds' = seeds
  BY DEF Settle
<1>2. z.key = key /\ z.heap = heap BY DEF State
<1>3. InputsOK /\ Good(z) /\ open \subseteq Nodes BY DEF WaveInv, MarkInv, QueueInv
<1>4. /\ Good(q) /\ q.key = [key EXCEPT ![n] = SETTLED] /\ n \in Nodes /\ t \in Nat
      /\ \A m \in Nodes : key[m] > UNREACHED => t <= key[m]
  <2>1. z.heap # <<>> BY <1>1, <1>2
  <2>2. /\ Good(Pop(z)) /\ Pop(z).key = [z.key EXCEPT ![z.heap[1]] = SETTLED]
        /\ z.heap[1] \in Nodes /\ z.key[z.heap[1]] \in Nat
        /\ \A m \in Nodes : z.key[m] > UNREACHED => z.key[z.heap[1]] <= z.key[m]
    <3> HIDE DEF z
    <3> QED BY <1>3, <2>1, PopKeeps
  <2> HIDE DEF z
  <2> QED BY <1>2, <2>2
<1> HIDE DEF q, n, t, z
<1>5. Relaxed(r, q, n, t, LastNear) /\ \A dir \in Near : dir <= LastNear
  BY <1>3, <1>4, RelaxKeeps
<1> HIDE DEF r
<1>6. State' = r /\ key' = r.key /\ Good(r)
  <2>1. Good(r) /\ r \in QueueType BY <1>5 DEF Relaxed, Good
  <2>2. State' = r BY <1>1, <2>1, BecomesState
  <2> QED BY <1>1, <2>1, <2>2 DEF Becomes
<1>7. key \in [Nodes -> Int] /\ key' \in [Nodes -> Int]
  BY <1>2, <1>3, <1>6 DEF Good, QueueType
<1>8. \A m \in Nodes : q.key[m] = IF m = n THEN SETTLED ELSE key[m] BY <1>4, <1>7
<1>9. /\ slowness' = slowness /\ InputsOK'
      /\ \A m, s : Cost(m, s)' = Cost(m, s)
      /\ \A m, s : FreeOfLand(m, s)' = FreeOfLand(m, s)
  BY <1>1, <1>3, CostsStay
<1>10. /\ DOMAIN hours \subseteq Nodes /\ hours \in [DOMAIN hours -> Nat]
       /\ open = {m \in Nodes : slowness[m] > 0} \ DOMAIN hours
       /\ \A m \in Nodes : /\ key[m] \in {UNREACHED, SETTLED, BLOCKED} \cup Nat
                           /\ key[m] = BLOCKED <=> slowness[m] = 0
                           /\ key[m] = SETTLED <=> m \in DOMAIN hours
  BY DEF WaveInv, MarkInv
<1>11. n \notin DOMAIN hours /\ slowness[n] > 0 /\ slowness[n] \in Nat /\ t = key[n]
  BY <1>3, <1>4, <1>10 DEF SETTLED, BLOCKED, InputsOK, t
<1>12. /\ DOMAIN hours' = DOMAIN hours \cup {n} /\ hours'[n] = t
       /\ \A m \in DOMAIN hours : hours'[m] = hours[m] /\ hours[m] \in Nat
  BY <1>1, <1>10, <1>11
<1>13. \A dir \in Near : Free(n, Segments[dir]) => Cost(n, Segments[dir]) \in Nat /\ c(dir) \in Nat /\ c(dir) >= t
  <2>1. \A dir \in Near : Free(n, Segments[dir]) => Cost(n, Segments[dir]) \in Nat
    BY <1>3, <1>4, FreeCost
  <2> QED BY <2>1, <1>4
<1>14. ASSUME NEW m \in Nodes
       PROVE  \/ key'[m] = q.key[m]
              \/ /\ q.key[m] >= UNREACHED /\ (q.key[m] = UNREACHED \/ key'[m] < q.key[m])
                 /\ \E dir \in Near : e(dir) = m /\ Free(n, Segments[dir]) /\ key'[m] = c(dir)
  BY <1>5, <1>6 DEF Relaxed
<1>15. ASSUME NEW dir \in Near, e(dir) \in Nodes, q.key[e(dir)] >= UNREACHED, Free(n, Segments[dir])
       PROVE  key'[e(dir)] > UNREACHED /\ key'[e(dir)] <= c(dir)
  BY <1>5, <1>6, <1>15 DEF Relaxed
<1> HIDE DEF c, e
\* A mark of the next state: that of this one, or an arrival from n.
<1>16. ASSUME NEW m \in Nodes
       PROVE  \/ m = n /\ key'[m] = SETTLED
              \/ m # n /\ key'[m] = key[m]
              \/ /\ m # n /\ key[m] >= UNREACHED /\ (key[m] = UNREACHED \/ key'[m] < key[m])
                 /\ \E dir \in Near : e(dir) = m /\ Free(n, Segments[dir]) /\ key'[m] = c(dir)
                 /\ key'[m] \in Nat /\ key'[m] >= t
  <2>1. CASE m = n
    <3>1. ~(q.key[m] >= UNREACHED) /\ q.key[m] = SETTLED BY <2>1, <1>8, <1>4 DEF SETTLED, UNREACHED
    <3> QED BY <3>1, <2>1, <1>14
  <2>2. CASE m # n
    <3>1. q.key[m] = key[m] BY <2>2, <1>8
    <3> QED BY <3>1, <2>2, <1>13, <1>14
  <2> QED BY <2>1, <2>2
<1>17. MarkInv'
  <2>1. ASSUME NEW m \in Nodes
        PROVE  /\ key'[m] \in {UNREACHED, SETTLED, BLOCKED} \cup Nat
               /\ key'[m] = BLOCKED <=> slowness[m] = 0
               /\ key'[m] = SETTLED <=> m \in DOMAIN hours'
    <3>1. CASE m = n
      <4>1. key'[m] = SETTLED BY <3>1, <1>16
      <4> QED BY <4>1, <3>1, <1>11, <1>12 DEF SETTLED, BLOCKED
    <3>2. CASE m # n /\ key'[m] = key[m] BY <3>2, <1>10, <1>12
    <3>3. CASE key'[m] \in Nat /\ m # n /\ key[m] >= UNREACHED
      <4>1. key[m] # SETTLED /\ key[m] # BLOCKED BY <3>3 DEF UNREACHED, SETTLED, BLOCKED
      <4>2. key'[m] # SETTLED /\ key'[m] # BLOCKED BY <3>3 DEF SETTLED, BLOCKED
      <4> QED BY <3>3, <4>1, <4>2, <1>10, <1>12
    <3> QED BY <3>1, <3>2, <3>3, <1>16
  <2>2. open' = {m \in Nodes : slowness'[m] > 0} \ DOMAIN hours' BY <1>1, <1>9, <1>10, <1>12
  <2>3. hours' \in [DOMAIN hours' -> Nat]
    <3>1. hours' = [m \in DOMAIN hours' |-> hours'[m]] BY <1>1, <1>12
    <3>2. \A m \in DOMAIN hours' : hours'[m] \in Nat BY <1>4, <1>12
    <3> QED BY <3>1, <3>2
  <2>4. DOMAIN hours' \subseteq Nodes BY <1>4, <1>10, <1>12
  <2> QED BY <1>1, <1>9, <2>1, <2>2, <2>3, <2>4 DEF MarkInv
<1>18. PhaseInv' BY <1>1 DEF PhaseInv
<1>19. QueueInv' BY <1>6 DEF QueueInv
<1>20. \A m \in DOMAIN hours : hours[m] <= t
  <2>1. key[n] > UNREACHED BY <1>4, <1>11 DEF UNREACHED
  <2> QED BY <2>1, <1>4, <1>11 DEF WaveInv, OrderInv
<1>21. OrderInv'
  <2>1. ASSUME NEW m \in Nodes, key'[m] > UNREACHED PROVE t <= key'[m]
    <3>1. CASE m = n BY <3>1, <2>1, <1>16 DEF SETTLED, UNREACHED
    <3>2. CASE m # n /\ key'[m] = key[m] BY <3>2, <2>1, <1>4
    <3>3. CASE key'[m] \in Nat /\ key'[m] >= t BY <3>3, <1>4
    <3> QED BY <3>1, <3>2, <3>3, <1>16
  <2>2. \A m \in DOMAIN hours' : hours'[m] \in Nat /\ hours'[m] <= t BY <1>4, <1>12, <1>20
  <2> QED BY <2>1, <2>2, <1>4, <1>7 DEF OrderInv
<1>22. ArrivalInv'
  <2>1. ASSUME NEW m \in Nodes, key'[m] > UNREACHED PROVE ArrivesAt(m, key[m])'
    <3>1. CASE m = n BY <3>1, <2>1, <1>16 DEF SETTLED, UNREACHED
    <3>2. CASE m # n /\ key'[m] = key[m]
      <4>1. ArrivesAt(m, key[m]) BY <3>2, <2>1 DEF WaveInv, ArrivalInv
      <4> DEFINE x == key[m]
      <4>2. ArrivesAt(m, x) /\ key'[m] = x BY <4>1, <3>2
      <4> QED BY <4>2, <3>2, <1>1, <1>9, <1>12 DEF ArrivesAt
    <3>3. CASE \E dir \in Near : e(dir) = m /\ Free(n, Segments[dir]) /\ key'[m] = c(dir)
      BY <3>3, <1>9, <1>10, <1>12, <1>13 DEF ArrivesAt, Free, FreeOfLand, c, e
    <3> QED BY <3>1, <3>2, <3>3, <1>16
  <2>2. ASSUME NEW m \in DOMAIN hours' PROVE ArrivesAt(m, hours[m])'
    <3>1. CASE m \in DOMAIN hours
      <4>1. ArrivesAt(m, hours[m]) /\ hours'[m] = hours[m] BY <3>1, <1>12 DEF WaveInv, ArrivalInv
      <4> QED BY <4>1, <1>1, <1>9, <1>12 DEF ArrivesAt
    <3>2. CASE m = n
      <4>1. key[n] > UNREACHED BY <1>4, <1>11 DEF UNREACHED
      <4>2. ArrivesAt(n, key[n]) /\ hours'[n] = key[n]
        BY <4>1, <1>4, <1>11, <1>12 DEF WaveInv, ArrivalInv
      <4> QED BY <4>2, <3>2, <1>1, <1>9, <1>12 DEF ArrivesAt
    <3> QED BY <3>1, <3>2, <1>12
  <2> QED BY <2>1, <2>2 DEF ArrivalInv
\* What is reached by a time stays so.
<1>23. ASSUME NEW m \in Nodes, NEW x \in Nat,
              (m \in DOMAIN hours /\ hours[m] <= x) \/ (key[m] > UNREACHED /\ key[m] <= x)
       PROVE  (m \in DOMAIN hours' /\ hours'[m] <= x) \/ (key'[m] > UNREACHED /\ key'[m] <= x)
  <2>1. CASE m \in DOMAIN hours /\ hours[m] <= x BY <2>1, <1>12
  <2>2. CASE key[m] > UNREACHED /\ key[m] <= x
    <3>1. CASE m = n BY <2>2, <3>1, <1>11, <1>12
    <3>2. CASE m # n
      <4>1. \/ key'[m] = key[m]
            \/ key[m] = UNREACHED \/ (key'[m] < key[m] /\ key'[m] \in Nat)
        BY <3>2, <1>16
      <4> QED BY <4>1, <2>2, <1>7 DEF UNREACHED
    <3> QED BY <3>1, <3>2
  <2> QED BY <1>23, <2>1, <2>2
<1>24. SeedInv'
  <2>1. ASSUME NEW m \in DOMAIN seeds
        PROVE  /\ m \in Nodes /\ seeds[m] \in Nat
               /\ \/ m \in DOMAIN hours' /\ hours'[m] <= seeds[m]
                  \/ key'[m] > UNREACHED /\ key'[m] <= seeds[m]
    <3>1. m \in Nodes /\ seeds[m] \in Nat /\ ReachedBy(m, seeds[m]) BY <1>1 DEF WaveInv, SeedInv
    <3> QED BY <3>1, <1>23 DEF ReachedBy
  <2> QED BY <2>1, <1>1 DEF SeedInv, ReachedBy
<1>25. NeighbourInv'
  <2>1. ASSUME NEW m \in DOMAIN hours', NEW dir \in Near,
  Shift(m, Segments[dir].to) \in Adjacent[m],
               slowness[Shift(m, Segments[dir].to)] > 0
        PROVE  \/ /\ Shift(m, Segments[dir].to) \in DOMAIN hours'
                  /\ hours'[Shift(m, Segments[dir].to)] <= hours'[m] + Cost(m, Segments[dir])
               \/ /\ key'[Shift(m, Segments[dir].to)] > UNREACHED
                  /\ key'[Shift(m, Segments[dir].to)] <= hours'[m] + Cost(m, Segments[dir])
    <3> DEFINE s == Segments[dir]
               p == Shift(m, s.to)
    <3>1. m \in Nodes BY <1>4, <1>10, <1>12
    <3>2. s.block = {s.to} /\ p \in Nodes BY <2>1, <3>1, AdjacentSegment
    <3>3. Cost(m, s) \in Nat BY <3>1, <3>2, <1>3, CostTyped
    <3>4. CASE m \in DOMAIN hours
      <4>1. ReachedBy(p, hours[m] + Cost(m, s)) BY <2>1, <3>4 DEF WaveInv, NeighbourInv
      <4>2. hours[m] + Cost(m, s) \in Nat /\ hours'[m] = hours[m] BY <3>3, <3>4, <1>12
      <4> HIDE DEF p, s
      <4>3. \/ p \in DOMAIN hours' /\ hours'[p] <= hours[m] + Cost(m, s)
            \/ key'[p] > UNREACHED /\ key'[p] <= hours[m] + Cost(m, s)
        BY <4>1, <4>2, <3>2, <1>23 DEF ReachedBy
      <4> QED BY <4>2, <4>3 DEF p, s
    <3>5. CASE m = n
      <4>1. hours'[m] = t /\ p = e(dir) /\ t + Cost(m, s) = c(dir) BY <3>5, <1>12 DEF e, c
      <4>2. p # n
        <5>1. p \in Nodes \ {m} BY <2>1, <3>1 DEF Adjacent
        <5> QED BY <5>1, <3>5
      <4>3. CASE p \in DOMAIN hours
        <5>1. hours[p] \in Nat /\ hours[p] <= t /\ hours'[p] = hours[p] /\ p \in DOMAIN hours'
          BY <4>3, <1>12, <1>20
        <5>2. hours'[p] <= t + Cost(m, s)
          <6> HIDE DEF p, s
          <6> QED BY <5>1, <3>3, <1>4
        <5> QED BY <5>1, <5>2, <4>1
      <4>4. CASE p \notin DOMAIN hours
        <5>1. p \in open BY <2>1, <3>2, <4>4, <1>10
        <5>2. Free(n, s) BY <5>1, <3>2, <3>5 DEF Free
        <5>3. key[p] # BLOCKED /\ key[p] # SETTLED /\ key[p] \in {UNREACHED, SETTLED,
        BLOCKED} \cup Nat
          BY <2>1, <3>2, <4>4, <1>10
        <5>4. q.key[p] >= UNREACHED BY <5>3, <4>2, <3>2, <1>8 DEF UNREACHED
        <5>5. key'[p] > UNREACHED /\ key'[p] <= c(dir)
          BY <5>2, <5>4, <4>1, <3>2, <1>15
        <5> QED BY <5>5, <4>1
      <4> QED BY <4>3, <4>4
    <3> QED BY <3>4, <3>5, <1>12
  <2> QED BY <2>1, <1>9 DEF NeighbourInv, ReachedBy
<1> QED BY <1>17, <1>18, <1>19, <1>21, <1>22, <1>24, <1>25 DEF WaveInv

\* The invariant holds in every state of a run.
LEMMA Wave == Spec => []WaveInv
<1>1. Init => WaveInv BY InitWave
<1>2. WaveInv /\ [Next]_vars => WaveInv'
  <2> SUFFICES ASSUME WaveInv, [Next]_vars PROVE WaveInv' OBVIOUS
  <2>1. CASE Reject
    <3>1. /\ UNCHANGED <<inputs, open, key, seq, heap, pos, counter, hours, seeds>>
          /\ phase' = "rejected"
      BY <2>1 DEF Reject
    <3> QED BY <3>1, StillWave
  <2>2. CASE Seed BY <2>2, SeedWave
  <2>3. CASE Settle BY <2>3, SettleWave
  <2>4. CASE Finish
    <3>1. /\ UNCHANGED <<inputs, open, key, seq, heap, pos, counter, hours, seeds>>
          /\ phase = "propagate" /\ phase' = "done" /\ heap = <<>>
      BY <2>4 DEF Finish
    <3> QED BY <3>1, StillWave
  <2>5. CASE Returned \/ UNCHANGED vars
    <3>1. /\ UNCHANGED <<inputs, open, key, seq, heap, pos, counter, hours, seeds>>
          /\ phase' = phase
      BY <2>5 DEF Returned, vars, inputs
    <3> QED BY <3>1, StillWave
  <2> QED BY <2>1, <2>2, <2>3, <2>4, <2>5 DEF Next
<1> QED BY <1>1, <1>2, PTL DEF Spec

\* A finished run has nothing queued.
LEMMA QueueEnds ==
  ASSUME WaveInv, phase = "done"
  PROVE  \A n \in Nodes : ~(key[n] > UNREACHED)
<1>1. heap = <<>> /\ Len(heap) = 0 BY DEF WaveInv, PhaseInv
<1>2. State.key = key /\ State.heap = heap /\ State.pos = pos BY DEF State
<1>3. Shape(State) /\ Marked(State) /\ pos \in [Nodes -> Nat]
  BY <1>2 DEF WaveInv, QueueInv, Good, QueueType
<1>4. \A n \in Nodes : pos[n] <= 0 /\ pos[n] \in Nat BY <1>1, <1>2, <1>3 DEF Shape
<1>5. \A n \in Nodes : pos[n] > 0 <=> key[n] > UNREACHED BY <1>2, <1>3 DEF Marked
<1> QED BY <1>4, <1>5

(***************************************************************************)
(* The travel-time solver's queue is a heap in every state, for every      *)
(* grid, every bathymetry and every epicenter: _sift_up and _sift_down     *)
(* restore it, `pos` finds each queued node, and a node that is settled is *)
(* never later than one still queued, so no settled time has to be         *)
(* corrected.                                                              *)
(***************************************************************************)
THEOREM WavefrontQueue == Spec => []QueueConsistent
<1>1. WaveInv => QueueConsistent
  <2> SUFFICES ASSUME WaveInv PROVE QueueConsistent OBVIOUS
  <2>1. /\ State.key = key /\ State.heap = heap /\ State.pos = pos BY DEF State
  <2>2. Shape(State) /\ Marked(State) /\ Ordered(State) BY DEF WaveInv, QueueInv, Good
  <2>3. /\ \A i \in 1..Len(heap) : pos[heap[i]] = i
        /\ \A n \in Nodes : pos[n] > 0 => heap[pos[n]] = n
    BY <2>1, <2>2 DEF Shape
  <2>4. \A n \in Nodes : pos[n] > 0 <=> key[n] > UNREACHED BY <2>1, <2>2 DEF Marked
  <2>5. \A i \in 2..Len(heap) : ~Less(State, heap[i], heap[i \div 2]) BY <2>1, <2>2 DEF Ordered
  <2>6. \A n \in Nodes, m \in DOMAIN hours : pos[n] > 0 => hours[m] <= key[n]
    BY <2>4 DEF WaveInv, OrderInv
  <2> QED BY <2>3, <2>4, <2>5, <2>6 DEF QueueConsistent
<1> QED BY <1>1, Wave, PTL

(***************************************************************************)
(* The times the solver returns are arrivals of a wavefront, for every     *)
(* grid, bathymetry and epicenter: each is a seed's or that of an earlier  *)
(* node plus the cost of a segment that meets no land, no seed is later    *)
(* than its own time, and no node is later than a step from an adjacent    *)
(* one, whatever the stencil's blocked directions left out.                *)
(***************************************************************************)
THEOREM WavefrontTimes == Spec => []TimesAreArrivals
<1>1. WaveInv => TimesAreArrivals
  <2> SUFFICES ASSUME WaveInv, phase = "done" PROVE TimesAreArrivals
    BY DEF TimesAreArrivals
  <2>3. \A n \in Nodes : ~(key[n] > UNREACHED) BY QueueEnds
  <2>4. \A n \in DOMAIN seeds : hours[n] <= seeds[n]
    BY <2>3 DEF WaveInv, SeedInv, ReachedBy
  <2>5. \A n \in DOMAIN hours : ArrivesAt(n, hours[n]) BY DEF WaveInv, ArrivalInv
  <2>6. DOMAIN hours \subseteq Nodes /\ slowness \in [Nodes -> Nat]
        /\ \A n \in DOMAIN hours : slowness[n] > 0
    <3>1. /\ DOMAIN hours \subseteq Nodes /\ slowness \in [Nodes -> Nat]
          /\ \A n \in Nodes : /\ key[n] = BLOCKED <=> slowness[n] = 0
                              /\ key[n] = SETTLED <=> n \in DOMAIN hours
      BY DEF WaveInv, MarkInv, InputsOK
    <3> QED BY <3>1 DEF SETTLED, BLOCKED
  <2>7. ASSUME NEW n \in DOMAIN hours, NEW dir \in Near,
               Shift(n, Segments[dir].to) \in Adjacent[n] \cap DOMAIN hours
        PROVE  hours[Shift(n, Segments[dir].to)] <= hours[n] + Cost(n, Segments[dir])
    <3>1. ReachedBy(Shift(n, Segments[dir].to), hours[n] + Cost(n, Segments[dir]))
      BY <2>6, <2>7 DEF WaveInv, NeighbourInv
    <3> QED BY <3>1, <2>3, <2>6, <2>7 DEF ReachedBy
  <2> QED BY <2>4, <2>5, <2>7 DEF TimesAreArrivals, ArrivesAt
<1> QED BY <1>1, Wave, PTL
-----------------------------------------------------------------------------
(* The travel-time solver: the water a wavefront reaches *)

\* The cells of a row lead from the node to the row's end, each next to the one
\* before.
RowChained(r) ==
  /\ Len(r.cells) \in Nat \ {0}
  /\ r.cells[1][1] \in -1..1 /\ r.cells[1][2] \in -1..1
  /\ r.cells[Len(r.cells)][1] = r.major /\ r.cells[Len(r.cells)][2] = r.minor
  /\ \A i \in 2..Len(r.cells) : /\ r.cells[i][1] - r.cells[i - 1][1] \in -1..1
                                /\ r.cells[i][2] - r.cells[i - 1][2] \in -1..1

\* Every row of the table is such a chain.
LEMMA RowsChained ==
  ASSUME NEW o \in 1..16
  PROVE  RowChained(Primitives[o])
<1>1. RowChained(Row_1_0) BY DEF RowChained, Row_1_0
<1>2. RowChained(Row_1_1) BY DEF RowChained, Row_1_1
<1>3. RowChained(Row_2_1) BY DEF RowChained, Row_2_1
<1>4. RowChained(Row_3_1) BY DEF RowChained, Row_3_1
<1>5. RowChained(Row_3_2) BY DEF RowChained, Row_3_2
<1>6. RowChained(Row_4_1) BY DEF RowChained, Row_4_1
<1>7. RowChained(Row_4_3) BY DEF RowChained, Row_4_3
<1>8. RowChained(Row_5_1) BY DEF RowChained, Row_5_1
<1>9. RowChained(Row_5_2) BY DEF RowChained, Row_5_2
<1>10. RowChained(Row_5_3) BY DEF RowChained, Row_5_3
<1>11. RowChained(Row_6_1) BY DEF RowChained, Row_6_1
<1>12. RowChained(Row_5_4) BY DEF RowChained, Row_5_4
<1>13. RowChained(Row_7_3) BY DEF RowChained, Row_7_3
<1>14. RowChained(Row_8_1) BY DEF RowChained, Row_8_1
<1>15. RowChained(Row_7_6) BY DEF RowChained, Row_7_6
<1>16. RowChained(Row_13_1) BY DEF RowChained, Row_13_1
<1>17. Primitives[o] \in {Row_1_0, Row_1_1, Row_2_1, Row_3_1, Row_3_2, Row_4_1, Row_4_3,
                          Row_5_1, Row_5_2, Row_5_3, Row_6_1, Row_5_4, Row_7_3, Row_8_1,
                          Row_7_6, Row_13_1}
  BY DEF Primitives
<1> QED
  BY <1>1, <1>2, <1>3, <1>4, <1>5, <1>6, <1>7, <1>8, <1>9, <1>10, <1>11, <1>12, <1>13,
     <1>14, <1>15, <1>16, <1>17

\* A reflection keeps neighbours neighbours, also of the node itself.
LEMMA ReflectNear ==
  ASSUME NEW g \in 1..8, NEW x \in Int, NEW y \in Int
  PROVE  /\ x \in -1..1 /\ y \in -1..1 =>
              Reflect(g, x, y)[1] \in -1..1 /\ Reflect(g, x, y)[2] \in -1..1
         /\ \A u, v \in Int : u - x \in -1..1 /\ v - y \in -1..1 =>
              /\ Reflect(g, u, v)[1] - Reflect(g, x, y)[1] \in -1..1
              /\ Reflect(g, u, v)[2] - Reflect(g, x, y)[2] \in -1..1
<1>1. g \in {1, 2, 3, 4, 5, 6, 7, 8} OBVIOUS
<1> QED BY <1>1 DEF Reflect

\* A set of nodes that takes in the water it touches.
Closed(C) == \A n \in C : \A m \in Adjacent[n] : slowness[m] > 0 => m \in C

\* Water within one row and one column of a node of a closed set is in it.
LEMMA Touches ==
  ASSUME NEW C \in SUBSET Nodes, Closed(C), NEW n \in C, NEW m \in Nodes, slowness[m] > 0,
         n[1] - m[1] \in -1..1, n[2] - m[2] \in -1..1
  PROVE  m \in C
<1>1. CASE m = n BY <1>1
<1>2. CASE m # n
  <2>1. m \in Adjacent[n] BY <1>2 DEF Adjacent
  <2> QED BY <2>1 DEF Closed
<1> QED BY <1>1, <1>2

\* A segment that meets no land does not leave the water its node touches,
\* however long it is.
LEMMA SegmentStays ==
  ASSUME NEW C \in SUBSET Nodes, Closed(C), NEW n \in C, NEW dir \in Near,
         FreeOfLand(n, Segments[dir])
  PROVE  Shift(n, Segments[dir].to) \in C
<1> DEFINE d == Directions[dir]
           r == Row(d)
           c == r.cells
           L == Len(c)
           g == d.image
           e(i) == Reflect(g, c[i][1], c[i][2])
<1>1. d.octet \in 1..16 /\ g \in 1..8 BY DirectionsTyped DEF Near
<1>2. RowTyped(r) /\ RowChained(r) BY <1>1, RowsTyped, RowsChained DEF Row
<1>3. Segments[dir].to = Reflect(g, r.major, r.minor) /\ Segments[dir].block = BlockCells(d)
  BY DEF Segments, Neighbour
<1>4. L \in Nat \ {0} /\ \A i \in 1..L : c[i][1] \in Int /\ c[i][2] \in Int
  BY <1>2 DEF RowTyped, RowChained
<1>5. \A i \in 1..L : e(i) \in BlockCells(d)
  <2>1. \A i \in 1..L : Weighted(d)[i][1] = e(i) BY DEF Weighted
  <2> QED BY <2>1 DEF BlockCells
<1>6. \A i \in 1..L : Shift(n, e(i)) \in Nodes /\ slowness[Shift(n, e(i))] > 0
  BY <1>3, <1>5 DEF FreeOfLand
<1>7. \A i \in 1..L : e(i) \in Int \X Int
  <2>1. ASSUME NEW i \in 1..L PROVE e(i) \in Int \X Int
    <3> DEFINE x == c[i][1]
               y == c[i][2]
    <3>1. x \in Int /\ y \in Int BY <1>4
    <3> HIDE DEF x, y
    <3>2. Reflect(g, x, y) \in Int \X Int BY <3>1, <1>1, ReflectTyped
    <3> QED BY <3>2 DEF x, y
  <2> QED BY <2>1
<1>8. e(1)[1] \in -1..1 /\ e(1)[2] \in -1..1
  <2> DEFINE x == c[1][1]
             y == c[1][2]
  <2>1. x \in Int /\ y \in Int /\ x \in -1..1 /\ y \in -1..1 BY <1>2, <1>4 DEF RowChained
  <2> HIDE DEF x, y
  <2>2. Reflect(g, x, y)[1] \in -1..1 /\ Reflect(g, x, y)[2] \in -1..1
    BY <2>1, <1>1, ReflectNear
  <2> QED BY <2>2 DEF x, y
<1>9. \A i \in 2..L : e(i)[1] - e(i - 1)[1] \in -1..1 /\ e(i)[2] - e(i - 1)[2] \in -1..1
  <2>1. ASSUME NEW i \in 2..L
        PROVE  e(i)[1] - e(i - 1)[1] \in -1..1 /\ e(i)[2] - e(i - 1)[2] \in -1..1
    <3> DEFINE x == c[i - 1][1]
               y == c[i - 1][2]
               u == c[i][1]
               v == c[i][2]
    <3>1. i \in 1..L /\ i - 1 \in 1..L BY <1>4
    <3>2. x \in Int /\ y \in Int /\ u \in Int /\ v \in Int BY <3>1, <1>4
    <3>3. u - x \in -1..1 /\ v - y \in -1..1 BY <1>2 DEF RowChained
    <3> HIDE DEF x, y, u, v
    <3>4. /\ Reflect(g, u, v)[1] - Reflect(g, x, y)[1] \in -1..1
          /\ Reflect(g, u, v)[2] - Reflect(g, x, y)[2] \in -1..1
      BY <3>2, <3>3, <1>1, ReflectNear
    <3> QED BY <3>4 DEF x, y, u, v
  <2> QED BY <2>1
<1>10. e(L) = Segments[dir].to BY <1>2, <1>3 DEF RowChained
<1> HIDE DEF d, r, L, e
<1>11. n[1] \in Int /\ n[2] \in Int BY GridAssumption DEF Nodes
<1> DEFINE T == {i \in 0..(L - 1) : Shift(n, e(i + 1)) \in C}
<1>12. 0 \in T
  <2>1. 1 \in 1..L /\ 0 \in 0..(L - 1) BY <1>4
  <2>2. /\ Shift(n, e(1))[1] = n[1] - e(1)[2] /\ Shift(n, e(1))[2] = n[2] + e(1)[1]
        /\ e(1)[1] \in Int /\ e(1)[2] \in Int
    BY <2>1, <1>7 DEF Shift
  <2>3. n[1] - Shift(n, e(1))[1] \in -1..1 /\ n[2] - Shift(n, e(1))[2] \in -1..1
    BY <2>2, <1>8, <1>11
  <2>4. Shift(n, e(1)) \in C BY <2>1, <2>3, <1>6, Touches
  <2> QED BY <2>1, <2>4
<1>13. ASSUME NEW j \in 1..(L - 1), j - 1 \in T PROVE j \in T
  <2>1. j \in 1..L /\ j + 1 \in 1..L /\ j + 1 \in 2..L /\ (j + 1) - 1 = j /\ (j - 1) + 1 = j
        /\ j \in 0..(L - 1)
    BY <1>4
  <2> DEFINE p == Shift(n, e(j))
             q == Shift(n, e(j + 1))
  <2>2. p \in C BY <1>13, <2>1
  <2>3. q \in Nodes /\ slowness[q] > 0 BY <2>1, <1>6
  <2>4. e(j) \in Int \X Int /\ e(j + 1) \in Int \X Int BY <2>1, <1>7
  <2>5. e(j + 1)[1] - e(j)[1] \in -1..1 /\ e(j + 1)[2] - e(j)[2] \in -1..1 BY <2>1, <1>9
  <2>6. /\ p[1] = n[1] - e(j)[2] /\ p[2] = n[2] + e(j)[1]
        /\ q[1] = n[1] - e(j + 1)[2] /\ q[2] = n[2] + e(j + 1)[1]
    BY DEF Shift
  <2> HIDE DEF p, q
  <2>7. p[1] - q[1] \in -1..1 /\ p[2] - q[2] \in -1..1 BY <2>4, <2>5, <2>6, <1>11
  <2>8. q \in C BY <2>2, <2>3, <2>7, Touches
  <2> QED BY <2>1, <2>8 DEF q
<1> HIDE DEF T
<1>14. L - 1 \in Nat /\ L - 1 \in 0..(L - 1) /\ (L - 1) + 1 = L BY <1>4
<1>15. L - 1 \in T BY <1>12, <1>13, <1>14, Turns
<1> QED BY <1>10, <1>14, <1>15 DEF T

\* Each node next to n is the end of a direction of the stencil.
LEMMA AdjacentDirection ==
  ASSUME NEW n \in Nodes, NEW m \in Adjacent[n]
  PROVE  \E dir \in Near : Shift(n, Segments[dir].to) = m
<1> DEFINE x == m[2] - n[2]
           y == n[1] - m[1]
<1>1. NX \in Nat /\ NY \in Nat /\ NX >= 2 /\ NY >= 2 BY GridAssumption
<1>2. m \in Nodes /\ m # n /\ n[1] - m[1] \in -1..1 /\ n[2] - m[2] \in -1..1 BY DEF Adjacent
<1>3. /\ n = <<n[1], n[2]>> /\ m = <<m[1], m[2]>>
      /\ n[1] \in Int /\ n[2] \in Int /\ m[1] \in Int /\ m[2] \in Int
  BY <1>1, <1>2 DEF Nodes
<1>4. x \in -1..1 /\ y \in -1..1 /\ (x # 0 \/ y # 0) BY <1>2, <1>3
<1>5. /\ Neighbour(Directions[1]) = <<1, 0>> /\ Neighbour(Directions[2]) = <<-1, 0>>
      /\ Neighbour(Directions[3]) = <<0, 1>> /\ Neighbour(Directions[4]) = <<0, -1>>
  <2>1. /\ Directions[1] = [octet |-> 1, image |-> 1] /\ Directions[2] = [octet |-> 1, image |-> 2]
        /\ Directions[3] = [octet |-> 1, image |-> 5] /\ Directions[4] = [octet |-> 1, image |-> 6]
    BY DEF Directions, NEIGHBOURS
  <2>2. Primitives[1] = Row_1_0 BY DEF Primitives
  <2>3. Row_1_0.major = 1 /\ Row_1_0.minor = 0 BY DEF Row_1_0
  <2> QED BY <2>1, <2>2, <2>3 DEF Neighbour, Row, Reflect
<1>6. /\ Neighbour(Directions[5]) = <<1, 1>> /\ Neighbour(Directions[6]) = <<-1, -1>>
      /\ Neighbour(Directions[7]) = <<1, -1>> /\ Neighbour(Directions[8]) = <<-1, 1>>
  <2>1. /\ Directions[5] = [octet |-> 2, image |-> 1] /\ Directions[6] = [octet |-> 2, image |-> 2]
        /\ Directions[7] = [octet |-> 2, image |-> 3] /\ Directions[8] = [octet |-> 2, image |-> 4]
    BY DEF Directions, NEIGHBOURS
  <2>2. Primitives[2] = Row_1_1 BY DEF Primitives
  <2>3. Row_1_1.major = 1 /\ Row_1_1.minor = 1 BY DEF Row_1_1
  <2> QED BY <2>1, <2>2, <2>3 DEF Neighbour, Row, Reflect
<1>7. PICK dir \in 1..8 : Neighbour(Directions[dir]) = <<x, y>>
  <2> HIDE DEF x, y
  <2>1. /\ x \in {-1, 0, 1} /\ y \in {-1, 0, 1} BY <1>4
  <2> QED BY <2>1, <1>4, <1>5, <1>6
<1>8. dir \in Near
  <2>1. dir \in 1..NEIGHBOURS BY DEF NEIGHBOURS
  <2>2. x \in (1 - NX)..(NX - 1) /\ y \in (1 - NY)..(NY - 1)
    <3> HIDE DEF x, y
    <3> QED BY <1>1, <1>4
  <2> HIDE DEF x, y
  <2> QED BY <2>1, <2>2, <1>7 DEF Near
<1>9. Segments[dir].to = <<x, y>> BY <1>7, <1>8 DEF Segments
<1>10. Shift(n, <<x, y>>) = m BY <1>3 DEF Shift
<1> QED BY <1>8, <1>9, <1>10

\* One round of Spread.
Grown(C) == UNION {{n} \cup {m \in Adjacent[n] : slowness[m] > 0} : n \in C}

\* A round adds the water that the nodes touch.
LEMMA GrownIs ==
  ASSUME NEW C \in SUBSET Nodes
  PROVE  /\ Grown(C) \in SUBSET Nodes /\ C \subseteq Grown(C)
         /\ \A m : m \in Grown(C) <=>
               m \in C \/ \E n \in C : m \in Adjacent[n] /\ slowness[m] > 0
<1>1. \A n \in C : Adjacent[n] \subseteq Nodes BY DEF Adjacent
<1> QED BY <1>1 DEF Grown

\* Spread's rounds.
LEMMA SpreadRounds ==
  ASSUME NEW S \in SUBSET Nodes
  PROVE  \E f \in [0..(NX * NY) -> SUBSET Nodes] :
            /\ f[0] = S /\ Spread(S) = f[NX * NY]
            /\ \A j \in 1..(NX * NY) : f[j] = Grown(f[j - 1])
<1> DEFINE N == NX * NY
           P == SUBSET Nodes
           F == [x \in P \X (1..N) |-> Grown(x[1])]
           Is(g) == g = [i \in 0..N |-> IF i = 0 THEN S ELSE Grown(g[i - 1])]
           after == CHOOSE g : Is(g)
<1>1. N \in Nat BY PlacesOnce
<1>2. F \in Bodies(N, P) BY GrownIs DEF Bodies
<1>3. Spread(S) = after[N] BY DEF Spread, Grown
<1>4. \E g \in [0..N -> P] : Is(g)
  <2>1. \A C \in P, j \in 1..N : F[<<C, j>>] = Grown(C) OBVIOUS
  <2> HIDE DEF F, Is, N, P
  <2>2. HasRun(N, P, S, F) BY <1>1, <1>2, LoopHasRun DEF P
  <2>3. PICK g \in [0..N -> P] : g[0] = S /\ \A j \in 1..N : g[j] = F[<<g[j - 1], j>>]
    BY <2>2 DEF HasRun
  <2>4. ASSUME NEW i \in 0..N PROVE g[i] = IF i = 0 THEN S ELSE Grown(g[i - 1])
    <3>1. CASE i = 0 BY <3>1, <2>3
    <3>2. CASE i # 0
      <4>1. i \in 1..N /\ i - 1 \in 0..N BY <3>2, <1>1
      <4> QED BY <4>1, <3>2, <2>1, <2>3
    <3> QED BY <3>1, <3>2
  <2>5. Is(g) BY <2>3, <2>4 DEF Is
  <2> QED BY <2>5
<1>5. Is(after) BY <1>4
<1> HIDE DEF after
<1>6. \A i \in 0..N : after[i] = IF i = 0 THEN S ELSE Grown(after[i - 1]) BY <1>5
<1>7. after = [i \in 0..N |-> after[i]]
  <2>1. after = [i \in 0..N |-> IF i = 0 THEN S ELSE Grown(after[i - 1])] BY <1>5
  <2> QED BY <2>1, <1>6
<1> HIDE DEF Is, N
<1>8. after[0] = S BY <1>1, <1>6
<1>9. ASSUME NEW j \in 1..N PROVE after[j] = Grown(after[j - 1])
  <2>1. j \in 0..N /\ j # 0 BY <1>1
  <2> QED BY <2>1, <1>6
<1> DEFINE T == {i \in 0..N : after[i] \in P}
<1>10. 0 \in T BY <1>1, <1>8
<1>11. ASSUME NEW j \in 1..N, j - 1 \in T PROVE j \in T
  <2>1. j \in 0..N /\ after[j - 1] \in P BY <1>1, <1>11
  <2>2. Grown(after[j - 1]) \in P BY <2>1, GrownIs
  <2> QED BY <2>1, <2>2, <1>9
<1> HIDE DEF T
<1>12. \A i \in 0..N : i \in T BY <1>1, <1>10, <1>11, Turns
<1>13. after \in [0..N -> P] BY <1>7, <1>12 DEF T
<1> QED BY <1>3, <1>8, <1>9, <1>13 DEF N

\* Spread keeps within every closed set around where it starts.
LEMMA SpreadWithin ==
  ASSUME NEW C \in SUBSET Nodes, Closed(C), NEW S \in SUBSET C
  PROVE  Spread(S) \subseteq C
<1> DEFINE N == NX * NY
<1>1. N \in Nat BY PlacesOnce
<1>2. PICK f \in [0..N -> SUBSET Nodes] : /\ f[0] = S /\ Spread(S) = f[N]
                                          /\ \A j \in 1..N : f[j] = Grown(f[j - 1])
  BY SpreadRounds
<1> HIDE DEF N
<1> DEFINE T == {j \in 0..N : f[j] \subseteq C}
<1>3. 0 \in T BY <1>1, <1>2
<1>4. ASSUME NEW j \in 1..N, j - 1 \in T PROVE j \in T
  <2>1. j \in 0..N /\ j - 1 \in 0..N /\ f[j - 1] \subseteq C BY <1>1, <1>4
  <2>2. f[j - 1] \in SUBSET Nodes BY <2>1
  <2>3. Grown(f[j - 1]) \subseteq C BY <2>1, <2>2, GrownIs DEF Closed
  <2> QED BY <2>1, <2>3, <1>2
<1> HIDE DEF T
<1>5. \A j \in 0..N : j \in T BY <1>1, <1>3, <1>4, Turns
<1>6. N \in T BY <1>1, <1>5
<1> QED BY <1>2, <1>6 DEF T

\* The grid has NX * NY nodes.
LEMMA NodesCounted == IsFiniteSet(Nodes) /\ Cardinality(Nodes) = NX * NY
<1>1. NX \in Nat /\ NY \in Nat /\ NX >= 2 /\ NY >= 2 BY GridAssumption
<1>2. IsFiniteSet(0..NY-1) /\ Cardinality(0..NY-1) = NY BY <1>1, FS_Interval
<1>3. IsFiniteSet(0..NX-1) /\ Cardinality(0..NX-1) = NX BY <1>1, FS_Interval
<1>4. Nodes = (0..NY-1) \X (0..NX-1) BY DEF Nodes
<1>5. NY * NX = NX * NY BY <1>1
<1> QED BY <1>2, <1>3, <1>4, <1>5, FS_Product

\* After as many rounds as there are nodes, no round adds one: until then each
\* adds at least one.
LEMMA SpreadCloses ==
  ASSUME NEW S \in SUBSET Nodes
  PROVE  Spread(S) \in SUBSET Nodes /\ S \subseteq Spread(S) /\ Closed(Spread(S))
<1> DEFINE N == NX * NY
<1>1. N \in Nat BY PlacesOnce
<1>2. PICK f \in [0..N -> SUBSET Nodes] : /\ f[0] = S /\ Spread(S) = f[N]
                                          /\ \A j \in 1..N : f[j] = Grown(f[j - 1])
  BY SpreadRounds
<1>3. IsFiniteSet(Nodes) /\ Cardinality(Nodes) = N BY NodesCounted
<1> HIDE DEF N
<1>4. \A C \in SUBSET Nodes : IsFiniteSet(C) /\ Cardinality(C) \in Nat /\ Cardinality(C) <= N
  BY <1>3, FS_Subset, FS_CardinalityType
<1> DEFINE T == {j \in 0..N : S \subseteq f[j] /\ (Closed(f[j]) \/ Cardinality(f[j]) >= j)}
<1>5. 0 \in T
  <2>1. 0 \in 0..N /\ f[0] \in SUBSET Nodes BY <1>1
  <2>2. Cardinality(f[0]) >= 0 BY <2>1, <1>4
  <2> QED BY <2>1, <2>2, <1>2
<1>6. ASSUME NEW j \in 1..N, j - 1 \in T PROVE j \in T
  <2> DEFINE C == f[j - 1]
             D == f[j]
  <2>1. j \in 0..N /\ j - 1 \in 0..N BY <1>1
  <2>2. S \subseteq C /\ (Closed(C) \/ Cardinality(C) >= j - 1) BY <1>6
  <2>3. C \in SUBSET Nodes /\ D \in SUBSET Nodes /\ D = Grown(C) BY <2>1, <1>2
  <2> HIDE DEF C, D
  <2>4. C \subseteq D BY <2>3, GrownIs
  <2>5. CASE Closed(C)
    <3>1. ASSUME NEW m \in D PROVE m \in C BY <2>3, <2>5, GrownIs DEF Closed
    <3>2. D = C BY <3>1, <2>4
    <3> QED BY <3>2, <2>1, <2>2, <2>5 DEF D
  <2>6. CASE ~Closed(C)
    <3>1. PICK n \in C : \E m \in Adjacent[n] : slowness[m] > 0 /\ m \notin C
      BY <2>6 DEF Closed
    <3>2. PICK m \in Adjacent[n] : slowness[m] > 0 /\ m \notin C BY <3>1
    <3>3. m \in D BY <3>2, <2>3, GrownIs
    <3>4. IsFiniteSet(C) /\ Cardinality(C) \in Nat /\ IsFiniteSet(D) /\ Cardinality(D) \in Nat
      BY <2>3, <1>4
    <3>5. Cardinality(C \cup {m}) = Cardinality(C) + 1 BY <3>2, <3>4, FS_AddElement
    <3>6. C \cup {m} \in SUBSET D BY <3>3, <2>4
    <3>7. Cardinality(C \cup {m}) <= Cardinality(D) BY <3>4, <3>6, FS_Subset
    <3>8. Cardinality(C) >= j - 1 BY <2>2, <2>6
    <3>9. Cardinality(D) >= j BY <3>4, <3>5, <3>7, <3>8
    <3> QED BY <3>9, <2>1, <2>2, <2>4 DEF D
  <2> QED BY <2>5, <2>6
<1> HIDE DEF T
<1>7. \A j \in 0..N : j \in T BY <1>1, <1>5, <1>6, Turns
<1>8. N \in T /\ f[N] \in SUBSET Nodes BY <1>1, <1>7
<1>9. S \subseteq f[N] /\ (Closed(f[N]) \/ Cardinality(f[N]) >= N) BY <1>8 DEF T
<1>10. CASE Cardinality(f[N]) >= N
  <2>1. Cardinality(f[N]) = Cardinality(Nodes) BY <1>1, <1>3, <1>4, <1>8, <1>10
  <2>2. f[N] = Nodes BY <2>1, <1>3, <1>8, FS_Subset
  <2>3. Closed(Nodes) BY DEF Closed, Adjacent
  <2> QED BY <2>2, <2>3, <1>2, <1>9
<1> QED BY <1>2, <1>8, <1>9, <1>10
-----------------------------------------------------------------------------
(* The travel-time solver: the seeds of the default mode *)

\* Squares and their roots.
LEMMA SquareLess ==
  ASSUME NEW a \in Nat, NEW b \in Nat, a * a < b * b
  PROVE  a < b
<1>1. ASSUME a >= b PROVE FALSE
  <2>1. a * a >= b * b BY <1>1
  <2> QED BY <2>1
<1> QED BY <1>1

\* The distance in metres is the whole root of a sixteenth of this sum of squares.
LEMMA SeedSquare ==
  ASSUME InputsOK, NEW n \in Nodes,
         NEW row, row = Clip(locate_source(request)[1], 0, NY - 1),
         NEW dx \in Int, dx = X(request) - 4 * n[2],
         NEW dy \in Int, dy = Y(request) - 4 * (NY - 1 - n[1]),
         NEW ht, ht = CellHeight, NEW m, m = SeedMetres(n),
         NEW u, u = CellWidth[row], NEW w, w = CellWidth[n[1]]
  PROVE  /\ row \in 0..NY-1 /\ n[1] \in 0..NY-1
         /\ u \in Nat \ {0} /\ w \in Nat \ {0} /\ ht \in Nat \ {0} /\ m \in Nat
         /\ 16 * (m * m) <= (dx * dx) * (u * w) + (dy * dy) * (ht * ht)
         /\ (dx * dx) * (u * w) + (dy * dy) * (ht * ht) < 16 * ((m + 1) * (m + 1))
<1> DEFINE v == dx * dx * u * w + dy * dy * ht * ht
<1>1. NX \in Nat /\ NY \in Nat /\ NX >= 2 /\ NY >= 2 /\ ht \in Nat \ {0}
  BY GridAssumption
<1>2. n[1] \in 0..NY-1 BY DEF Nodes
<1>3. row \in 0..NY-1
  <2>1. 4 \in Nat /\ 4 > 0 OBVIOUS
  <2>2. Round(Y(request), 4) \in Int BY <2>1, PositionTyped, Rounded
  <2>3. locate_source(request)[1] = NY - 1 - Round(Y(request), 4) BY DEF locate_source
  <2>4. locate_source(request)[1] \in Int BY <2>2, <2>3, <1>1
  <2>5. NY - 1 \in Int /\ 0 <= NY - 1 /\ 0 \in Int BY <1>1
  <2> QED BY <2>4, <2>5, Clipped
<1>4. u \in Nat \ {0} /\ w \in Nat \ {0} BY <1>2, <1>3, GridAssumption
<1>5. m = Root(v \div 16) BY DEF SeedMetres
<1> DEFINE A == dx * dx
           B == dy * dy
           z == A * (u * w) + B * (ht * ht)
<1>6. A \in Nat /\ B \in Nat OBVIOUS
<1>7. v = z /\ z \in Nat
  <2>1. \A a, b, c \in Nat : a * b * c = a * (b * c) /\ a * (b * c) \in Nat OBVIOUS
  <2>2. v = A * u * w + B * ht * ht OBVIOUS
  <2> HIDE DEF v, A, B
  <2>3. A * u * w = A * (u * w) /\ A * (u * w) \in Nat BY <2>1, <1>4, <1>6
  <2>4. B * ht * ht = B * (ht * ht) /\ B * (ht * ht) \in Nat BY <2>1, <1>1, <1>6
  <2> QED BY <2>2, <2>3, <2>4
<1> HIDE DEF v, z
<1>8. v \div 16 \in Nat /\ 16 * (v \div 16) <= v /\ v < 16 * (v \div 16) + 16 BY <1>7
<1>9. m \in Nat /\ m * m <= v \div 16 /\ v \div 16 < (m + 1) * (m + 1) BY <1>5, <1>8, RootNear
<1> DEFINE L == m * m
           M == (m + 1) * (m + 1)
<1>10. L \in Nat /\ M \in Nat /\ L <= v \div 16 /\ v \div 16 < M BY <1>9
<1>11. 16 * L <= z /\ z < 16 * M
  <2> HIDE DEF L, M
  <2> QED BY <1>7, <1>8, <1>10
<1> QED BY <1>1, <1>2, <1>3, <1>4, <1>9, <1>11 DEF z, L, M

\* What the two distances of a node say of its distance in metres, where cells
\* are more than half as wide as high.
LEMMA SeedDistance ==
  ASSUME InputsOK, NEW n \in Nodes, SamplesTouch,
         NEW dx \in Int, dx = X(request) - 4 * n[2],
         NEW dy \in Int, dy = Y(request) - 4 * (NY - 1 - n[1]),
         NEW ht, ht = CellHeight, NEW m, m = SeedMetres(n)
  PROVE  /\ m \in Nat /\ ht \in Nat \ {0}
         /\ \A a \in Nat : a >= 8 /\ a * a \in {dx * dx, dy * dy} => 8 * m > a * ht
<1> DEFINE row == Clip(locate_source(request)[1], 0, NY - 1)
           u == CellWidth[row]
           w == CellWidth[n[1]]
           A == dx * dx
           B == dy * dy
           M == (m + 1) * (m + 1)
<1>1. /\ row \in 0..NY-1 /\ n[1] \in 0..NY-1
      /\ u \in Nat \ {0} /\ w \in Nat \ {0} /\ ht \in Nat \ {0} /\ m \in Nat
      /\ A * (u * w) + B * (ht * ht) < 16 * M
  BY SeedSquare
<1>2. ht + 1 <= 2 * u /\ ht + 1 <= 2 * w
  <2>1. ht < 2 * u /\ ht < 2 * w BY <1>1 DEF SamplesTouch
  <2> HIDE DEF u, w
  <2> QED BY <2>1, <1>1
<1> HIDE DEF row, u, w
<1>3. A \in Nat /\ B \in Nat /\ M \in Nat BY <1>1
<1> HIDE DEF A, B, M
<1>4. A * (u * w) < 16 * M /\ B * (ht * ht) < 16 * M
  <2> DEFINE p == A * (u * w)
             q == B * (ht * ht)
  <2>1. p \in Nat /\ q \in Nat
    <3>1. \A a, b, c \in Nat : a * (b * c) \in Nat OBVIOUS
    <3> QED BY <3>1, <1>1, <1>3
  <2>2. p + q < 16 * M BY <1>1
  <2> HIDE DEF p, q
  <2>3. p < 16 * M /\ q < 16 * M BY <2>1, <2>2, <1>3
  <2> QED BY <2>3 DEF p, q
<1>11. 4 * (u * w) >= (ht + 1) * (ht + 1)
  <2>1. (2 * u) * (2 * w) >= (ht + 1) * (ht + 1) BY <1>1, <1>2
  <2>2. (2 * u) * (2 * w) = 4 * (u * w) BY <1>1
  <2> QED BY <2>1, <2>2
<1>12. ASSUME NEW a \in Nat, a >= 8, a * a = A PROVE 8 * m > a * ht
  <2>1. 4 * (A * (u * w)) >= A * ((ht + 1) * (ht + 1))
    <3> DEFINE p == u * w
               q == (ht + 1) * (ht + 1)
    <3>1. p \in Nat /\ q \in Nat /\ 4 * p >= q BY <1>1, <1>11
    <3> HIDE DEF p, q
    <3>2. A * (4 * p) >= A * q BY <3>1, <1>3
    <3>3. A * (4 * p) = 4 * (A * p) BY <3>1, <1>3
    <3> QED BY <3>2, <3>3 DEF p, q
  <2>3. A * ((ht + 1) * (ht + 1)) < 64 * M
    <3> DEFINE p == A * (u * w)
               q == A * ((ht + 1) * (ht + 1))
    <3>1. p \in Int /\ 4 * p >= q /\ p < 16 * M BY <1>1, <1>3, <1>4, <2>1
    <3>2. q \in Int BY <1>1, <1>3
    <3> HIDE DEF p, q
    <3>3. q < 64 * M BY <3>1, <3>2, <1>3
    <3> QED BY <3>3 DEF q
  <2>4. (a * (ht + 1)) * (a * (ht + 1)) < (8 * (m + 1)) * (8 * (m + 1))
    <3>1. (a * (ht + 1)) * (a * (ht + 1)) = (a * a) * ((ht + 1) * (ht + 1)) BY <1>1
    <3>2. (8 * (m + 1)) * (8 * (m + 1)) = 64 * M BY <1>1 DEF M
    <3> QED BY <3>1, <3>2, <2>3, <1>12
  <2>5. a * (ht + 1) < 8 * (m + 1)
    <3>1. a * (ht + 1) \in Nat /\ 8 * (m + 1) \in Nat BY <1>1
    <3> QED BY <3>1, <2>4, SquareLess
  <2>6. a * (ht + 1) = a * ht + a /\ a * ht \in Nat BY <1>1
  <2> QED BY <2>5, <2>6, <1>1, <1>12
<1>13. ASSUME NEW a \in Nat, a >= 8, a * a = B PROVE 8 * m > a * ht
  <2>2. (a * ht) * (a * ht) < (4 * (m + 1)) * (4 * (m + 1))
    <3>1. (a * ht) * (a * ht) = (a * a) * (ht * ht) BY <1>1
    <3>2. (4 * (m + 1)) * (4 * (m + 1)) = 16 * M BY <1>1 DEF M
    <3> QED BY <3>1, <3>2, <1>4, <1>13
  <2>3. a * ht < 4 * (m + 1)
    <3>1. a * ht \in Nat /\ 4 * (m + 1) \in Nat BY <1>1
    <3> QED BY <3>1, <2>2, SquareLess
  <2>4. a * ht \in Nat /\ a * ht >= 8 BY <1>1, <1>13
  <2> QED BY <2>3, <2>4, <1>1
<1> QED BY <1>1, <1>12, <1>13 DEF A, B

\* Samples are less than a cell apart.
LEMMA SamplesApart ==
  ASSUME InputsOK, SamplesTouch, NEW n \in Nodes
  PROVE  /\ 4 * n[2] - X(request) \in (1 - 4 * Samples(n))..(4 * Samples(n) - 1)
         /\ 4 * (NY - 1 - n[1]) - Y(request) \in (1 - 4 * Samples(n))..(4 * Samples(n) - 1)
<1> DEFINE dx == X(request) - 4 * n[2]
           dy == Y(request) - 4 * (NY - 1 - n[1])
           ht == CellHeight
           m == SeedMetres(n)
           s == Samples(n)
           t == CeilDiv(2 * m, ht)
<1>1. X(request) \in Int /\ Y(request) \in Int /\ n[1] \in Int /\ n[2] \in Int /\ NY \in Int
  BY PositionTyped, GridAssumption DEF Nodes
<1>2. dx \in Int /\ dy \in Int BY <1>1
<1>3. \A a \in Nat : a >= 8 /\ a * a \in {dx * dx, dy * dy} => 8 * m > a * ht
  BY <1>2, SeedDistance
<1>4. m \in Nat /\ ht \in Nat /\ ht > 0 BY <1>2, SeedDistance
<1>5. s = IF t < 2 THEN 2 ELSE t BY DEF Samples
<1> HIDE DEF s, ht, m
<1>6. \A a, b \in Int : a >= b => a * ht >= b * ht BY <1>4
<1>7. t \in Int /\ t * ht >= 2 * m
  <2> DEFINE c == -(2 * m)
             q == c \div ht
  <2>1. t = -q BY DEF CeilDiv
  <2>2. c \in Int /\ 2 * m = -c BY <1>4
  <2> HIDE DEF c
  <2>3. q \in Int /\ ht * q <= c
    <3>1. q \in Int /\ (c % ht) \in 0..(ht - 1) /\ c = ht * q + (c % ht)
      BY <2>2, <1>4, Division
    <3> HIDE DEF q
    <3>2. ht * q \in Int /\ c % ht >= 0 /\ c % ht \in Int BY <3>1, <1>4
    <3> QED BY <3>1, <3>2
  <2> HIDE DEF q, t
  <2>4. t * ht = -(ht * q) /\ ht * q \in Int BY <2>1, <2>3, <1>4
  <2> QED BY <2>1, <2>2, <2>3, <2>4
<1> HIDE DEF t
<1>8. s \in Nat /\ s >= 2 /\ s * ht >= 2 * m
  <2>1. s \in Nat /\ s >= 2 /\ s >= t BY <1>5, <1>7
  <2>2. s * ht >= t * ht /\ s * ht \in Int /\ t * ht \in Int BY <2>1, <1>4, <1>6, <1>7
  <2> QED BY <2>1, <2>2, <1>4, <1>7
<1>9. ASSUME NEW a \in Nat, a * a \in {dx * dx, dy * dy} PROVE a < 4 * s
  <2>1. CASE a < 8 BY <2>1, <1>8
  <2>2. CASE a >= 8
    <3>1. 8 * m > a * ht BY <2>2, <1>3, <1>9
    <3>2. s * ht \in Int /\ a * ht \in Int /\ 4 * (s * ht) = (4 * s) * ht BY <1>4, <1>8
    <3>3. (4 * s) * ht > a * ht BY <3>1, <3>2, <1>4, <1>8
    <3>4. ASSUME a >= 4 * s PROVE FALSE
      <4>1. a * ht >= (4 * s) * ht BY <3>4, <1>6, <1>8
      <4> QED BY <4>1, <3>2, <3>3
    <3> QED BY <3>4, <1>8
  <2> QED BY <2>1, <2>2
<1> HIDE DEF dx, dy
<1>10. dx < 4 * s /\ -dx < 4 * s
  <2>1. CASE dx >= 0 BY <2>1, <1>2, <1>8, <1>9
  <2>2. CASE dx < 0
    <3>1. -dx \in Nat /\ (-dx) * (-dx) = dx * dx BY <2>2, <1>2
    <3>2. -dx < 4 * s BY <3>1, <1>9
    <3> QED BY <3>1, <3>2, <1>2, <1>8
  <2> QED BY <2>1, <2>2, <1>2
<1>11. dy < 4 * s /\ -dy < 4 * s
  <2>1. CASE dy >= 0 BY <2>1, <1>2, <1>8, <1>9
  <2>2. CASE dy < 0
    <3>1. -dy \in Nat /\ (-dy) * (-dy) = dy * dy BY <2>2, <1>2
    <3>2. -dy < 4 * s BY <3>1, <1>9
    <3> QED BY <3>1, <3>2, <1>2, <1>8
  <2> QED BY <2>1, <2>2, <1>2
<1>12. 4 * n[2] - X(request) = -dx /\ 4 * (NY - 1 - n[1]) - Y(request) = -dy BY <1>1 DEF dx, dy
<1>13. -dx \in (1 - 4 * s)..(4 * s - 1) /\ -dy \in (1 - 4 * s)..(4 * s - 1)
  BY <1>2, <1>8, <1>10, <1>11
<1> QED BY <1>12, <1>13 DEF s

\* The source is within half a cell of the epicenter, both ways.
LEMMA SourceNear ==
  ASSUME InputsOK, NEW src \in Nodes, src = locate_source(request)
  PROVE  /\ X(request) - 4 * src[2] \in -2..2
         /\ Y(request) - 4 * (NY - 1 - src[1]) \in -2..2
<1> DEFINE x == X(request)
           y == Y(request)
           dx == x - 4 * src[2]
           dy == y - 4 * (NY - 1 - src[1])
<1>1. NY \in Nat /\ src[1] \in Int /\ src[2] \in Int BY GridAssumption DEF Nodes
<1>2. x \in Int /\ y \in Int BY PositionTyped
<1>3. dx \in Int /\ dy \in Int BY <1>1, <1>2
<1>4. src[1] = NY - 1 - Round(y, 4) /\ src[2] = Round(x, 4) BY DEF locate_source
<1>5. 4 \in Nat /\ 4 > 0 OBVIOUS
<1>6. /\ 2 * (x - 4 * Round(x, 4)) <= 4 /\ 2 * (x - 4 * Round(x, 4)) >= -4
      /\ 2 * (y - 4 * Round(y, 4)) <= 4 /\ 2 * (y - 4 * Round(y, 4)) >= -4
      /\ Round(x, 4) \in Int /\ Round(y, 4) \in Int
  BY <1>2, <1>5, RoundNear
<1>7. dx = x - 4 * Round(x, 4) /\ NY - 1 - src[1] = Round(y, 4) BY <1>1, <1>4, <1>6
<1>8. dy = y - 4 * Round(y, 4) BY <1>7
<1> HIDE DEF dx, dy, x, y
<1>9. dx \in -2..2 /\ dy \in -2..2 BY <1>3, <1>6, <1>7, <1>8
<1> QED BY <1>9 DEF dx, dy, x, y

\* The samples on the way from the epicenter to the source are nearest to the
\* source.
LEMMA SourceSamples ==
  ASSUME InputsOK, NEW src \in Nodes, src = locate_source(request),
         NEW steps \in Nat, steps > 0, NEW j \in 0..steps
  PROVE  Sample(src, steps, j) = src
<1> DEFINE D == 4 * steps
           x == X(request)
           y == Y(request)
           c == src[2]
           d == NY - 1 - src[1]
           px == x * steps + j * (4 * c - x)
           py == y * steps + j * (4 * d - y)
<1>1. CASE j = 0 BY <1>1, SampleEnds
<1>2. CASE j # 0
  <2>1. NX \in Nat /\ NY \in Nat /\ NX >= 2 /\ NY >= 2 /\ NY - 1 \in Nat /\ NX - 1 \in Nat
    BY GridAssumption
  <2>2. src = <<src[1], src[2]>> /\ src[1] \in 0..NY-1 /\ src[2] \in 0..NX-1 BY DEF Nodes
  <2>3. x \in Int /\ y \in Int BY PositionTyped
  <2>4. c \in 0..NX-1 /\ c \in Int /\ d \in 0..NY-1 /\ d \in Int /\ NY - 1 - d = src[1]
    BY <2>1, <2>2
  <2>6. x - 4 * c \in -2..2 /\ y - 4 * d \in -2..2 BY SourceNear
  <2>7. Sample(src, steps, j) = <<NY - 1 - Clip(Round(py, D), 0, NY - 1),
                                  Clip(Round(px, D), 0, NX - 1)>>
    BY DEF Sample
  <2>8. steps - j \in 0..(steps - 1) BY <1>2
  <2>9. ASSUME NEW p \in Int, NEW q \in Int, p - 4 * q \in -2..2
        PROVE  Round(p * steps + j * (4 * q - p), D) = q
    <3> DEFINE e == p - 4 * q
               v == p * steps + j * (4 * q - p)
    <3>1. v \in Int /\ D \in Nat /\ D > 0 OBVIOUS
    <3>2. v - D * q = (steps - j) * e OBVIOUS
    <3>3. e \in {-2, -1, 0, 1, 2} BY <2>9
    <3>4. 2 * ((steps - j) * e) < D /\ 2 * ((steps - j) * e) > -D
      <4> HIDE DEF e
      <4> QED BY <3>3, <2>8
    <3> HIDE DEF v, D
    <3>5. 2 * (v - D * q) < D /\ 2 * (v - D * q) > -D BY <3>2, <3>4
    <3>6. Round(v, D) = q BY <3>1, <3>5, RoundWhole
    <3> QED BY <3>6 DEF v
  <2> HIDE DEF x, y, c, d, D
  <2>10. Round(px, D) = c /\ Round(py, D) = d BY <2>3, <2>4, <2>6, <2>9
  <2>11. Clip(c, 0, NX - 1) = c /\ Clip(d, 0, NY - 1) = d BY <2>1, <2>4, ClipStep
  <2>12. Sample(src, steps, j) = <<NY - 1 - d, c>> BY <2>7, <2>10, <2>11
  <2> QED BY <2>2, <2>4, <2>12 DEF c
<1> QED BY <1>1, <1>2

\* The radius of the seeds reaches the source.
LEMMA SourceDistance ==
  ASSUME InputsOK, RadiusCovers, NEW src \in Nodes, src = locate_source(request)
  PROVE  SeedMetres(src) <= SeedCells * CellHeight
<1> DEFINE row == Clip(locate_source(request)[1], 0, NY - 1)
           dx == X(request) - 4 * src[2]
           dy == Y(request) - 4 * (NY - 1 - src[1])
           ht == CellHeight
           m == SeedMetres(src)
           u == CellWidth[row]
           w == CellWidth[src[1]]
           R == SeedCells * CellHeight
           A == dx * dx
           B == dy * dy
<1>1. dx \in -2..2 /\ dy \in -2..2 /\ dx \in Int /\ dy \in Int BY SourceNear
<1>2. /\ row \in 0..NY-1 /\ src[1] \in 0..NY-1
      /\ u \in Nat \ {0} /\ w \in Nat \ {0} /\ ht \in Nat \ {0} /\ m \in Nat
      /\ 16 * (m * m) <= A * (u * w) + B * (ht * ht)
  <2> HIDE DEF dx, dy
  <2>1. dx = X(request) - 4 * src[2] /\ dy = Y(request) - 4 * (NY - 1 - src[1]) BY DEF dx, dy
  <2> QED BY <2>1, <1>1, SeedSquare
<1>3. R \in Nat /\ ht <= R
  <2> DEFINE r == SeedCells
  <2>1. r \in Nat /\ r >= 1 BY GridAssumption DEF RadiusCovers
  <2> HIDE DEF r, ht
  <2>2. r * ht \in Nat /\ r * ht >= ht BY <2>1, <1>2
  <2> QED BY <2>2 DEF r, ht
<1>4. u <= R /\ w <= R BY <1>2 DEF RadiusCovers
<1>5. A \in 0..4 /\ B \in 0..4
  <2> HIDE DEF dx, dy
  <2>1. dx \in {-2, -1, 0, 1, 2} /\ dy \in {-2, -1, 0, 1, 2} BY <1>1
  <2> QED BY <2>1
<1> HIDE DEF row, ht, m, u, w, R, A, B
<1>6. u * w <= R * R /\ ht * ht <= R * R /\ u * w \in Nat /\ ht * ht \in Nat /\ R * R \in Nat
  BY <1>2, <1>3, <1>4
<1>7. A * (u * w) + B * (ht * ht) <= 8 * (R * R)
  <2> DEFINE p == u * w
             q == ht * ht
             H == R * R
  <2>1. p \in Nat /\ q \in Nat /\ H \in Nat /\ p <= H /\ q <= H BY <1>6
  <2> HIDE DEF p, q, H
  <2>2. A * p <= 4 * p /\ B * q <= 4 * q /\ A * p \in Int /\ B * q \in Int BY <2>1, <1>5
  <2>3. A * p + B * q <= 8 * H BY <2>1, <2>2
  <2> QED BY <2>3 DEF p, q, H
<1>8. m * m <= R * R
  <2> DEFINE p == m * m
             H == R * R
             z == A * (u * w) + B * (ht * ht)
  <2>1. p \in Nat /\ H \in Nat /\ z \in Int BY <1>2, <1>5, <1>6
  <2>2. 16 * p <= z /\ z <= 8 * H BY <1>2, <1>7
  <2> HIDE DEF p, H, z
  <2>3. p <= H BY <2>1, <2>2
  <2> QED BY <2>3 DEF p, H
<1>9. ASSUME m > R PROVE FALSE
  <2>1. R * R < m * m
    <3>1. m * m >= (R + 1) * (R + 1) BY <1>2, <1>3, <1>9
    <3>2. (R + 1) * (R + 1) > R * R BY <1>3
    <3>3. m * m \in Int /\ R * R \in Int /\ (R + 1) * (R + 1) \in Int BY <1>2, <1>3
    <3> QED BY <3>1, <3>2, <3>3
  <2>2. m * m \in Int /\ R * R \in Int BY <1>2, <1>3
  <2> QED BY <2>1, <2>2, <1>8
<1>10. m <= R BY <1>2, <1>3, <1>9
<1> QED BY <1>10 DEF m, R

\* The window of the seeds holds the source.
LEMMA SourceInWindow ==
  ASSUME InputsOK, RadiusCovers, NEW src \in Nodes, src = locate_source(request)
  PROVE  InSeedWindow(src)
<1> DEFINE row == Clip(locate_source(request)[1], 0, NY - 1)
           dx == X(request) - 4 * src[2]
           dy == Y(request) - 4 * (NY - 1 - src[1])
           u == CellWidth[row]
           r == SeedCells
           tall == CellHeight
<1>1. dx \in -2..2 /\ dy \in -2..2 BY SourceNear
<1>2. row \in 0..NY-1 /\ u \in Nat /\ u <= r * tall
  <2>1. row = src[1] /\ src[1] \in 0..NY-1
    <3>1. src[1] \in 0..NY-1 /\ src[1] = locate_source(request)[1] BY DEF Nodes
    <3>2. NY \in Nat BY GridAssumption
    <3> QED BY <3>1, <3>2 DEF Clip
  <2> QED BY <2>1, GridAssumption DEF RadiusCovers
<1>3. r \in Nat /\ r >= 1 /\ tall \in Nat BY GridAssumption DEF RadiusCovers
<1> HIDE DEF row, dx, dy, u, r, tall
<1>4. -(4 * r) <= dy /\ dy <= 4 * r BY <1>1, <1>3
<1>5. -((4 * r) * tall) <= dx * u /\ dx * u <= (4 * r) * tall
  <2> DEFINE p == r * tall
  <2>1. p \in Nat /\ u <= p /\ (4 * r) * tall = 4 * p BY <1>2, <1>3
  <2>2. dx \in {-2, -1, 0, 1, 2} BY <1>1
  <2> HIDE DEF p
  <2>3. -(4 * p) <= dx * u /\ dx * u <= 4 * p BY <2>1, <2>2, <1>2
  <2> QED BY <2>1, <2>3
<1> QED BY <1>4, <1>5 DEF InSeedWindow, row, dx, dy, u, r, tall

\* The default mode seeds the source.
LEMMA SourceSeeds ==
  ASSUME InputsOK, RadiusCovers, NEW src \in Nodes, src = locate_source(request),
         slowness[src] > 0
  PROVE  src \in DOMAIN SeedsAround
<1> DEFINE s == Samples(src)
<1>1. SeedMetres(src) <= SeedCells * CellHeight BY SourceDistance
<1>2. s \in Nat /\ s > 0 BY SeedTyped
<1>3. MeanSlowness(src, s) > 0
  <2>1. \A j \in 0..s : Sample(src, s, j) = src BY <1>2, SourceSamples
  <2> QED BY <2>1, <1>2, MeanSamples
<1>4. InSeedWindow(src) BY SourceInWindow
<1> QED BY <1>1, <1>3, <1>4 DEF SeedsAround

\* A seed of the default mode is in the water that its epicenter's node touches:
\* the samples lead there, none of them nearest to land.
LEMMA SeedsConnect ==
  ASSUME InputsOK, SamplesTouch, locate_source(request) \in Nodes,
         NEW C \in SUBSET Nodes, Closed(C), locate_source(request) \in C,
         NEW n \in DOMAIN SeedsAround
  PROVE  n \in C
<1> DEFINE s == Samples(n)
<1>1. n \in Nodes /\ MeanSlowness(n, s) > 0 BY DEF SeedsAround
<1>2. s \in Nat /\ s > 0 BY <1>1, SeedTyped
<1>3. \A j \in 0..s : slowness[Sample(n, s, j)] > 0 BY <1>1, <1>2, MeanSamples
<1>4. \A j \in 0..s : Sample(n, s, j) \in Nodes BY <1>1, <1>2, SampleTyped
<1>5. Sample(n, s, 0) = locate_source(request) /\ Sample(n, s, s) = n BY <1>1, <1>2, SampleEnds
<1>6. \A j \in 1..s : /\ Sample(n, s, j - 1)[1] - Sample(n, s, j)[1] \in -1..1
                      /\ Sample(n, s, j - 1)[2] - Sample(n, s, j)[2] \in -1..1
  BY <1>1, <1>2, SamplesApart, SampleStep
<1> HIDE DEF s
<1> DEFINE T == {j \in 0..s : Sample(n, s, j) \in C}
<1>7. 0 \in T BY <1>2, <1>5
<1>8. ASSUME NEW j \in 1..s, j - 1 \in T PROVE j \in T
  <2>1. j \in 0..s /\ Sample(n, s, j - 1) \in C BY <1>2, <1>8
  <2>2. Sample(n, s, j) \in C BY <2>1, <1>3, <1>4, <1>6, Touches
  <2> QED BY <2>1, <2>2
<1> HIDE DEF T
<1>9. \A j \in 0..s : j \in T BY <1>2, <1>7, <1>8, Turns
<1>10. s \in T BY <1>2, <1>9
<1> QED BY <1>5, <1>10 DEF T
-----------------------------------------------------------------------------
(* The travel-time solver: the water a run gives a time *)

\* Every closed set around the seeds holds all that is queued or settled.
ConnectedInv ==
  phase \in {"propagate", "done"} =>
    \A C \in SUBSET Nodes : DOMAIN seeds \subseteq C /\ Closed(C) =>
      \A n \in Nodes : n \in DOMAIN hours \/ key[n] > UNREACHED => n \in C

\* The source is a seed, and the other seeds are in the water it touches: in
\* "client" mode there is no other.
SourceInv ==
  phase \in {"propagate", "done"} /\ Located =>
    /\ source \in Nodes /\ Indexed(source) = source
    /\ request.mode \in {"client", "default"}
    /\ (request.mode = "default" => RadiusCovers) => source \in DOMAIN seeds
    /\ (request.mode = "default" => SamplesTouch) =>
         \A C \in SUBSET Nodes : source \in C /\ Closed(C) => DOMAIN seeds \subseteq C

\* Nothing is queued outside a closed set around the seeds and what is settled.
QueuedWithin ==
  \A C \in SUBSET Nodes : DOMAIN seeds \subseteq C /\ DOMAIN hours \subseteq C /\ Closed(C) =>
    \A n \in Nodes : key[n] > UNREACHED => n \in C

\* What is queued came from a seed, or from a settled node along a segment that
\* meets no land, and such a segment stays within a closed set.
LEMMA ArrivalsWithin == WaveInv => QueuedWithin
<1> SUFFICES ASSUME WaveInv, NEW C \in SUBSET Nodes, DOMAIN seeds \subseteq C, Closed(C),
                    DOMAIN hours \subseteq C, NEW n \in Nodes, key[n] > UNREACHED
             PROVE  n \in C
  BY DEF QueuedWithin
<1>1. ArrivesAt(n, key[n]) BY DEF WaveInv, ArrivalInv
<1>2. CASE n \in DOMAIN seeds BY <1>2
<1>3. CASE \E m \in DOMAIN hours, dir \in Near :
             Shift(m, Segments[dir].to) = n /\ FreeOfLand(m, Segments[dir])
  <2>1. PICK m \in DOMAIN hours, dir \in Near :
             Shift(m, Segments[dir].to) = n /\ FreeOfLand(m, Segments[dir])
    BY <1>3
  <2>2. m \in C OBVIOUS
  <2> QED BY <2>1, <2>2, SegmentStays
<1> QED BY <1>1, <1>2, <1>3 DEF ArrivesAt

\* A step adds nothing to what closed sets hold.
LEMMA StepConnects ==
  ASSUME WaveInv, QueuedWithin', [Next]_vars, ConnectedInv
  PROVE  ConnectedInv'
<1> SUFFICES ASSUME phase' \in {"propagate", "done"}, NEW C \in SUBSET Nodes,
                    DOMAIN seeds' \subseteq C, Closed(C)'
             PROVE  \A n \in Nodes : n \in DOMAIN hours' \/ key'[n] > UNREACHED => n \in C
  BY DEF ConnectedInv
<1>1. DOMAIN hours' \subseteq C
  <2>1. CASE Seed
    <3>1. hours' = hours /\ phase = "asked" BY <2>1 DEF Seed
    <3>2. DOMAIN hours = {} BY <3>1 DEF WaveInv, PhaseInv
    <3> QED BY <3>1, <3>2
  <2>2. CASE Settle
    <3>1. /\ phase = "propagate" /\ seeds' = seeds /\ slowness' = slowness /\ heap # <<>>
          /\ DOMAIN hours' = DOMAIN hours \cup {heap[1]}
      BY <2>2 DEF Settle, inputs
    <3>2. Closed(C) BY <3>1 DEF Closed
    <3>3. DOMAIN hours \subseteq Nodes BY DEF WaveInv, MarkInv
    <3>4. heap[1] \in Nodes /\ key[heap[1]] > UNREACHED
      <4>1. /\ State.key = key /\ State.heap = heap /\ State.pos = pos BY DEF State
      <4>2. Shape(State) /\ Marked(State) /\ heap \in Seq(Nodes)
        BY <4>1 DEF WaveInv, QueueInv, Good, QueueType
      <4>3. 1 \in 1..Len(heap) BY <3>1, <4>2
      <4>4. heap[1] \in Nodes BY <4>2, <4>3
      <4>5. pos[heap[1]] = 1 BY <4>1, <4>2, <4>3 DEF Shape
      <4>6. pos[heap[1]] > 0 BY <4>5
      <4> QED BY <4>1, <4>2, <4>4, <4>6 DEF Marked
    <3> QED BY <3>1, <3>2, <3>3, <3>4 DEF ConnectedInv
  <2>3. CASE ~Seed /\ ~Settle
    <3>1. /\ phase \in {"propagate", "done"} /\ seeds' = seeds /\ slowness' = slowness
          /\ hours' = hours
      BY <2>3 DEF Next, Reject, Finish, Returned, vars, inputs
    <3>2. Closed(C) BY <3>1 DEF Closed
    <3>3. DOMAIN hours \subseteq Nodes BY DEF WaveInv, MarkInv
    <3> QED BY <3>1, <3>2, <3>3 DEF ConnectedInv
  <2> QED BY <2>1, <2>2, <2>3
<1> QED BY <1>1 DEF QueuedWithin

\* The source and the seeds are set once.
LEMMA StepSource ==
  ASSUME WaveInv, [Next]_vars, SourceInv
  PROVE  SourceInv'
<1>1. CASE Seed
  <2> DEFINE src == locate_source(request)
  <2>1. /\ InsideGrid(request.lon, request.lat) /\ source' = src
        /\ Indexable(src) /\ slowness[Indexed(src)] > 0
        /\ seeds' = Seeds /\ request' = request /\ slowness' = slowness
    BY <1>1 DEF Seed, inputs
  <2>2. InputsOK BY DEF WaveInv, MarkInv
  <2>3. ASSUME NodeOffset = 1 => src \in Nodes
        PROVE  /\ src \in Nodes /\ Indexed(src) = src
               /\ request.mode \in {"client", "default"}
               /\ (request.mode = "default" => RadiusCovers) => src \in DOMAIN Seeds
               /\ (request.mode = "default" => SamplesTouch) =>
                    \A C \in SUBSET Nodes : src \in C /\ Closed(C) => DOMAIN Seeds \subseteq C
    <3>1. request.mode \in {"client", "default"} BY <2>2 DEF InputsOK
    <3>2. src \in Nodes /\ slowness[src] > 0 /\ Indexed(src) = src
      BY <2>1, <2>2, <2>3, SourceTyped
    <3>3. CASE request.mode = "client"
      <4>1. Seeds = [n \in {src} |-> 0] BY <3>3 DEF Seeds
      <4>2. DOMAIN Seeds = {src} BY <4>1
      <4> HIDE DEF src
      <4> QED BY <3>1, <3>2, <4>2
    <3>4. CASE request.mode = "default"
      <4>1. Seeds = SeedsAround BY <3>4 DEF Seeds
      <4>2. RadiusCovers => src \in DOMAIN SeedsAround BY <3>2, <2>2, SourceSeeds
      <4>3. SamplesTouch =>
              \A C \in SUBSET Nodes : src \in C /\ Closed(C) => DOMAIN SeedsAround \subseteq C
        BY <3>2, <2>2, SeedsConnect
      <4> HIDE DEF src
      <4> QED BY <3>1, <3>2, <3>4, <4>1, <4>2, <4>3
    <3> QED BY <3>1, <3>3, <3>4
  <2> HIDE DEF src
  <2>4. \A C \in SUBSET Nodes : Closed(C)' <=> Closed(C) BY <2>1 DEF Closed
  <2> QED BY <2>1, <2>3, <2>4 DEF SourceInv, Located
<1>2. CASE ~Seed
  <2>1. \/ phase' = "rejected" \/ phase' = "asked"
        \/ /\ phase \in {"propagate", "done"} /\ slowness' = slowness
           /\ source' = source /\ seeds' = seeds /\ request' = request
    BY <1>2 DEF Next, Reject, Settle, Finish, Returned, vars, inputs, WaveInv, MarkInv
  <2>2. slowness' = slowness => \A C \in SUBSET Nodes : Closed(C)' <=> Closed(C) BY DEF Closed
  <2> QED BY <2>1, <2>2 DEF SourceInv, Located
<1> QED BY <1>1, <1>2

\* Both hold in every state of a run.
LEMMA Water == Spec => [](WaveInv /\ ConnectedInv /\ SourceInv)
<1>1. Init => ConnectedInv /\ SourceInv BY DEF Init, ConnectedInv, SourceInv
<1>2. WaveInv /\ QueuedWithin' /\ ConnectedInv /\ SourceInv /\ [Next]_vars
        => ConnectedInv' /\ SourceInv'
  BY StepConnects, StepSource
<1> QED BY <1>1, <1>2, Wave, ArrivalsWithin, PTL DEF Spec

\* The nodes that a run gives a time are the water connected to its seeds, by its
\* sides or its corners.
ReachesWaterOfSeeds == phase = "done" => DOMAIN hours = Spread(DOMAIN seeds)

\* At the end the settled nodes are closed, and within every closed set around
\* the seeds.
LEMMA Extent ==
  ASSUME WaveInv, ConnectedInv
  PROVE  ReachesWaterOfSeeds
<1> SUFFICES ASSUME phase = "done" PROVE DOMAIN hours = Spread(DOMAIN seeds)
  BY DEF ReachesWaterOfSeeds
<1>1. DOMAIN hours \in SUBSET Nodes BY DEF WaveInv, MarkInv
<1>2. \A n \in Nodes : ~(key[n] > UNREACHED) BY QueueEnds
<1>3. DOMAIN seeds \in SUBSET DOMAIN hours
  BY <1>2 DEF WaveInv, SeedInv, ReachedBy
<1>4. Closed(DOMAIN hours)
  <2>1. ASSUME NEW n \in DOMAIN hours, NEW m \in Adjacent[n], slowness[m] > 0
        PROVE  m \in DOMAIN hours
    <3>1. n \in Nodes /\ m \in Nodes BY <1>1 DEF Adjacent
    <3>2. PICK dir \in Near : Shift(n, Segments[dir].to) = m BY <3>1, AdjacentDirection
    <3>3. ReachedBy(m, hours[n] + Cost(n, Segments[dir]))
      BY <2>1, <3>2 DEF WaveInv, NeighbourInv
    <3> QED BY <3>1, <3>3, <1>2 DEF ReachedBy
  <2> QED BY <2>1 DEF Closed
<1>5. Spread(DOMAIN seeds) \subseteq DOMAIN hours BY <1>1, <1>3, <1>4, SpreadWithin
<1>6. /\ Spread(DOMAIN seeds) \in SUBSET Nodes /\ DOMAIN seeds \subseteq Spread(DOMAIN seeds)
      /\ Closed(Spread(DOMAIN seeds))
  BY <1>1, <1>3, SpreadCloses
<1>7. DOMAIN hours \subseteq Spread(DOMAIN seeds) BY <1>1, <1>6 DEF ConnectedInv
<1> QED BY <1>5, <1>7

(***************************************************************************)
(* Which nodes get a time, for every grid, bathymetry and epicenter and in *)
(* both modes: when the queue is empty, _propagate has settled the water   *)
(* connected to the seeds and nothing else. A direction of the stencil     *)
(* that is blocked never cuts water off, and a long one never leaps over   *)
(* land into other water.                                                  *)
(***************************************************************************)
THEOREM WavefrontExtent == Spec => []ReachesWaterOfSeeds
<1>1. WaveInv /\ ConnectedInv => ReachesWaterOfSeeds BY Extent
<1> QED BY <1>1, Water, PTL

\* What is seeded is queued until it is settled.
LEMMA SeedsWait ==
  ASSUME WaveInv, phase \in {"propagate", "done"}, NEW n \in DOMAIN seeds
  PROVE  n \in DOMAIN hours \/ n \in ToSet(heap)
<1>1. n \in Nodes /\ ReachedBy(n, seeds[n]) BY DEF WaveInv, SeedInv
<1>2. CASE key[n] > UNREACHED
  <2>1. State.key = key /\ State.heap = heap /\ State.pos = pos BY DEF State
  <2>2. Shape(State) /\ Marked(State) BY DEF WaveInv, QueueInv, Good
  <2>3. pos[n] > 0 BY <1>1, <1>2, <2>1, <2>2 DEF Marked
  <2>4. pos[n] \in 1..Len(heap) /\ heap[pos[n]] = n
    BY <1>1, <2>1, <2>2, <2>3 DEF Shape, WaveInv, QueueInv, Good, QueueType
  <2>5. heap \in Seq(Nodes) BY <2>1 DEF WaveInv, QueueInv, Good, QueueType
  <2> QED BY <2>4, <2>5 DEF ToSet
<1> QED BY <1>1, <1>2 DEF ReachedBy

(***************************************************************************)
(* The wavefront starts at the node nearest to the epicenter: in "client"  *)
(* mode on every grid, in the default mode on every one whose radius of    *)
(* seeds reaches that node, for every bathymetry and every epicenter that  *)
(* travel_times() accepts. The rounding of _mean_slowness's samples agrees *)
(* with that of locate_source, ties and edges included.                    *)
(***************************************************************************)
THEOREM SourceStaysSeeded == Spec => []SourceIsSeeded
<1>1. WaveInv /\ SourceInv => SourceIsSeeded
  <2> SUFFICES ASSUME WaveInv, SourceInv, phase \in {"propagate", "done"}, Located,
                      request.mode = "default" => RadiusCovers
               PROVE  Indexed(source) \in DOMAIN hours \cup ToSet(heap)
    BY DEF SourceIsSeeded
  <2>1. Indexed(source) = source /\ source \in DOMAIN seeds BY DEF SourceInv
  <2> QED BY <2>1, SeedsWait
<1> QED BY <1>1, Water, PTL

(***************************************************************************)
(* A run gives a time to exactly the water connected to the node nearest   *)
(* to the epicenter; what the result counts as unreached (solver.py:512)   *)
(* is the rest. In "client" mode for every grid and bathymetry; in the     *)
(* default mode for every bathymetry on a grid whose cells are more than   *)
(* half as wide as high, where no land between the epicenter and a seed is *)
(* missed.                                                                 *)
(***************************************************************************)
THEOREM WaterStaysConnected == Spec => []ReachesConnectedWater
<1>1. WaveInv /\ ConnectedInv /\ SourceInv => ReachesConnectedWater
  <2> SUFFICES ASSUME WaveInv, ConnectedInv, SourceInv, phase = "done", Located,
                      request.mode = "default" => RadiusCovers /\ SamplesTouch
               PROVE  DOMAIN hours = Spread({Indexed(source)})
    BY DEF ReachesConnectedWater
  <2> DEFINE S == DOMAIN seeds
  <2>1. /\ source \in Nodes /\ Indexed(source) = source /\ source \in S
        /\ \A C \in SUBSET Nodes : source \in C /\ Closed(C) => S \subseteq C
    BY DEF SourceInv
  <2>2. S \in SUBSET Nodes BY DEF WaveInv, SeedInv
  <2>3. DOMAIN hours = Spread(S) BY Extent DEF ReachesWaterOfSeeds
  <2> HIDE DEF S
  <2>4. {source} \in SUBSET Nodes BY <2>1
  <2>5. /\ Spread(S) \in SUBSET Nodes /\ S \subseteq Spread(S) /\ Closed(Spread(S))
        /\ Spread({source}) \in SUBSET Nodes /\ {source} \subseteq Spread({source})
        /\ Closed(Spread({source}))
    BY <2>2, <2>4, SpreadCloses
  <2>6. Spread({source}) \subseteq Spread(S) BY <2>1, <2>5, SpreadWithin
  <2>7. S \subseteq Spread({source}) BY <2>1, <2>5
  <2>8. Spread(S) \subseteq Spread({source}) BY <2>5, <2>7, SpreadWithin
  <2> QED BY <2>1, <2>3, <2>6, <2>8
<1> QED BY <1>1, Water, PTL
==============================================================================
