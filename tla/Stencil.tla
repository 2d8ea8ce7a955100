------------------------------- MODULE Stencil -------------------------------
(***************************************************************************)
(* The neighbour stencil of the travel-time solver, packages/tsdhn-ttt/    *)
(* tsdhn_ttt/_stencil.py: the 120 directions a node reaches, the patch     *)
(* cells that carry weight in the slowness integral along each, and the    *)
(* cells that only block.                                                  *)
(*                                                                         *)
(* The file lists the 120 rows one after the other. They come in octets:   *)
(* the rows of one octet are the reflections of its first row, so the      *)
(* module keeps the first row of each (its <<di, dj, weight>>, the weights *)
(* as integers in 1/unit) and reflects it. A slip in another row of the    *)
(* file is therefore not seen here. Directions are numbered from 1, where  *)
(* the file numbers them from 0.                                           *)
(***************************************************************************)
EXTENDS Integers, Sequences, SequencesExt, FiniteSetsExt

(* f[1] + ... + f[n]                                                       *)
SumTo(f, n) ==
    LET sum[i \in 0..n] == IF i = 0 THEN 0 ELSE sum[i - 1] + f[i]
    IN sum[n]

PAD == 13       \* _PAD: cells of padding around the grid

(* The rows of the 16 octets, in the order of the file.                    *)
Row_1_0 == [major |-> 1, minor |-> 0, unit |-> 1,
            cells |-> <<<<1, 0, 1>>>>]
Row_1_1 == [major |-> 1, minor |-> 1, unit |-> 1,
            cells |-> <<<<1, 1, 1>>>>]
Row_2_1 == [major |-> 2, minor |-> 1, unit |-> 1,
            cells |-> <<<<1, 0, 1>>, <<1, 1, 1>>, <<2, 1, 1>>>>]
Row_3_1 == [major |-> 3, minor |-> 1, unit |-> 3,
            cells |-> <<<<1, 0, 4>>, <<1, 1, 2>>, <<2, 0, 2>>, <<2, 1, 4>>,
                       <<3, 1, 3>>>>]
Row_3_2 == [major |-> 3, minor |-> 2, unit |-> 2,
            cells |-> <<<<1, 0, 1>>, <<1, 1, 3>>, <<2, 1, 3>>, <<2, 2, 1>>,
                       <<3, 2, 2>>>>]
Row_4_1 == [major |-> 4, minor |-> 1, unit |-> 2,
            cells |-> <<<<1, 0, 3>>, <<1, 1, 1>>, <<2, 0, 2>>, <<2, 1, 2>>,
                       <<3, 0, 1>>, <<3, 1, 3>>, <<4, 1, 2>>>>]
Row_4_3 == [major |-> 4, minor |-> 3, unit |-> 3,
            cells |-> <<<<1, 0, 1>>, <<1, 1, 5>>, <<2, 1, 3>>, <<2, 2, 3>>,
                       <<3, 2, 5>>, <<3, 3, 1>>, <<4, 3, 3>>>>]
Row_5_1 == [major |-> 5, minor |-> 1, unit |-> 5,
            cells |-> <<<<1, 0, 8>>, <<1, 1, 2>>, <<2, 0, 6>>, <<2, 1, 4>>,
                       <<3, 0, 4>>, <<3, 1, 6>>, <<4, 0, 2>>, <<4, 1, 8>>,
                       <<5, 1, 5>>>>]
Row_5_2 == [major |-> 5, minor |-> 2, unit |-> 10,
            cells |-> <<<<1, 0, 12>>, <<1, 1, 8>>, <<2, 0, 3>>, <<2, 1, 17>>,
                       <<3, 1, 17>>, <<3, 2, 3>>, <<4, 1, 8>>, <<4, 2, 12>>,
                       <<5, 2, 10>>>>]
Row_5_3 == [major |-> 5, minor |-> 3, unit |-> 15,
            cells |-> <<<<1, 0, 10>>, <<1, 1, 20>>, <<2, 1, 26>>, <<2, 2, 4>>,
                       <<3, 1, 4>>, <<3, 2, 26>>, <<4, 2, 20>>, <<4, 3, 10>>,
                       <<5, 3, 15>>>>]
Row_6_1 == [major |-> 6, minor |-> 1, unit |-> 3,
            cells |-> <<<<1, 0, 5>>, <<1, 1, 1>>, <<2, 0, 4>>, <<2, 1, 2>>,
                       <<3, 0, 3>>, <<3, 1, 3>>, <<4, 0, 2>>, <<4, 1, 4>>,
                       <<5, 0, 1>>, <<5, 1, 5>>, <<6, 1, 3>>>>]
Row_5_4 == [major |-> 5, minor |-> 4, unit |-> 4,
            cells |-> <<<<1, 0, 1>>, <<1, 1, 7>>, <<2, 1, 3>>, <<2, 2, 5>>,
                       <<3, 2, 5>>, <<3, 3, 3>>, <<4, 3, 7>>, <<4, 4, 1>>,
                       <<5, 4, 4>>>>]
(* Variant: one cell with its coordinates swapped. *)
Row_7_3_Swapped == [major |-> 7, minor |-> 3, unit |-> 21,
            cells |-> <<<<1, 0, 24>>, <<1, 1, 18>>, <<2, 0, 4>>, <<2, 1, 38>>,
                       <<3, 1, 32>>, <<2, 3, 10>>, <<4, 1, 10>>,
                       <<4, 2, 32>>, <<5, 2, 38>>, <<5, 3, 4>>, <<6, 2, 18>>,
                       <<6, 3, 24>>, <<7, 3, 21>>>>]

Row_7_3 == [major |-> 7, minor |-> 3, unit |-> 21,
            cells |-> <<<<1, 0, 24>>, <<1, 1, 18>>, <<2, 0, 4>>, <<2, 1, 38>>,
                       <<3, 1, 32>>, <<3, 2, 10>>, <<4, 1, 10>>,
                       <<4, 2, 32>>, <<5, 2, 38>>, <<5, 3, 4>>, <<6, 2, 18>>,
                       <<6, 3, 24>>, <<7, 3, 21>>>>]
Row_8_1 == [major |-> 8, minor |-> 1, unit |-> 4,
            cells |-> <<<<1, 0, 7>>, <<1, 1, 1>>, <<2, 0, 6>>, <<2, 1, 2>>,
                       <<3, 0, 5>>, <<3, 1, 3>>, <<4, 0, 4>>, <<4, 1, 4>>,
                       <<5, 0, 3>>, <<5, 1, 5>>, <<6, 0, 2>>, <<6, 1, 6>>,
                       <<7, 0, 1>>, <<7, 1, 7>>, <<8, 1, 4>>>>]
Row_7_6 == [major |-> 7, minor |-> 6, unit |-> 6,
            cells |-> <<<<1, 0, 1>>, <<1, 1, 11>>, <<2, 1, 3>>, <<2, 2, 9>>,
                       <<3, 2, 5>>, <<3, 3, 7>>, <<4, 3, 7>>, <<4, 4, 5>>,
                       <<5, 4, 9>>, <<5, 5, 3>>, <<6, 5, 11>>, <<6, 6, 1>>,
                       <<7, 6, 6>>>>]
Row_13_1 == [major |-> 13, minor |-> 1, unit |-> 13,
             cells |-> <<<<1, 0, 24>>, <<1, 1, 2>>, <<2, 0, 22>>, <<2, 1, 4>>,
                        <<3, 0, 20>>, <<3, 1, 6>>, <<4, 0, 18>>, <<4, 1, 8>>,
                        <<5, 0, 16>>, <<5, 1, 10>>, <<6, 0, 14>>,
                        <<6, 1, 12>>, <<7, 0, 12>>, <<7, 1, 14>>,
                        <<8, 0, 10>>, <<8, 1, 16>>, <<9, 0, 8>>,
                        <<9, 1, 18>>, <<10, 0, 6>>, <<10, 1, 20>>,
                        <<11, 0, 4>>, <<11, 1, 22>>, <<12, 0, 2>>,
                        <<12, 1, 24>>, <<13, 1, 13>>>>]

Primitives == <<Row_1_0, Row_1_1, Row_2_1, Row_3_1, Row_3_2, Row_4_1, Row_4_3,
                Row_5_1, Row_5_2, Row_5_3, Row_6_1, Row_5_4, Row_7_3, Row_8_1,
                Row_7_6, Row_13_1>>

(* Image of the cell <<x, y>> of a first row in the n-th row of its octet. *)
Reflect(n, x, y) == <<<<x, y>>, <<-x, -y>>, <<x, -y>>, <<-x, y>>,
                      <<y, x>>, <<-y, -x>>, <<y, -x>>, <<-y, x>>>>[n]

NEIGHBOURS == 120

(* One entry per direction: its octet and its place in it. The axes and    *)
(* the diagonals, octets 1 and 2, have four distinct reflections each.     *)
Directions ==
    [k \in 1..NEIGHBOURS |->
        CASE k <= 4 -> [octet |-> 1, image |-> <<1, 2, 5, 6>>[k]]
          [] k \in 5..8 -> [octet |-> 2, image |-> k - 4]
          [] OTHER  -> [octet |-> 3 + (k - 9) \div 8, image |-> ((k - 9) % 8) + 1]]

Row(d) == Primitives[d.octet]

(* CELLS[:120]: where direction d leads.                                   *)
Neighbour(d) == Reflect(d.image, Row(d).major, Row(d).minor)

(* WEIGHTS[d]: the weighted cells of the segment in direction d.           *)
Weighted(d) == [i \in 1..Len(Row(d).cells) |->
                   LET c == Row(d).cells[i] IN <<Reflect(d.image, c[1], c[2]), c[3]>>]

(* BLOCKERS: the (7,6) octet is blocked by the matching cell of (3,1) too. *)
Blockers(d) == IF Row(d).major = 7 /\ Row(d).minor = 6
               THEN {Reflect(d.image, 3, 1)}
               ELSE {}

(* _BLOCK_CELL: the cells that have to be open for direction d.            *)
BlockCells(d) == {Weighted(d)[i][1] : i \in 1..Len(Row(d).cells)} \cup Blockers(d)

(* CELLS: the neighbours and the cells on the segments to them.            *)
Patch == UNION {{Neighbour(Directions[k])} \cup BlockCells(Directions[k]) :
                  k \in 1..NEIGHBOURS}
------------------------------------------------------------------------------
(***************************************************************************)
(* Reference definition of the weights. A segment from the node to         *)
(* <<M, m>> crosses grid lines at the parameters q/M and q/m; the slowness *)
(* at a crossing is interpolated bilinearly between the nodes around it,   *)
(* and the integral is the trapezoid rule over the crossings. Parameters   *)
(* are counted in 1/(M*m), M*m being reached at the neighbour.             *)
(***************************************************************************)
Crossings(M, m) == {q * m : q \in 0..M} \cup {q * M : q \in 0..m}

\* What a node at distance x (in 1/n of a cell) contributes along one axis.
Hat(n, x) == IF x >= n \/ x <= -n THEN 0 ELSE IF x < 0 THEN n + x ELSE n - x

\* Twice the trapezoid rule's width at crossing t.
Span(T, t) == LET after  == {u \in T : u > t}
                  before == {u \in T : u < t}
              IN (IF after = {} THEN t ELSE Min(after))
                 - (IF before = {} THEN t ELSE Max(before))

\* Weight of the cell <<x, y>>, in 1/(M*m*m), for a segment to <<M, m>>.
Integral(M, m, x, y) ==
    LET T == Crossings(M, m)
    IN MapThenSumSet(LAMBDA t : Span(T, t) * Hat(m, x * m - t) * Hat(M, y * M - t), T)

\* The same on an axis, where only the two ends have weight.
Expected(M, m, x, y) ==
    IF m = 0 THEN IF <<x, y>> \in {<<0, 0>>, <<M, 0>>} THEN 1 ELSE 0
             ELSE Integral(M, m, x, y)

Scale(M, m) == IF m = 0 THEN 1 ELSE M * m * m

\* A cell of direction d turned back to the first row of its octet.
Unreflect(d, c) == CHOOSE xy \in (0..Row(d).major) \X (0..Row(d).major) :
                    Reflect(d.image, xy[1], xy[2]) = c

\* Every cell the integral touches is listed with its weight, no other cell
\* is, and with the node's own weight of 1 they sum to twice the steps along
\* the major axis.
WeightsAreIntegral(d) ==
    LET M == Row(d).major
        m == Row(d).minor
        listed == {<<Unreflect(d, w[1]), w[2]>> : w \in ToSet(Weighted(d))}
    IN /\ \A xy \in (0..M) \X (0..m) \ {<<0, 0>>} :
            LET r == Expected(M, m, xy[1], xy[2]) * Row(d).unit
            IN IF r = 0 THEN \A w \in listed : w[1] # xy
                        ELSE \E w \in listed : w[1] = xy /\ w[2] * Scale(M, m) = r
       /\ \A w \in listed : w[1] \in (0..M) \X (0..m)
       /\ SumTo([i \in DOMAIN Weighted(d) |-> Weighted(d)[i][2]], Len(Weighted(d)))
            = (2 * M - 1) * Row(d).unit

\* All of it for all 120 directions, and no cell farther than the padding.
TableSound ==
    \A k \in 1..NEIGHBOURS :
        LET d == Directions[k]
        IN /\ WeightsAreIntegral(d)
           /\ \A c \in {Neighbour(d)} \cup BlockCells(d) :
                c[1] \in -PAD..PAD /\ c[2] \in -PAD..PAD
==============================================================================
