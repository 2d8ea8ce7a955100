----------------------------- MODULE TravelTimes -----------------------------
(***************************************************************************)
(* The travel-time solver, packages/tsdhn-ttt/tsdhn_ttt/solver.py: locate  *)
(* the epicenter on the bathymetry grid, seed the wavefront, and settle    *)
(* the water nodes in order of arrival with a binary heap.                 *)
(*                                                                         *)
(* A run is sequential; the first state chooses its inputs (the grid, the  *)
(* epicenter and the mode) and everything after is one step per settled    *)
(* node. Positions are integers in quarters of a cell from the grid's      *)
(* south-west corner, so that round() meets its ties. Slowness is a small  *)
(* integer per metre, lengths are whole metres and times whole seconds:    *)
(* integer division takes the place of floating-point rounding, which is   *)
(* monotone too. The narrowing of the cells with latitude is a width per   *)
(* row. The constant bias factor and the source slope of the result do not *)
(* feed back and are left out.                                             *)
(***************************************************************************)
EXTENDS Stencil, WaveQueue

CONSTANTS
    NX, NY,             \* columns and rows of the grid
    NodeOffset,         \* 0: gridline-registered, 1: pixel-registered
    CellWidth,          \* [0..NY-1 -> metres], east-west, per row
    CellHeight,         \* metres, north-south
    SeedCells,          \* _SEED_CELLS
    Circle,             \* 360 degrees in quarter cells
    Surveys             \* the inputs tried, a set of families: the values a
                        \* node takes (0 is land), the positions asked for, in
                        \* quarter cells, and the mode

Nodes == (0..NY-1) \X (0..NX-1)     \* <<row, column>>, row 0 is the north

XMax == 4 * (NX - 1 + NodeOffset)
YMax == 4 * (NY - 1 + NodeOffset)

(***************************************************************************)
(* travel_times() refuses a grid of 360 degrees. In "client" mode a pixel  *)
(* grid can seed the padding (its edge is half a cell beyond the last      *)
(* nodes), and the run continues with NaN arithmetic: not modelled.        *)
(***************************************************************************)
ASSUME GridAssumption ==
    /\ NX \in Nat /\ NX >= 2 /\ NY \in Nat /\ NY >= 2
    /\ NodeOffset \in {0, 1}
    /\ CellWidth \in [0..NY-1 -> Nat \ {0}] /\ CellHeight \in Nat \ {0}
    /\ SeedCells \in Nat /\ Circle \in Nat /\ Circle > XMax
    /\ \A s \in Surveys : /\ s.values \subseteq Nat
                          /\ s.lons \subseteq Int /\ s.lats \subseteq Int
                          /\ s.mode \in {"client", "default"}
                          /\ NodeOffset = 1 => s.mode = "default"

VARIABLES
    slowness,           \* of each node, 0 on land
    request,            \* [lon, lat, mode] asked for
    phase,              \* "asked", "rejected", "propagate" or "done"
    source,             \* locate_source(): <<row, column>>, unchecked
    seeds,              \* the seeder's nodes and their times
    open,               \* water nodes that are not settled
    key, seq,           \* tentative time and age of each node in the queue
    heap, pos,          \* the queue, and where each node is in it
    counter,            \* age given to the next node queued
    hours               \* times of the settled nodes

vars == <<slowness, request, phase, source, seeds, open, key, seq, heap, pos,
          counter, hours>>
inputs == <<slowness, request>>
------------------------------------------------------------------------------
(* Arithmetic.                                                             *)

\* Python's round() and numpy's rint(): to the nearest, ties to even.
Round(n, den) == LET q == n \div den
                     r == 2 * (n % den)
                 IN IF r > den \/ (r = den /\ q % 2 = 1) THEN q + 1 ELSE q

CeilDiv(n, den) == -((-n) \div den)
Clip(v, low, high) == IF v < low THEN low ELSE IF v > high THEN high ELSE v

\* Whole part of the square root.
Root(n) == CHOOSE r \in 0..n : r * r <= n /\ n < (r + 1) * (r + 1)
------------------------------------------------------------------------------
(* The epicenter on the grid.                                              *)

\* _wrap_longitude: into [x_min, x_min + 360).
WrapLongitude(lon) == lon % Circle

\* _check_epicenter passes.
InsideGrid(lon, lat) == lat \in 0..YMax /\ WrapLongitude(lon) <= XMax

\* Position in cells times four, from the south-west node.
X(r) == WrapLongitude(r.lon) - 2 * NodeOffset
Y(r) == r.lat - 2 * NodeOffset

\* Variant: ties always up.
locate_half_up(r) == <<NY - 1 - (Y(r) + 2) \div 4, (X(r) + 2) \div 4>>

locate_source(r) == <<NY - 1 - Round(Y(r), 4), Round(X(r), 4)>>

\* b.depth[row, column]: numpy reads row -1 as the last row, and raises on a
\* column past the end.
Indexable(s) == s[2] \in 0..NX-1 /\ s[1] \in -NY..NY-1
Indexed(s) == <<s[1] % NY, s[2]>>
------------------------------------------------------------------------------
(* Lengths and costs of segments.                                          *)

\* The directions that can end in the grid: its padding is blocked.
Near == {k \in 1..NEIGHBOURS : LET c == Neighbour(Directions[k])
                               IN /\ c[1] \in (1 - NX)..(NX - 1)
                                  /\ c[2] \in (1 - NY)..(NY - 1)}

\* The loop over the directions may end anywhere after the last of these.
LastNear == CHOOSE last \in 0..NEIGHBOURS : \A k \in Near : k <= last

\* The node `c` away from node n; dj is positive northward.
Shift(n, c) == <<n[1] - c[2], n[2] + c[1]>>

\* _client_lengths: the width of the start row. _sphere_lengths: the
\* haversine's product of the cosines of both rows.
Metres(mode, row, c) ==
    LET end == IF mode = "client" THEN row ELSE row - c[2]
    IN IF end \in 0..NY-1
       THEN Root(c[1] * c[1] * CellWidth[row] * CellWidth[end]
                 + c[2] * c[2] * CellHeight * CellHeight)
       ELSE 0

\* The tables the solver builds once: for each direction, its end, what has
\* to be open, what is summed, and its length from each row.
Segments ==
    [k \in Near |->
        LET d == Directions[k]
        IN [to      |-> Neighbour(d),
            block   |-> BlockCells(d),
            weights |-> Weighted(d),
            unit    |-> Row(d).unit,
            steps   |-> 2 * Row(d).major,
            metres  |-> [mode \in {"client", "default"} |->
                           [row \in 0..NY-1 |-> Metres(mode, row, Neighbour(d))]]]]

\* Time along segment s from node n: its length times the mean slowness, the
\* node's own slowness with weight 1.
Cost(n, s) ==
    LET weighted == [i \in 1..Len(s.weights) |->
                        s.weights[i][2] * slowness[Shift(n, s.weights[i][1])]]
        sum == s.unit * slowness[n] + SumTo(weighted, Len(s.weights))
    IN (s.metres[request.mode][n[1]] * sum) \div (s.unit * s.steps)

\* Variant: no diagonal step past a corner of land.
FreeAround(n, s) == /\ \A c \in s.block : Shift(n, c) \in open
                    /\ Shift(n, <<s.to[1], 0>>) \in open \cup {n}

\* Every weighted cell and every blocker is open.
Free(n, s) == \A c \in s.block : Shift(n, c) \in open

\* The same, settled nodes left aside.
FreeOfLand(n, s) == \A c \in s.block : /\ Shift(n, c) \in Nodes
                                       /\ slowness[Shift(n, c)] > 0
------------------------------------------------------------------------------
(* Seeds of the default mode: the water nodes around the epicenter.        *)

\* _mean_slowness along the segment from the epicenter to node n, in
\* 1/(2*steps*D*D) for D = 4*steps; 0 when the segment meets land.
MeanSlowness(n, steps) ==
    LET D  == 4 * steps
        x1 == 4 * n[2]
        y1 == 4 * (NY - 1 - n[1])
        px(k) == X(request) * steps + k * (x1 - X(request))
        py(k) == Y(request) * steps + k * (y1 - Y(request))
        at(south, column) == slowness[<<NY - 1 - south, column>>]
        nearest(k) == at(Clip(Round(py(k), D), 0, NY - 1),
                         Clip(Round(px(k), D), 0, NX - 1))
        interpolated(k) ==
            LET column == Clip(px(k) \div D, 0, NX - 2)
                south  == Clip(py(k) \div D, 0, NY - 2)
                fx == Clip(px(k) - column * D, 0, D)
                fy == Clip(py(k) - south * D, 0, D)
                corner(dy, dx) == at(south + dy, column + dx)
            IN IF \E dy, dx \in {0, 1} : corner(dy, dx) = 0
               THEN nearest(k) * D * D
               ELSE corner(0, 0) * (D - fx) * (D - fy) + corner(0, 1) * fx * (D - fy)
                    + corner(1, 0) * (D - fx) * fy + corner(1, 1) * fx * fy
    IN IF \E k \in 0..steps : nearest(k) = 0
       THEN 0
       ELSE SumTo([i \in 1..(steps + 1) |->
                      IF i \in {1, steps + 1} THEN interpolated(i - 1)
                                              ELSE 2 * interpolated(i - 1)],
                  steps + 1)

\* Metres from the epicenter to node n; the epicenter has the width of the
\* row it is nearest to.
SeedMetres(n) ==
    LET dx == X(request) - 4 * n[2]
        dy == Y(request) - 4 * (NY - 1 - n[1])
        row == Clip(locate_source(request)[1], 0, NY - 1)
    IN Root((dx * dx * CellWidth[row] * CellWidth[n[1]]
             + dy * dy * CellHeight * CellHeight) \div 16)

\* _mean_slowness's number of samples.
Samples(n) == LET twice == CeilDiv(2 * SeedMetres(n), CellHeight)
              IN IF twice < 2 THEN 2 ELSE twice

\* Seconds to node n, with the mean of 1/(2*steps*D*D).
SeedSeconds(n) ==
    LET steps == Samples(n)
        D == 4 * steps
    IN (SeedMetres(n) * MeanSlowness(n, steps)) \div (2 * steps * D * D)

\* The columns and rows that are looked at.
InSeedWindow(n) ==
    LET reach == 4 * SeedCells
        row == Clip(locate_source(request)[1], 0, NY - 1)
        east == (X(request) - 4 * n[2]) * CellWidth[row]
        north == Y(request) - 4 * (NY - 1 - n[1])
    IN /\ -(reach * CellHeight) <= east /\ east <= reach * CellHeight
       /\ -reach <= north /\ north <= reach

\* The seeds with their times.
SeedsAround ==
    [n \in {m \in Nodes : /\ slowness[m] > 0
                          /\ InSeedWindow(m)
                          /\ SeedMetres(m) <= SeedCells * CellHeight
                          /\ MeanSlowness(m, Samples(m)) > 0} |-> SeedSeconds(n)]

Seeds == IF request.mode = "client" THEN [n \in {locate_source(request)} |-> 0]
                                    ELSE SeedsAround

\* The i-th node in the order the seeds are queued in: from the south-west, row
\* by row.
Place(i) == <<NY - 1 - ((i - 1) \div NX), (i - 1) % NX>>
------------------------------------------------------------------------------
(* The queue's loops.                                                      *)

State == [key |-> key, seq |-> seq, heap |-> heap, pos |-> pos, counter |-> counter]

Becomes(q) == /\ key' = q.key /\ seq' = q.seq /\ heap' = q.heap
              /\ pos' = q.pos /\ counter' = q.counter

\* _propagate's loop over the seeds.
Seeded(q, times) ==
    LET after[i \in 0..(NX * NY)] ==
            IF i = 0 THEN q
            ELSE IF Place(i) \in DOMAIN times
                 THEN Queue(after[i - 1], Place(i), times[Place(i)])
                 ELSE after[i - 1]
    IN after[NX * NY]

\* Variant: a node that is queued keeps its first time.
ReachOnce(q, n, t, s) ==
    LET to == Shift(n, s.to)
    IN IF to \in Nodes /\ q.key[to] = UNREACHED /\ Free(n, s)
       THEN Queue(q, to, t + Cost(n, s))
       ELSE q

\* The end of segment s from the settled node n, reached at time t. `open`
\* still holds n, which is in no patch of its own.
Reach(q, n, t, s) ==
    LET to == Shift(n, s.to)
        arrival == t + Cost(n, s)
    IN IF /\ to \in Nodes /\ q.key[to] >= UNREACHED /\ Free(n, s)
          /\ q.key[to] = UNREACHED \/ arrival < q.key[to]
       THEN Queue(q, to, arrival)
       ELSE q

\* All of them, in the order of the stencil.
Relax(q, n, t) ==
    LET after[k \in 0..LastNear] ==
            IF k = 0 THEN q
            ELSE IF k \in Near THEN Reach(after[k - 1], n, t, Segments[k])
                 ELSE after[k - 1]
    IN after[LastNear]
------------------------------------------------------------------------------
Init == /\ \E s \in Surveys :
              /\ slowness \in [Nodes -> s.values]
              /\ request \in [lon : s.lons, lat : s.lats, mode : {s.mode}]
        /\ phase = "asked"
        /\ source = <<>>
        /\ seeds = <<>>
        /\ open = {n \in Nodes : slowness[n] > 0}
        /\ key = [n \in Nodes |-> IF slowness[n] > 0 THEN UNREACHED ELSE BLOCKED]
        /\ seq = [n \in Nodes |-> 0]
        /\ heap = <<>>
        /\ pos = [n \in Nodes |-> 0]
        /\ counter = 1
        /\ hours = <<>>

\* ValueError: outside the grid, or on land; IndexError: past the last column.
Reject == /\ phase = "asked"
          /\ \/ ~InsideGrid(request.lon, request.lat) /\ UNCHANGED source
             \/ /\ InsideGrid(request.lon, request.lat)
                /\ source' = locate_source(request)
                /\ ~(Indexable(source') /\ slowness[Indexed(source')] > 0)
          /\ phase' = "rejected"
          /\ UNCHANGED <<inputs, seeds, open, key, seq, heap, pos, counter, hours>>

\* _solve up to _propagate, and its loop over the seeds.
Seed == /\ phase = "asked"
        /\ InsideGrid(request.lon, request.lat)
        /\ source' = locate_source(request)
        /\ Indexable(source') /\ slowness[Indexed(source')] > 0
        /\ phase' = "propagate"
        /\ seeds' = Seeds
        /\ Becomes(Seeded(State, seeds'))
        /\ UNCHANGED <<inputs, open, hours>>

\* One turn of _propagate's loop.
Settle == /\ phase = "propagate" /\ heap # <<>>
          /\ LET n == heap[1]
                 t == key[n]
             IN /\ Becomes(Relax(Pop(State), n, t))
                /\ open' = open \ {n}
                /\ hours' = [m \in DOMAIN hours \cup {n} |->
                                IF m = n THEN t ELSE hours[m]]
          /\ UNCHANGED <<inputs, phase, source, seeds>>

Finish == /\ phase = "propagate" /\ heap = <<>>
          /\ phase' = "done"
          /\ UNCHANGED <<inputs, source, seeds, open, key, seq, heap, pos, counter, hours>>

Returned == phase \in {"rejected", "done"} /\ UNCHANGED vars

Next == Reject \/ Seed \/ Settle \/ Finish \/ Returned

Spec == Init /\ [][Next]_vars
------------------------------------------------------------------------------
(***************************************************************************)
(* The table a wavefront is propagated with: the weights of each of its    *)
(* 120 directions are the trapezoid integral of the slowness along the     *)
(* segment, which _client_lengths and _sphere_lengths divide by (comment   *)
(* at _stencil.py:264-268); and no cell the kernel reads for it is farther *)
(* than the padding from the node: slowness[ij + offsets[c]] is read       *)
(* without a bounds check (solver.py:250), and a read past the padding     *)
(* would be another row.                                                   *)
(***************************************************************************)
StencilSound == phase = "propagate" => TableSound

(***************************************************************************)
(* The queue stays a heap over moves up, moves down and re-timed nodes:    *)
(* `pos` and `heap` are inverse, no node is before its parent, and the     *)
(* nodes in it are exactly the reached, unsettled ones, so a node whose    *)
(* time improves is found where `pos` says (solver.py:285). And no node in *)
(* it is earlier than a settled one: the nodes are settled in order of     *)
(* arrival (solver.py:211), so no settled time has to be corrected.        *)
(***************************************************************************)
QueueConsistent ==
    /\ \A i \in 1..Len(heap) : pos[heap[i]] = i
    /\ \A n \in Nodes : pos[n] > 0 <=> key[n] > UNREACHED
    /\ \A n \in Nodes : pos[n] > 0 => heap[pos[n]] = n
    /\ \A i \in 2..Len(heap) : ~Less(State, heap[i], heap[i \div 2])
    /\ \A n \in Nodes, m \in DOMAIN hours : pos[n] > 0 => hours[m] <= key[n]

Adjacent == [n \in Nodes |-> {m \in Nodes \ {n} : /\ n[1] - m[1] \in -1..1
                                                   /\ n[2] - m[2] \in -1..1}]

\* Nodes of S and the water that touches them.
Spread(S) ==
    LET after[i \in 0..(NX * NY)] ==
            IF i = 0 THEN S
            ELSE UNION {{n} \cup {m \in Adjacent[n] : slowness[m] > 0} : n \in after[i - 1]}
    IN after[NX * NY]

\* The source is the node nearest to the epicenter, not the one numpy finds at
\* row -1 beyond the northern edge of a pixel-registered grid.
Located == NodeOffset = 1 => source \in Nodes

\* The default mode's radius reaches the node nearest to any epicenter.
RadiusCovers == /\ SeedCells >= 1
                /\ \A row \in 0..NY-1 : CellWidth[row] <= SeedCells * CellHeight

\* Two samples per cell height are less than a cell apart towards the east or
\* west too. In degrees: less than 60 degrees from the equator.
SamplesTouch == \A row \in 0..NY-1 : CellHeight < 2 * CellWidth[row]

(***************************************************************************)
(* When the queue is empty, the water connected to the source has a time,  *)
(* by its sides or its corners, and no other node has one: what is left is *)
(* what the result counts as unreached (solver.py:512). The seeds of the   *)
(* default mode do not leap over land into other water where the samples   *)
(* of _mean_slowness touch; on narrower cells they can.                    *)
(***************************************************************************)
ReachesConnectedWater ==
    phase = "done" /\ Located /\ (request.mode = "default" => RadiusCovers /\ SamplesTouch)
        => DOMAIN hours = Spread({Indexed(source)})

(***************************************************************************)
(* Each time is one the wavefront can have: that of a seed, or that of an  *)
(* earlier node plus the cost of a segment between them that meets no      *)
(* land. And no node is late for a neighbour: waiting for the whole        *)
(* stencil, and blocking by settled nodes, never makes a time worse than   *)
(* the step from any adjacent node.                                        *)
(***************************************************************************)
TimesAreArrivals ==
    phase = "done" =>
        /\ \A n \in DOMAIN seeds : hours[n] <= seeds[n]
        /\ \A n \in DOMAIN hours :
             \/ n \in DOMAIN seeds /\ hours[n] = seeds[n]
             \/ \E m \in DOMAIN hours, k \in Near :
                   /\ Shift(m, Segments[k].to) = n
                   /\ FreeOfLand(m, Segments[k])
                   /\ hours[m] <= hours[n]
                   /\ hours[n] = hours[m] + Cost(m, Segments[k])
        /\ \A n \in DOMAIN hours, k \in Near :
             Shift(n, Segments[k].to) \in Adjacent[n] \cap DOMAIN hours
                 => hours[Shift(n, Segments[k].to)] <= hours[n] + Cost(n, Segments[k])

(***************************************************************************)
(* A water epicenter starts a wavefront at the node nearest to it, in both *)
(* modes: the default one, which looks for seeds on its own around the     *)
(* exact position, with its own rounding, agrees with locate_source as     *)
(* long as its radius reaches that node.                                   *)
(***************************************************************************)
SourceIsSeeded ==
    phase \in {"propagate", "done"} /\ Located /\ (request.mode = "default" => RadiusCovers)
        => Indexed(source) \in DOMAIN hours \cup ToSet(heap)

==============================================================================
