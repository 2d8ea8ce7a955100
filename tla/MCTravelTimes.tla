---------------------------- MODULE MCTravelTimes ----------------------------
(* TravelTimes for TLC: the families of inputs. *)
EXTENDS TravelTimes

\* Rows narrow towards the north.
Narrowing == [row \in 0..NY-1 |-> 14 + 3 * row]

\* Propagation from a node: every bathymetry of land and two depths.
Depths == [values |-> {0, 1, 4}, lons |-> {0, 4}, lats |-> {0, 4}, mode |-> "client"]

\* Seeding around the epicenter: every coastline, every quarter of a cell,
\* epicenters off the grid and a turn away from it.
Coastlines == [values |-> {0, 2},
               lons |-> (0..XMax) \cup {-1, XMax + 1, Circle + 1, -Circle},
               lats |-> -1..YMax + 1,
               mode |-> "default"]

MCSurveys == {Depths, Coastlines}
==============================================================================
