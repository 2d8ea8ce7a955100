--------------------------- MODULE MCTsunamiSolver ---------------------------
(* A 4 by 5 sea with land and a shallow cell, deformed up to its edge. *)
EXTENDS TsunamiSolver

MCDepth == [c \in Cells |-> CASE c = <<3, 2>> -> -3
                              [] c = <<3, 4>> -> 1
                              [] OTHER -> 5 + c[1] + 2 * c[2]]
MCDeform == [c \in (0..2) \X {2, 3} |-> 6 * c[1] - 5 * c[2] + 3]
MCGauges == {<<0, 2>>, <<2, 2>>}
MCRX == [j \in 0..JA-1 |-> 1 + (j % 2)]
MCCJ == [j \in 0..JA-1 |-> 2 - (j % 2)]
=============================================================================
