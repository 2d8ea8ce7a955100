------------------------------ MODULE WaveQueue ------------------------------
(***************************************************************************)
(* The queue of the travel-time solver's wavefront, tsdhn_ttt/solver.py: a *)
(* binary heap of nodes ordered by time, then by age, with the place of    *)
(* every node in `pos`. A queue is a record of the arrays _propagate keeps *)
(* and of the counter that gives a node its age. Index 1 is the code's     *)
(* index 0, and place 0 its -1.                                            *)
(***************************************************************************)
EXTENDS Integers, Sequences

(* The sentinels of `key`. The code's are above every time it can meet;    *)
(* here they are below, so that a time may be any natural number. Their    *)
(* order is reversed with them.                                            *)
UNREACHED == -1
SETTLED == -2
BLOCKED == -3

Less(q, a, b) == \/ q.key[a] < q.key[b]
                 \/ q.key[a] = q.key[b] /\ q.seq[a] < q.seq[b]

Swap(q, i, j) == [q EXCEPT !.heap = [@ EXCEPT ![i] = q.heap[j], ![j] = q.heap[i]],
                           !.pos = [@ EXCEPT ![q.heap[i]] = j, ![q.heap[j]] = i]]

(* The loops of the two sifts: a turn moves the node at place `at` one     *)
(* level, or is the one that breaks.                                       *)

Rise(s) ==
    IF s.at > 1 /\ Less(s.q, s.q.heap[s.at], s.q.heap[s.at \div 2])
    THEN [q |-> Swap(s.q, s.at, s.at \div 2), at |-> s.at \div 2]
    ELSE s

SiftUp(q, i) ==
    LET turn[j \in 0..i] == IF j = 0 THEN [q |-> q, at |-> i] ELSE Rise(turn[j - 1])
    IN turn[i].q

\* Variant: the left child is always the one compared.
SinkLeft(s) ==
    IF 2 * s.at <= Len(s.q.heap) /\ Less(s.q, s.q.heap[2 * s.at], s.q.heap[s.at])
    THEN [q |-> Swap(s.q, s.at, 2 * s.at), at |-> 2 * s.at]
    ELSE s

Sink(s) ==
    LET left  == 2 * s.at
        child == IF left + 1 <= Len(s.q.heap) /\ Less(s.q, s.q.heap[left + 1], s.q.heap[left])
                 THEN left + 1 ELSE left
    IN IF left <= Len(s.q.heap) /\ Less(s.q, s.q.heap[child], s.q.heap[s.at])
       THEN [q |-> Swap(s.q, s.at, child), at |-> child]
       ELSE s

SiftDown(q, i) ==
    LET turn[j \in 0..Len(q.heap)] ==
            IF j = 0 THEN [q |-> q, at |-> i] ELSE Sink(turn[j - 1])
    IN turn[Len(q.heap)].q

\* A new time for node n: it joins the queue, or moves up in it.
Queue(q, n, time) ==
    LET p == [q EXCEPT !.key[n] = time, !.seq[n] = q.counter, !.counter = @ + 1]
    IN IF q.pos[n] = 0
       THEN SiftUp([p EXCEPT !.heap = Append(@, n), !.pos[n] = Len(q.heap) + 1],
                   Len(q.heap) + 1)
       ELSE SiftUp(p, q.pos[n])

\* The first node leaves the queue.
Pop(q) ==
    LET first == q.heap[1]
        last  == Len(q.heap)
        p == [q EXCEPT !.heap = SubSeq([@ EXCEPT ![1] = q.heap[last]], 1, last - 1),
                       !.pos = [[@ EXCEPT ![q.heap[last]] = 1] EXCEPT ![first] = 0],
                       !.key[first] = SETTLED]
    IN IF last = 1 THEN p ELSE SiftDown(p, 1)
=============================================================================
