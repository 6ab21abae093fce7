----------------------------- MODULE MCSemSet ------------------------------
(***************************************************************************)
(* Instances of SemSet: two semaphores and the arrays that make processes  *)
(* meet: a P of both, a wait for zero before a P, a V and a P that are     *)
(* reversed when a second P of the same semaphore blocks, and a P that will*)
(* not wait.                                                               *)
(***************************************************************************)
EXTENDS SemSet

CONSTANTS p1, p2, p3

P(s, n) == [num |-> s, op |-> -n, nowait |-> FALSE]
V(s, n) == [num |-> s, op |-> n, nowait |-> FALSE]
Z(s)    == [num |-> s, op |-> 0, nowait |-> FALSE]
NoWait(o) == [o EXCEPT !.nowait = TRUE]

MCArrays == {<<P(0, 1), P(1, 1)>>, <<Z(0), P(1, 2)>>, <<V(1, 1), P(0, 1), P(0, 1)>>,
             <<V(0, 1), NoWait(P(1, 1))>>}
=============================================================================
