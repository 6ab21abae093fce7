----------------------------- MODULE MCKPatch -----------------------------
(***************************************************************************)
(* Instances of KPatch: a patch of its own and two modules that meet on    *)
(* the functions f and g, so that a load can fail at any of its patches.   *)
(***************************************************************************)
EXTENDS KPatch

CONSTANTS a, b, c, d, e, f, g, h, m1, m2

MCOrigFunc == [p \in Patch |-> CASE p \in {a, c} -> f [] p \in {b, e} -> g [] p = d -> h]
MCSize     == [p \in Patch |-> IF p = a THEN 1 ELSE 2]
MCPatches  == [m \in Module |-> IF m = m1 THEN <<b, c>> ELSE <<d, e>>]
=============================================================================
