----------------------------- MODULE MCRegions ------------------------------
(***************************************************************************)
(* Programs and mappings for TLC. The images load, grow a tail past the    *)
(* file, fail in the middle of a read, and are too big for a region.       *)
(***************************************************************************)
EXTENDS Regions

Seg(t, file, good, size) == [type |-> t, file |-> file, good |-> good, mem |-> size]

MCImages ==
    {<<Seg("data", 1, 1, 2), Seg("text", 1, 1, 1)>>,
     <<Seg("data", 2, 1, 2)>>,
     <<Seg("text", 2, 2, 2), Seg("data", 3, 3, 3)>>,
     <<Seg("data", 0, 0, 1), Seg("text", 0, -1, 0)>>}

MCMaps ==
    {[type |-> "shmem", pages |-> 1, good |-> 0, load |-> FALSE],
     [type |-> "data", pages |-> 1, good |-> 1, load |-> TRUE]}
=============================================================================
