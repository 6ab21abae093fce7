----------------------------- MODULE FileRules ------------------------------
(***************************************************************************)
(* What the file system calls promise about names, descriptors and the     *)
(* lives of inodes (the headers of open.c, close.c, dup.c, unlink.c,       *)
(* link.c, rename.c and chdir.c), with no cache, no reference counts and no*)
(* link counts:                                                            *)
(*   - a call adds a name, removes one or moves one; a new name is that of *)
(*     an inode that did not exist, or of one that had a name before;      *)
(*   - a new descriptor is the lowest free one; a description (an entry of *)
(*     the file table) stays with its inode until its last descriptor goes;*)
(*   - an inode that a name, a description or the current directory refers *)
(*     to goes on existing.                                                *)
(* Three things the code does are part of it, although others are asked    *)
(* for. rmdir and a rename over a directory look at its link count and not *)
(* at the names in it, against their own comments (mkdir.c:138-140 and     *)
(* 173-175, rename.c:16-17: "the target must be EMPTY") and POSIX. open    *)
(* with O_TRUNC empties a directory, and a rename that finds no room for   *)
(* the new name has removed the file it was to replace already, against    *)
(* POSIX.                                                                  *)
(***************************************************************************)
EXTENDS Integers, FiniteSets

CONSTANTS Inodes, Names, Fds, Files

VARIABLES names,  \* names[d][n]: the inode the name n of directory d leads to, or 0
          fds,    \* fds[d]: the description descriptor d stands for, or 0
          of,     \* of[f]: the inode of description f, or 0
          here,   \* the inode of the current directory, or 0
          alive   \* the inodes that exist

vars == <<names, fds, of, here, alive>>

Empty == [n \in Names |-> 0]
Named == {names[d][n] : d \in Inodes, n \in Names} \ {0}
Used  == Named \union (({of[f] : f \in Files} \union {here}) \ {0})

FreeFds == {d \in Fds : fds[d] = 0}
IsLowest(d) == d \in FreeFds /\ \A e \in FreeFds : d <= e

Init == /\ \A f \in Files : of[f] = 0
        /\ \A d \in Fds : fds[d] = 0
        /\ here = 0
        /\ Named \subseteq alive

(* What happens to the names. *)
Add(d, n, i)    == names[d][n] = 0 /\ names' = [names EXCEPT ![d][n] = i]
Remove(d, n)    == names[d][n] # 0 /\ names' = [names EXCEPT ![d][n] = 0]
RemoveAll(d, n) == /\ names[d][n] # 0
                   /\ names' = [names EXCEPT ![names[d][n]] = Empty, ![d][n] = 0]
Move(d, n, e, m) == /\ names[d][n] # 0
                    /\ names' = [names EXCEPT ![d][n] = 0, ![e][m] = names[d][n]]
EmptyOut(d)     == names' = [names EXCEPT ![d] = Empty]

(* What happens to the descriptors. *)
NewEntry(d, f, i) == /\ of[f] = 0
                     /\ IsLowest(d)
                     /\ fds' = [fds EXCEPT ![d] = f] /\ of' = [of EXCEPT ![f] = i]
Gone(d, f) == \A e \in Fds \ {d} : fds[e] # f
After(d)   == IF fds[d] # 0 /\ Gone(d, fds[d]) THEN [of EXCEPT ![fds[d]] = 0] ELSE of

Unnamed == UNCHANGED names
NoFds   == UNCHANGED <<fds, of>>

Create(d, n, i) == /\ Add(d, n, i)
                   /\ i \notin alive
                   /\ NoFds \/ \E e \in Fds, f \in Files : NewEntry(e, f, i)
Link(d, n, i)   == Add(d, n, i) /\ i \in Named /\ NoFds
Unlink(d, n)    == (Remove(d, n) \/ RemoveAll(d, n)) /\ NoFds
Rename(d, n, e, m) == (Move(d, n, e, m) \/ Remove(e, m)) /\ NoFds
Open(d, f, i)   == /\ NewEntry(d, f, i)
                   /\ Unnamed \/ EmptyOut(i)
                   /\ i \in alive
Pipe(i)   == /\ Unnamed
             /\ \E d, e \in Fds, f, g \in Files :
                   /\ d < e /\ f # g /\ of[f] = 0 /\ of[g] = 0
                   /\ IsLowest(d) /\ \A x \in FreeFds \ {d} : e <= x
                   /\ e \in FreeFds
                   /\ fds' = [fds EXCEPT ![d] = f, ![e] = g]
                   /\ of' = [of EXCEPT ![f] = i, ![g] = i]
             /\ i \notin alive
Close(d)  == fds[d] # 0 /\ fds' = [fds EXCEPT ![d] = 0] /\ of' = After(d) /\ Unnamed
Dup(d, e) == /\ fds[d] # 0
             /\ fds' = [fds EXCEPT ![e] = fds[d]] /\ of' = After(e)
             /\ Unnamed
Chdir     == here' \in alive /\ Unnamed /\ NoFds

(* A call does one of these. Inodes that nothing refers to may go or stay. *)
NamesChange == \E d \in Inodes, n \in Names :
                   \/ Unlink(d, n)
                   \/ \E i \in Inodes : Create(d, n, i) \/ Link(d, n, i)
                   \/ \E e \in Inodes, m \in Names : Rename(d, n, e, m)
FdsChange   == \/ \E d \in Fds, f \in Files, i \in Inodes : Open(d, f, i)
               \/ \E i \in Inodes : Pipe(i)
               \/ \E d \in Fds : Close(d) \/ \E e \in Fds \ {d} : Dup(d, e)
NoChange    == Unnamed /\ NoFds

Next == /\ Used' \subseteq alive'
        /\ \/ (NoChange \/ FdsChange \/ NamesChange) /\ UNCHANGED here
           \/ Chdir

Spec == Init /\ [][Next]_vars
=============================================================================
