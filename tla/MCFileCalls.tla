---------------------------- MODULE MCFileCalls ----------------------------
(***************************************************************************)
(* Instances of FileCalls: a volume whose root holds a file "a" and an     *)
(* empty directory "d"; its other inodes are free.                         *)
(***************************************************************************)
EXTENDS FileCalls

(* States are told apart by the inodes that are referenced and by the disk:*)
(* which slot holds an inode, and what is left in slots without references *)
(* and in which order, makes no difference to what can happen (CacheFresh).*)
CacheView ==
    <<{fs.slot[s] : s \in {t \in Slots : Held(t)}}, fs.disk, fs.dirs, fs.win, fs.seen,
      {<<Of(file[f].ip), file[f].count, FdsOf(f)>> : f \in InUse},
      Of(cwd), hung, calls>>

Abs(at) == [abs |-> TRUE, at |-> at]
Rel(at) == [abs |-> FALSE, at |-> at]

MCImage ==
    [disk |-> [i \in Inodes |-> CASE i = 2 -> [mode |-> "dir", nlink |-> 3]
                                  [] i = 3 -> [mode |-> "dir", nlink |-> 2]
                                  [] i = 4 -> [mode |-> "file", nlink |-> 1]
                                  [] OTHER -> [mode |-> "free", nlink |-> 0]],
     dirs |-> [i \in Inodes |-> CASE i = 2 -> [NoNames EXCEPT !["a"] = 4, !["d"] = 3]
                                  [] OTHER -> NoNames]]

MCPaths == {Abs(<<"a">>), Abs(<<"d">>), Abs(<<"d", "a">>)}
MCRelPaths == {Abs(<<"d">>), Abs(<<"d", "a">>), Abs(<<"b">>), Rel(<<"a">>)}
=============================================================================
