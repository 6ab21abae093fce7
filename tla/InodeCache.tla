----------------------------- MODULE InodeCache -----------------------------
(***************************************************************************)
(* The inode layer, 32_FS/01_fsa: the in-core inodes, their free list, the *)
(* window of free inode numbers, the directories and the walk along a path.*)
(*                                                                         *)
(* A routine maps a state of the layer to the state it leaves. The layer   *)
(* is one record:                                                          *)
(*   slot  icache[]: what each in-core inode holds                         *)
(*   list  the free list, ifree_head first                                 *)
(*   disk  i_mode and i_nlink of every inode of the volume                 *)
(*   dirs  the entries of every directory: name to inode number, 0 if none *)
(*   win   free_inodes[0 .. free_inode_idx - 1]                            *)
(*   seen  remembered_inode                                                *)
(*   ip    what the routine returned, Null for none                        *)
(*   spin  "no", or the routine that loops for ever and will not return    *)
(* A call that spins is over: every later routine leaves the record alone. *)
(*                                                                         *)
(* Left out: block contents and sizes other than directory entries, owners,*)
(* times and the dirty flags (wherever one is set the in-core mode and link*)
(* count are on the disk already, or the code writes them at once), and the*)
(* failure of a disk read, which needs a buffer pool that has run dry.     *)
(***************************************************************************)
EXTENDS Integers, Sequences, SequencesExt, FiniteSetsExt

CONSTANTS MAX_INCACHE,       \* in-core inodes
          Null,              \* a null pointer
          MaxIno,            \* inodes on the volume
          Names,             \* the names directory entries can have
          SB_FREE_INODE_MAX, \* numbers the window holds
          MaxTurns           \* bound: turns of ialloc's loop before it counts as endless

ASSUME CacheAssumption ==
    /\ MAX_INCACHE \in Nat \ {0} /\ Null \notin 1..MAX_INCACHE
    /\ IsFiniteSet(Names)
    /\ MaxIno \in Nat /\ MaxIno >= 2
    /\ SB_FREE_INODE_MAX \in Nat \ {0}
    /\ MaxTurns \in Nat \ {0}

Slots   == 1..MAX_INCACHE                           \* icache[]
Root    == 2                                        \* UNFS_ROOT_INO
Inodes  == 1..MaxIno
Modes   == {"free", "file", "dir"}
NoNames == [n \in Names |-> 0]
Unused  == [ino |-> 0, ref |-> 0, locked |-> FALSE, mode |-> "free", nlink |-> 0]

IsDir(c, s)  == c.slot[s].mode = "dir"
Ino(c, s)    == c.slot[s].ino
IsFree(c, i) == c.disk[i].mode = "free"

(* Mutant: one number too many fits. *)
IfreeOverruns(c, i) ==
    IF Len(c.win) > SB_FREE_INODE_MAX THEN [c EXCEPT !.seen = Min({@, i})]
                                      ELSE [c EXCEPT !.win = Append(@, i)]

(* superblock.c ifree: the number goes into the window; when that is full  *)
(* only the lowest such number is remembered.                              *)
Ifree(c, i) ==
    IF Len(c.win) >= SB_FREE_INODE_MAX THEN [c EXCEPT !.seen = Min({@, i})]
                                       ELSE [c EXCEPT !.win = Append(@, i)]

(* inode.c iupdate. *)
Iupdate(c, s) ==
    IF c.spin # "no" THEN c
    ELSE [c EXCEPT !.disk[Ino(c, s)] = [mode |-> c.slot[s].mode, nlink |-> c.slot[s].nlink]]

(* Mutant: an inode found in the cache is not taken off the free list. *)
HitStaysListed(c, s) == [c EXCEPT !.slot[s].ref = @ + 1, !.slot[s].locked = TRUE, !.ip = s]

(* inode.c ifree_remove: a slot that is on the free list leaves it. *)
IfreeRemove(q, s) ==
    IF s \in ToSet(q) THEN RemoveAt(q, CHOOSE k \in DOMAIN q : q[k] = s) ELSE q

(* A hit in the cache. *)
Hit(c, s) == [c EXCEPT !.slot[s].ref = @ + 1, !.slot[s].locked = TRUE,
                       !.list = IfreeRemove(@, s), !.ip = s]

(* inode.c iget_dev: the cached inode, unless it is locked: then the loop  *)
(* never ends. Else the head of the free list takes the inode in.          *)
Iget(c, i) ==
    IF c.spin # "no" THEN [c EXCEPT !.ip = Null]
    ELSE IF \E s \in Slots : Ino(c, s) = i
    THEN LET s == CHOOSE s \in Slots : Ino(c, s) = i
         IN  IF c.slot[s].locked
             THEN [c EXCEPT !.spin = "iget", !.ip = Null]
             ELSE Hit(c, s)
    ELSE IF c.list = <<>> THEN [c EXCEPT !.ip = Null]
    ELSE LET s == Head(c.list)
         IN  [c EXCEPT !.slot[s] = [ino |-> i, ref |-> 1, locked |-> TRUE,
                                    mode |-> c.disk[i].mode, nlink |-> c.disk[i].nlink],
                       !.list = Tail(@), !.ip = s]

(* Mutant: the last name does not count. *)
IsDeadAtOne(c, s, left) == left = 0 /\ c.slot[s].nlink <= 1

(* Whether an inode of which `left' references are left is freed. *)
IsDead(c, s, left) == left = 0 /\ c.slot[s].nlink = 0

(* Mutant: only the last reference takes the lock off. *)
LetGoLocked(c, s, left) ==
    [c EXCEPT !.slot[s].ref = left, !.slot[s].locked = @ /\ left > 0,
              !.list = IF left = 0 /\ s \notin ToSet(@) THEN Append(@, s) ELSE @]

(* The end of iput: the slot keeps `left' references and no lock. *)
LetGo(c, s, left) ==
    [c EXCEPT !.slot[s].ref = left, !.slot[s].locked = FALSE,
              !.list = IF left = 0 /\ s \notin ToSet(@) THEN Append(@, s) ELSE @]

(* inode.c iput: at the last reference an inode without names is freed and *)
(* loses its blocks; the slot joins the free list. The lock goes in any    *)
(* case. The mode on the disk is not cleared.                              *)
Iput(c, s) ==
    LET left == IF c.slot[s].ref > 0 THEN c.slot[s].ref - 1 ELSE 0
        freed == IF IsDead(c, s, left) THEN Ifree([c EXCEPT !.slot[s].mode = "free",
                                      !.dirs[Ino(c, s)] = NoNames], Ino(c, s))
                 ELSE c
    IN  IF c.spin # "no" THEN c ELSE LetGo(freed, s, left)

(* iput of several inodes, in the order of the sequence. *)
IputAll(c, ss) == LET from[k \in 1..Len(ss) + 1] ==
                         IF k = 1 THEN c ELSE Iput(from[k - 1], ss[k - 1])
                  IN  from[Len(ss) + 1]

(* superblock.c sb_refill_inodes: the free numbers from `seen' upward. The *)
(* last one found is where the next search begins (ialloc_dev).            *)
Refill(c) ==
    LET add(w, i) == IF IsFree(c, i) /\ Len(w) < SB_FREE_INODE_MAX THEN Append(w, i) ELSE w
        upto[i \in 0..MaxIno] == IF i < c.seen THEN <<>> ELSE add(upto[i - 1], i)
        fit == upto[MaxIno]
    IN  [c EXCEPT !.win = fit, !.seen = IF fit = <<>> THEN @ ELSE Last(fit)]

(* The number the window offers next, fetched. *)
Offered(c) == Iget([c EXCEPT !.win = Front(@)], Last(c.win))

(* What ialloc_dev makes of the inode it has fetched: a number whose inode *)
(* is in use after all, or cannot be had because the cache is full, is     *)
(* dropped and the loop goes on: iput of one without names puts its number *)
(* back.                                                                   *)
Claim(c, kind) ==
    IF c.ip = Null THEN [c |-> c, over |-> c.spin # "no"]
    ELSE IF ~IsFree(c, Ino(c, c.ip)) THEN [c |-> Iput(c, c.ip), over |-> FALSE]
    ELSE [c |-> Iupdate([c EXCEPT !.slot[c.ip].mode = kind, !.slot[c.ip].nlink = 0], c.ip),
          over |-> TRUE]

(* One turn of ialloc_dev's loop, once the window has been refilled. *)
IallocTurn(c, kind) ==
    IF c.win = <<>> THEN [c |-> [c EXCEPT !.ip = Null], over |-> TRUE]
                    ELSE Claim(Offered(c), kind)

Stocked(c) == IF c.win = <<>> THEN Refill(c) ELSE c

(* superblock.c ialloc_dev: a locked inode without names, or Null. *)
Ialloc(c, kind) ==
    LET next(r) == IF r.over THEN r ELSE IallocTurn(Stocked(r.c), kind)
        turn[n \in 0..MaxTurns] == IF n = 0 THEN [c |-> c, over |-> FALSE] ELSE next(turn[n - 1])
        end(r)  == IF r.over THEN r.c ELSE [c EXCEPT !.spin = "ialloc", !.ip = Null]
    IN  IF c.spin # "no" THEN [c EXCEPT !.ip = Null] ELSE end(turn[MaxTurns])

(* namei.c dir_lookup, dir_add and dir_remove. Whether there is room for an*)
(* entry (a freed record, a tail, or a new block) is `room'.               *)
Lookup(c, s, n) == IF IsDir(c, s) THEN c.dirs[Ino(c, s)][n] ELSE 0
CanAdd(c, s, room) == IsDir(c, s) /\ room
AddEntry(c, s, n, i) == IF c.spin # "no" THEN c ELSE [c EXCEPT !.dirs[Ino(c, s)][n] = i]
RemoveEntry(c, s, n) == AddEntry(c, s, n, 0)

(* Mutant: the new count stays in core. *)
RelinkInCore(c, s, d) ==
    IF c.spin # "no" THEN c
    ELSE [c EXCEPT !.slot[s].nlink = IF @ + d < 0 THEN 0 ELSE @ + d]

(* A change of an in-core link count that is written to the disk. *)
Relink(c, s, d) ==
    IF c.spin # "no" THEN c
    ELSE Iupdate([c EXCEPT !.slot[s].nlink = IF @ + d < 0 THEN 0 ELSE @ + d], s)

Unlock(c, s) == IF c.spin # "no" THEN c ELSE [c EXCEPT !.slot[s].locked = FALSE]

(* One component of namei's walk: the directory is released before its     *)
(* entry is fetched.                                                       *)
WalkStep(c, n) ==
    LET i    == Lookup(c, c.ip, n)
        left == Iput(c, c.ip)
    IN  IF c.ip = Null THEN c
        ELSE IF i = 0 THEN [left EXCEPT !.ip = Null]
        ELSE Iget(left, i)

(* namei.c namei: the inode a path leads to, locked, or Null. A path is    *)
(* [abs, at]: whether it starts at the root, and its components. A relative*)
(* one starts at cwd.                                                      *)
Namei(c, path, cwd) ==
    IF ~path.abs /\ cwd = Null THEN [c EXCEPT !.ip = Null]
    ELSE LET walk[k \in 0..Len(path.at)] ==
                 IF k = 0 THEN Iget(c, IF path.abs THEN Root ELSE Ino(c, cwd))
                          ELSE WalkStep(walk[k - 1], path.at[k])
         IN  walk[Len(path.at)]

(* 10_scfs table.c scfs_path_split: a path of one component has the root as*)
(* its parent, relative or not.                                            *)
Parent(path) ==
    IF Len(path.at) <= 1 THEN [abs |-> TRUE, at |-> <<>>]
    ELSE [path EXCEPT !.at = Front(@)]
Base(path) == Last(path.at)
=============================================================================
