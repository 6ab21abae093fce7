----------------------------- MODULE FileCalls ------------------------------
(***************************************************************************)
(* The file system calls, 32_FS/10_scfs, over the inode layer: names,      *)
(* descriptors and the current directory.                                  *)
(*                                                                         *)
(* There is one CPU, a system call is not preempted, and the scfs layer has*)
(* one descriptor table: a call is one step. A call that never returns     *)
(* (iget or ialloc spins) is recorded in `hung' and is the last that       *)
(* happens. The calls run as the owner of every file, so that no access    *)
(* check refuses; each refusal releases what the type check before it      *)
(* releases.                                                               *)
(***************************************************************************)
EXTENDS InodeCache, FiniteSets

CONSTANTS NFILE,   \* entries of the file table
          NOFILE,  \* descriptors
          Paths,   \* the paths callers use; an empty relative path is not one
          Image,   \* the volume at boot: [disk, dirs]
          MaxRef,  \* bound: the references to an in-core inode
          MaxCalls \* bound: the calls made

ASSUME CallAssumption ==
    /\ NFILE \in Nat \ {0} /\ NOFILE \in Nat \ {0}
    /\ Paths \subseteq [abs : BOOLEAN, at : Seq(Names)]
    /\ \A p \in Paths : p.abs \/ p.at # <<>>
    /\ Image \in [disk : [Inodes -> [mode : Modes, nlink : Nat]],
                  dirs : [Inodes -> [Names -> {0} \union Inodes]]]
    /\ Image.disk[Root].mode = "dir"
    /\ MaxRef \in Nat \ {0} /\ MaxCalls \in Nat

(* The names of an inode, and the subdirectories of a directory.           *)
NamesIn(dirs, i) == {dn \in Inodes \X Names : dirs[dn[1]][dn[2]] = i}
DirsIn(disk, dirs, d) == {n \in Names : dirs[d][n] # 0 /\ disk[dirs[d][n]].mode = "dir"}

(* The volume at boot is in order, as mkfs writes it (unfs_format.c:193,   *)
(* namei.c:567) and as the calls below keep it (FileNames_proofs): an      *)
(* inode has a link for each name, a directory one name at most and, where *)
(* it can be reached, a link for each subdirectory beside its own two;     *)
(* only a directory with a link has entries, nothing leads to the root,    *)
(* and what is free has no link.                                           *)
ASSUME ImageAssumption ==
    LET disk == Image.disk
        dirs == Image.dirs
    IN  /\ NamesIn(dirs, Root) = {}
        /\ \A i \in Inodes :
              LET names == Cardinality(NamesIn(dirs, i))
              IN  /\ names <= disk[i].nlink
                  /\ disk[i].mode = "free" => disk[i].nlink = 0
                  /\ disk[i].mode = "dir" => names <= 1
                  /\ disk[i].mode = "dir" /\ (i = Root \/ NamesIn(dirs, i) # {}) =>
                        disk[i].nlink >= 2 + Cardinality(DirsIn(disk, dirs, i))
                  /\ dirs[i] # NoNames => disk[i].mode = "dir" /\ disk[i].nlink >= 1

VARIABLES fs,     \* the inode layer
          file,   \* scfs_file_table: the inode and the count of each entry
          ufd,    \* scfs_u->ufd_file: the entry a descriptor names, 0 for none
          cwd,    \* s_cwd
          hung,   \* the call that never returned, NoCall while every call has
          calls   \* calls made so far

vars == <<fs, file, ufd, cwd, hung, calls>>

Files   == 1..NFILE
Fds     == 0..NOFILE - 1
NoCall  == [op |-> "none"]
Closed  == [ip |-> Null, count |-> 0]
InUse   == {f \in Files : file[f].ip # Null}
FreeFds == {d \in Fds : ufd[d] = 0}
Opened  == {d \in Fds : ufd[d] # 0}

(* After inode_cache_init and sb_init over a volume image. No caller of    *)
(* scfs_init exists: its tables are zero and there is no current directory.*)
Init ==
    /\ fs = [slot |-> [s \in Slots |-> Unused], list |-> [k \in Slots |-> k],
             disk |-> Image.disk, dirs |-> Image.dirs,
             win |-> <<>>, seen |-> 1, ip |-> Null, spin |-> "no"]
    /\ file = [f \in Files |-> Closed]
    /\ ufd = [d \in Fds |-> 0]
    /\ cwd = Null
    /\ hung = NoCall
    /\ calls = 0

(* The end of a call that left the layer at c, the tables at f and u and   *)
(* the current directory at w, or that is stuck in c.                      *)
Return(call, c, f, u, w) ==
    IF c.spin # "no"
    THEN hung' = call /\ UNCHANGED <<fs, file, ufd, cwd>>
    ELSE /\ fs' = [c EXCEPT !.ip = Null]
         /\ \A s \in Slots : fs'.slot[s].ref <= MaxRef
         /\ file' = f /\ ufd' = u /\ cwd' = w
         /\ UNCHANGED hung

(* A call that changes names or inodes only. *)
Finish(call, c) == Return(call, c, file, ufd, cwd)

(* table.c scfs_falloc, scfs_ufd_find and scfs_fclose_entry. *)
NewFile == Min({f \in Files : file[f].ip = Null})

(* Mutant: the highest free descriptor. *)
HighestFd == Max(FreeFds)
NewFd     == Min(FreeFds)

(* Mutant: the file table takes no reference of its own. *)
HoldNone(c, s) == c
Hold(c, s) == IF c.spin # "no" THEN c ELSE [c EXCEPT !.slot[s].ref = @ + 1]

(* The end of open and creat once the inode is c.ip, locked. open only     *)
(* unlocks it, and so keeps namei's reference beside the file table's;     *)
(* creat releases it (keeps = FALSE).                                      *)
OpenOn(call, c, keeps) ==
    LET s == c.ip
    IN  IF c.ip = Null THEN Finish(call, c)
        ELSE IF InUse = Files \/ FreeFds = {} THEN Finish(call, Iput(c, s))
        ELSE LET held == Unlock(Hold(c, s), s)
             IN  Return(call, IF keeps THEN held ELSE Iput(held, s),
                        [file EXCEPT ![NewFile] = [ip |-> s, count |-> 1]],
                        [ufd EXCEPT ![NewFd] = NewFile], cwd)

(* table.c scfs_create_node and the body of mknod: an inode of a kind under*)
(* a new name; it stays locked.                                            *)
CreateNode(c, path, kind, room) ==
    LET d    == Namei(c, Parent(path), cwd)
        dir  == d.ip
        a    == Ialloc(d, kind)
        ip   == a.ip
        one  == [a EXCEPT !.slot[ip].nlink = 1]
        done == Iupdate(AddEntry(one, dir, Base(path), Ino(one, ip)), ip)
    IN  IF dir = Null THEN d
        ELSE IF ~IsDir(d, dir) \/ Lookup(d, dir, Base(path)) # 0
        THEN [Iput(d, dir) EXCEPT !.ip = Null]
        ELSE IF ip = Null THEN [Iput(a, dir) EXCEPT !.ip = Null]
        ELSE IF ~CanAdd(one, dir, room) THEN [IputAll(one, <<ip, dir>>) EXCEPT !.ip = Null]
        ELSE [Iput(done, dir) EXCEPT !.ip = ip]

(* open.c: flag is "plain", "trunc" for O_TRUNC with write access, "creat" *)
(* for O_CREAT, "excl" for O_CREAT with O_EXCL. O_TRUNC empties a directory*)
(* like any other file.                                                    *)
Open(path, flag, room) ==
    LET n    == Namei(fs, path, cwd)
        s    == n.ip
        call == [op |-> "open", new |-> path]
        fits == InUse # Files /\ FreeFds # {}
    IN  CASE s = Null /\ flag \in {"creat", "excl"} ->
                 OpenOn(call, CreateNode(n, path, "file", room), TRUE)
          [] s # Null /\ flag = "excl" -> Finish(call, Iput(n, s))
          [] s # Null /\ flag = "trunc" /\ fits ->
                 OpenOn(call, [n EXCEPT !.dirs[Ino(n, s)] = NoNames], TRUE)
          [] OTHER -> OpenOn(call, n, TRUE)

(* creat.c. *)
Creat(path, room) ==
    LET n    == Namei(fs, path, cwd)
        call == [op |-> "creat", new |-> path]
    IN  CASE n.ip = Null -> OpenOn(call, CreateNode(n, path, "file", room), FALSE)
          [] n.ip # Null /\ IsDir(n, n.ip) -> Finish(call, Iput(n, n.ip))
          [] OTHER -> OpenOn(call, n, FALSE)

(* Mutant: every close of a descriptor closes the entry. *)
DropEntry(d) ==
    [c |-> Iput(fs, file[ufd[d]].ip), file |-> [file EXCEPT ![ufd[d]] = Closed]]

(* close.c, as a change of the three structures: the last descriptor of an *)
(* entry releases the inode.                                               *)
Drop(d) ==
    LET f == ufd[d]
    IN  IF file[f].count > 1
        THEN [c |-> fs, file |-> [file EXCEPT ![f].count = @ - 1]]
        ELSE [c |-> Iput(fs, file[f].ip), file |-> [file EXCEPT ![f] = Closed]]

Close(d) ==
    /\ ufd[d] # 0
    /\ Return([op |-> "close"], Drop(d).c, Drop(d).file, [ufd EXCEPT ![d] = 0], cwd)

(* dup.c dup and fcntl.c F_DUPFD: the lowest free descriptor not below min.*)
Dup(d, min) ==
    LET free == {e \in FreeFds : e >= min}
    IN  /\ ufd[d] # 0
        /\ free # {}
        /\ Return([op |-> "dup"], fs, [file EXCEPT ![ufd[d]].count = @ + 1],
                  [ufd EXCEPT ![Min(free)] = ufd[d]], cwd)

(* dup.c dup2 and dup3: what the target names is closed first. *)
Dup2(d, e) ==
    LET before == IF ufd[e] = 0 THEN [c |-> fs, file |-> file] ELSE Drop(e)
    IN  /\ ufd[d] # 0
        /\ d # e
        /\ Return([op |-> "dup2"], before.c,
                  [before.file EXCEPT ![ufd[d]].count = @ + 1],
                  [ufd EXCEPT ![e] = ufd[d]], cwd)

(* mknod.c: the node of CreateNode is released. *)
Mknod(path, room) ==
    LET n == CreateNode(fs, path, "file", room)
    IN  Finish([op |-> "mknod", new |-> path], IF n.ip = Null THEN n ELSE Iput(n, n.ip))

(* unlink.c: a name of anything but a directory goes. *)
Unlink(path) ==
    LET d    == Namei(fs, Parent(path), cwd)
        dir  == d.ip
        i    == Lookup(d, dir, Base(path))
        n    == Iget(d, i)
        ip   == n.ip
        gone == Iput(RemoveEntry(n, dir, Base(path)), dir)
    IN  Finish([op |-> "unlink", new |-> path],
               IF dir = Null THEN d
               ELSE IF i = 0 THEN Iput(d, dir)
               ELSE IF ip = Null THEN Iput(n, dir)
               ELSE IF IsDir(n, ip) THEN IputAll(n, <<ip, dir>>)
               ELSE Iput(Relink(gone, ip, -1), ip))

(* link.c: the count rises first and is put back when the name cannot be   *)
(* added.                                                                  *)
Link(old, new, room) ==
    LET n    == Namei(fs, old, cwd)
        ip   == n.ip
        more == Unlock(Relink(n, ip, 1), ip)
        d    == Namei(more, Parent(new), cwd)
        dir  == d.ip
        undo(c) == Iput(Relink(c, ip, -1), ip)
    IN  Finish([op |-> "link", old |-> old, new |-> new],
               IF ip = Null THEN n
               ELSE IF IsDir(n, ip) THEN Iput(n, ip)
               ELSE IF dir = Null THEN undo(d)
               ELSE IF Lookup(d, dir, Base(new)) # 0 \/ ~CanAdd(d, dir, room)
               THEN undo(Iput(d, dir))
               ELSE IputAll(AddEntry(d, dir, Base(new), Ino(d, ip)), <<dir, ip>>))

(* rename.c from the point where the three inodes and the target's (Null if*)
(* there is none) are held: the target's name goes first, then the old name*)
(* of the source; the new name is added, or else the old one put back.     *)
Move(c, oip, odir, ndir, nip, old, new, room) ==
    LET held    == <<ndir, odir, oip>>
        cleared == IF nip = Null THEN c
                   ELSE Iput(Relink(RemoveEntry(c, ndir, Base(new)), nip, -1), nip)
        off     == RemoveEntry(cleared, odir, Base(old))
        on      == AddEntry(off, ndir, Base(new), Ino(c, oip))
        counted == IF IsDir(c, oip) /\ odir # ndir
                   THEN Relink(Relink(on, odir, -1), ndir, 1)
                   ELSE on
    IN  IF Lookup(cleared, odir, Base(old)) = 0 THEN IputAll(cleared, held)
        ELSE IF ~CanAdd(off, ndir, room)
        THEN IputAll(AddEntry(off, odir, Base(old), Ino(c, oip)), held)
        ELSE IputAll(Iupdate(counted, oip), held)

(* rename.c: the source, its parent and the new parent are fetched and held*)
(* locked, then the target.                                                *)
Rename(old, new, room) ==
    LET o    == Namei(fs, old, cwd)
        oip  == o.ip
        p    == Namei(o, Parent(old), cwd)
        odir == p.ip
        q    == Namei(p, Parent(new), cwd)
        ndir == q.ip
        i    == Lookup(q, ndir, Base(new))
        n    == IF i = 0 THEN [q EXCEPT !.ip = Null] ELSE Iget(q, i)
        nip  == n.ip
        back == IputAll(n, <<ndir, odir, oip>>)
        refused == \/ IsDir(n, nip) /\ (~IsDir(n, oip) \/ n.slot[nip].nlink > 2)
                   \/ Ino(n, nip) = Ino(n, oip)
    IN  Finish([op |-> "rename", old |-> old, new |-> new],
               IF oip = Null THEN o
               ELSE IF odir = Null THEN Iput(p, oip)
               ELSE IF ndir = Null THEN IputAll(q, <<odir, oip>>)
               ELSE IF ~IsDir(q, ndir) THEN IputAll(q, <<ndir, odir, oip>>)
               ELSE IF i # 0 /\ nip = Null THEN back
               ELSE IF nip # Null /\ refused
               THEN IputAll(n, <<nip, ndir, odir, oip>>)
               ELSE Move(n, oip, odir, ndir, nip, old, new, room))

(* pipe.c: an inode with one link and no name, two entries, two            *)
(* descriptors. The reference count is set, not counted. The call then     *)
(* reports ENOSYS, and leaves all of this in place.                        *)
Pipe ==
    LET a    == Ialloc(fs, "file")
        ip   == a.ip
        one  == [a EXCEPT !.slot[ip].nlink = 1]
        made == Unlock(Iupdate([one EXCEPT !.slot[ip].ref = 2], ip), ip)
        r    == NewFile
        w    == Min({f \in Files : file[f].ip = Null} \ {r})
        rfd  == NewFd
        wfd  == Min(FreeFds \ {rfd})
        call == [op |-> "pipe"]
    IN  IF ip = Null THEN Finish(call, a)
        ELSE IF Cardinality(Files \ InUse) < 2 \/ Cardinality(FreeFds) < 2
        THEN Finish(call, Iput(one, ip))
        ELSE Return(call, made,
                    [f \in Files |-> IF f \in {r, w} THEN [ip |-> ip, count |-> 1] ELSE file[f]],
                    [ufd EXCEPT ![rfd] = r, ![wfd] = w], cwd)

(* Mutant: ".." of the new directory is not counted. *)
CountDirOnce(c, dir, ip) == Iupdate([c EXCEPT !.slot[ip].nlink = 2], ip)

(* The counts of a new directory: its own two, and ".." in its parent. *)
CountDir(c, dir, ip) == Iupdate([Relink(c, dir, 1) EXCEPT !.slot[ip].nlink = 2], ip)

(* mkdir.c: the name in the parent first, then "." and "..", for which a   *)
(* block is needed (`block'); the counts last.                             *)
Mkdir(path, room, block) ==
    LET d    == Namei(fs, Parent(path), cwd)
        dir  == d.ip
        a    == Ialloc(d, "dir")
        ip   == a.ip
        made == AddEntry(a, dir, Base(path), Ino(a, ip))
        two  == CountDir(made, dir, ip)
    IN  Finish([op |-> "mkdir", new |-> path],
               IF dir = Null THEN d
               ELSE IF ~IsDir(d, dir) \/ Lookup(d, dir, Base(path)) # 0 THEN Iput(d, dir)
               ELSE IF ip = Null THEN Iput(a, dir)
               ELSE IF ~room THEN IputAll(a, <<ip, dir>>)
               ELSE IF ~block THEN IputAll(RemoveEntry(made, dir, Base(path)), <<ip, dir>>)
               ELSE IputAll(two, <<dir, ip>>))

(* mkdir.c rmdir: two links are all that is asked for; whatever names the  *)
(* directory still holds go with its blocks.                               *)
Rmdir(path) ==
    LET n    == Namei(fs, path, cwd)
        ip   == n.ip
        d    == Namei(n, Parent(path), cwd)
        dir  == d.ip
        off  == Relink(RemoveEntry(d, dir, Base(path)), dir, -1)
        dead == Iupdate([off EXCEPT !.dirs[Ino(d, ip)] = NoNames, !.slot[ip].nlink = 0], ip)
    IN  Finish([op |-> "rmdir", new |-> path],
               IF ip = Null THEN n
               ELSE IF ~IsDir(n, ip) \/ n.slot[ip].nlink > 2 THEN Iput(n, ip)
               ELSE IF dir = Null THEN Iput(d, ip)
               ELSE IF Lookup(d, dir, Base(path)) = 0 THEN IputAll(d, <<dir, ip>>)
               ELSE IputAll(Unlock(dead, ip), <<dir, ip>>))

(* chdir.c: the old directory is released, unless it is the new one: then  *)
(* namei's reference is kept on top of the one held before.                *)
Chdir(path) ==
    LET n    == Namei(fs, path, cwd)
        ip   == n.ip
        free == Unlock(n, ip)
        call == [op |-> "chdir", new |-> path]
    IN  IF ip = Null THEN Finish(call, n)
        ELSE IF ~IsDir(n, ip) THEN Finish(call, Iput(n, ip))
        ELSE Return(call, IF cwd \in {Null, ip} THEN free ELSE Iput(free, cwd), file, ufd, ip)

(* fchdir.c: likewise, from a descriptor. *)
Fchdir(d) ==
    LET ip   == file[ufd[d]].ip
        held == Hold(fs, ip)
    IN  /\ ufd[d] # 0
        /\ IsDir(fs, ip)
        /\ Return([op |-> "fchdir"], IF cwd \in {Null, ip} THEN held ELSE Iput(held, cwd),
                  file, ufd, ip)

(* stat.c, and the other calls that only look at an inode or change its    *)
(* attributes: access, chmod, chown, utime.                                *)
Stat(path) ==
    LET n == Namei(fs, path, cwd)
    IN  Finish([op |-> "stat", new |-> path], IF n.ip = Null THEN n ELSE Iput(n, n.ip))

Named == {p \in Paths : p.at # <<>>}

NameCall ==
    \E p \in Named :
        \/ \E room \in BOOLEAN :
              \/ Creat(p, room)
              \/ Mknod(p, room)
              \/ \E q \in Named : Link(q, p, room) \/ Rename(q, p, room)
              \/ \E block \in BOOLEAN : Mkdir(p, room, block)
        \/ Unlink(p)
        \/ Rmdir(p)

PathCall ==
    \E p \in Paths :
        \/ \E flag \in {"plain", "trunc"} : Open(p, flag, TRUE)
        \/ \E flag \in {"creat", "excl"}, room \in BOOLEAN : Open(p, flag, room)
        \/ Chdir(p)
        \/ Stat(p)

FdCall ==
    \/ \E d \in Fds :
          \/ Close(d)
          \/ Fchdir(d)
          \/ \E e \in Fds : Dup(d, e) \/ Dup2(d, e)
    \/ Pipe

Next == /\ hung = NoCall
        /\ calls < MaxCalls /\ calls' = calls + 1
        /\ (NameCall \/ PathCall \/ FdCall)

Spec == Init /\ [][Next]_vars
-----------------------------------------------------------------------------
(***************************************************************************)
(* Properties. An inode is what its slot says while it is in the cache, and*)
(* what the disk says otherwise.                                           *)
(***************************************************************************)
Inode(i) == IF \E s \in Slots : Ino(fs, s) = i
            THEN LET s == CHOOSE s \in Slots : Ino(fs, s) = i
                 IN  [mode |-> fs.slot[s].mode, nlink |-> fs.slot[s].nlink]
            ELSE fs.disk[i]

NamesOf(i) == NamesIn(fs.dirs, i)
Subdirs(d) == {n \in Names : fs.dirs[d][n] # 0 /\ Inode(fs.dirs[d][n]).mode = "dir"}
Held(s)    == fs.slot[s].ref > 0
FdsOf(f)   == {d \in Fds : ufd[d] = f}

Ops == {"open", "creat", "close", "dup", "dup2", "mknod", "unlink", "link", "rename",
        "pipe", "mkdir", "rmdir", "chdir", "fchdir", "stat"}

(* Type correctness; between calls nothing is returned and nothing spins.  *)
TypeOK ==
    /\ fs \in [slot : [Slots -> [ino : {0} \union Inodes, ref : 0..MaxRef, locked : BOOLEAN,
                                 mode : Modes, nlink : Nat]],
               list : Seq(Slots),
               disk : [Inodes -> [mode : Modes, nlink : Nat]],
               dirs : [Inodes -> [Names -> {0} \union Inodes]],
               win : Seq(Inodes), seen : Inodes, ip : {Null}, spin : {"no"}]
    /\ Len(fs.win) <= SB_FREE_INODE_MAX
    /\ file \in [Files -> [ip : Slots \union {Null}, count : Nat]]
    /\ ufd \in [Fds -> {0} \union Files]
    /\ cwd \in Slots \union {Null}
    /\ hung = NoCall \/ hung.op \in Ops
    /\ calls \in 0..MaxCalls

(* Whatever a name leads to exists: its inode is not free, its link count  *)
(* covers all its names, and its number is not up for allocation. The count*)
(* is changed apart from the entries, by four calls with their undo paths. *)
NamesAlive ==
    \A i \in Inodes :
        LET names == Cardinality(NamesOf(i))
        IN  names > 0 => /\ Inode(i).mode # "free"
                         /\ Inode(i).nlink >= names
                         /\ i \notin ToSet(fs.win)

(* A directory's link count covers its subdirectories: it is all that keeps*)
(* rmdir and rename from discarding a directory that holds others.         *)
SubdirsCounted ==
    \A d \in Inodes :
        Inode(d).mode = "dir" /\ (d = Root \/ NamesOf(d) # {}) =>
            Inode(d).nlink >= 2 + Cardinality(Subdirs(d))

(* A file table entry in use has as many descriptors as it counts, at least*)
(* one; an unused one has none.                                            *)
DescriptorsCounted ==
    \A f \in Files : /\ file[f].count = Cardinality(FdsOf(f))
                     /\ f \in InUse <=> FdsOf(f) # {}

(* An inode that file table entries or the current directory name is not   *)
(* released before the last of them: its slot has a reference for each, is *)
(* off the free list, and still holds an inode that has not been freed.    *)
InodesHeld ==
    \A s \in Slots :
        LET holders == Cardinality({f \in Files : file[f].ip = s}) + (IF cwd = s THEN 1 ELSE 0)
        IN  /\ fs.slot[s].ref >= holders
            /\ holders > 0 => fs.slot[s].mode # "free"

(* The cache is exact: a slot is on the free list, once, if and only if it *)
(* has no reference, and no inode is in two slots.                         *)
CacheExact ==
    /\ \A s \in Slots : s \in ToSet(fs.list) <=> ~Held(s)
    /\ Cardinality(ToSet(fs.list)) = Len(fs.list)
    /\ \A s, t \in Slots : s # t /\ Ino(fs, s) # 0 => Ino(fs, s) # Ino(fs, t)

(* What is written through is what is cached: between calls an inode that  *)
(* has a name has the same mode and link count in core and on the disk, so *)
(* that a slot given away and read back later loses nothing.               *)
CacheFresh ==
    \A s \in Slots :
        Ino(fs, s) # 0 /\ NamesOf(Ino(fs, s)) # {} =>
            fs.disk[Ino(fs, s)] = [mode |-> fs.slot[s].mode, nlink |-> fs.slot[s].nlink]

(* No call leaves an inode locked, on whatever path it returned: the next  *)
(* iget of it would spin.                                                  *)
LocksReleased == \A s \in Slots : ~fs.slot[s].locked

(* The inodes on the walk along a path, 0 last if it leads nowhere.        *)
Walk(path) ==
    LET start == IF path.abs THEN Root ELSE IF cwd = Null THEN 0 ELSE Ino(fs, cwd)
        step(w, n) == IF Last(w) = 0 THEN w ELSE Append(w, fs.dirs[Last(w)][n])
    IN  FoldLeft(step, <<start>>, path.at)
Target(path) == Last(Walk(path))

(* A call that never returns is one of these: a rename whose new path meets*)
(* an inode the rename has locked, the source or its directory; or a call  *)
(* that allocates an inode when the next number in the window is that of an*)
(* inode that has been freed (its mode on the disk is not cleared, so it is*)
(* put back each time), or when the cache has no slot left for it.         *)
HangsKnown ==
    CASE hung = NoCall -> TRUE
      [] hung.op = "rename" ->
             {Target(hung.old), Target(Parent(hung.old))}
                 \intersect ({Target(hung.new)} \union ToSet(Walk(Parent(hung.new)))) # {}
      [] hung.op \in {"open", "creat", "mknod", "mkdir", "pipe"} ->
             \/ fs.win # <<>> /\ ~IsFree(fs, Last(fs.win))
             \/ Len(fs.list) <= 1
      [] OTHER -> FALSE

(* The calls keep the promises of FileRules: an inode exists while a link  *)
(* or a reference is left.                                                 *)
Of(s) == IF s = Null THEN 0 ELSE Ino(fs, s)
Rules == INSTANCE FileRules WITH
             names <- fs.dirs, fds <- ufd, here <- Of(cwd),
             of    <- [f \in Files |-> Of(file[f].ip)],
             alive <- {i \in Inodes : \/ Inode(i).nlink > 0
                                      \/ \E s \in Slots : Ino(fs, s) = i /\ Held(s)}
Implements == Rules!Spec
=============================================================================
