------------------------------ MODULE Regions -------------------------------
(***************************************************************************)
(* The address spaces of the processes: the regions of 40_psa, their page  *)
(* tables, the frames of 02_MemMngnt, and the calls that build and take    *)
(* down what a process maps: execve, fork, exit, wait_pid, brk and mmap.   *)
(*                                                                         *)
(* One CPU runs one process at a time and a call is not preempted, so a    *)
(* call is one step. Sizes are in pages. A page table entry is the frame it*)
(* maps, 0 while it is not VALID. What is left out: the addresses, the     *)
(* inodes, the write and COW flags (no loader sets PTE_WRITE, so dupreg    *)
(* never sets COW), the switch of registers inside fork.                   *)
(***************************************************************************)
EXTENDS Integers, Sequences, SequencesExt, FiniteSets, FiniteSetsExt

CONSTANTS NPROC,            \* slots of the process table
          NREGION,          \* regions, and rows of the page table pool
          MAX_PAGES,        \* pages of a region
          MAX_REG_PER_PROC, \* regions a process attaches
          NFRAMES,          \* the physical frames
          Images,           \* the program files execve is given
          Maps,             \* the mappings mmap is asked for
          MaxCalls          \* bound: the calls made

Procs  == 1 .. NPROC
Regs   == 1 .. NREGION
Slots  == 1 .. MAX_REG_PER_PROC
Pages  == 1 .. MAX_PAGES
Frames == 1 .. NFRAMES
Types  == {"text", "data", "shmem"}

(* A program header: its type, the pages of the file image, those of them  *)
(* that can be read (-1 when the header itself cannot), and its size.      *)
Segments == [type : {"text", "data"}, file : Nat, good : Nat \union {-1},
             mem : Nat]
Mappings == [type : {"data", "shmem"}, pages : Nat \ {0}, good : Nat,
             load : BOOLEAN]

ASSUME RegionAssumption ==
    /\ {NPROC, NREGION, MAX_PAGES, MAX_REG_PER_PROC} \subseteq Nat \ {0}
    /\ NFRAMES \in Nat
    /\ Images \subseteq Seq(Segments)
    /\ Maps \subseteq Mappings
    /\ MaxCalls \in Nat

VARIABLES mem,    \* regions, page tables, frames and what processes attach
          pstate, \* p_state: "unused", "live" or "zombie"
          ppid,   \* the parent of a process, 0 once it is gone
          last,   \* the call just made
          calls   \* calls made so far

vars == <<mem, pstate, ppid, last, calls>>

Empty  == [reg |-> 0, type |-> "data", size |-> 0]      \* pr_valid = 0
Blank  == [i \in Slots |-> Empty]
Silent == [op |-> "none", p |-> 0, child |-> 0, ok |-> TRUE]

Taken(m, p) == {i \in Slots : m.preg[p][i].reg # 0}
Least(S)    == CHOOSE x \in S : \A y \in S : x <= y

Init ==
    /\ mem = [region |-> [r \in Regs |-> [table |-> 0, size |-> 0, ref |-> 0]],
              free |-> [r \in Regs |-> r], active |-> {},
              table |-> [r \in Regs |-> [j \in Pages |-> 0]], used |-> {},
              ring |-> [f \in Frames |-> f],
              preg |-> [p \in Procs |-> Blank]]
    /\ pstate = [p \in Procs |-> IF p = 1 THEN "live" ELSE "unused"]
    /\ ppid = [p \in Procs |-> 0]
    /\ last = Silent
    /\ calls = 0

-----------------------------------------------------------------------------
(* Regions and page tables                                                 *)

(* pgtbl_alloc: the lowest row that is not used, zeroed over n entries.    *)
PgtblAlloc(m, r, n) ==
    LET row == Least(Regs \ m.used) IN
    IF m.used = Regs THEN m ELSE
    [m EXCEPT !.used = @ \union {row}, !.region[r].table = row,
              !.table[row] = [j \in Pages |-> IF j <= n THEN 0 ELSE @[j]]]

(* allocreg: the head of the free list, which is not empty. *)
Allocreg(m) ==
    [m EXCEPT !.free = Tail(@), !.active = @ \union {Head(m.free)},
              !.region[Head(m.free)] = [table |-> 0, size |-> 0, ref |-> 0]]

(* Mutant: r_refcnt does not rise. *)
AttachUncounted(m, p, r, t) ==
    [m EXCEPT !.preg[p][Least(Slots \ Taken(m, p))] =
                  [reg |-> r, type |-> t, size |-> m.region[r].size]]

(* attachreg: the lowest empty slot of p, which has one. *)
Attachreg(m, p, r, t) ==
    [m EXCEPT !.preg[p][Least(Slots \ Taken(m, p))] =
                  [reg |-> r, type |-> t, size |-> m.region[r].size],
              !.region[r].ref = @ + 1]

(* Mutant: a region may be one page larger than its page table. *)
InBoundsOrOneMore(n) == n \in 0 .. MAX_PAGES + 1

(* The two bounds of growreg. *)
InBounds(n) == n \in 0 .. MAX_PAGES

(* growreg sets the size of the region and of the slot together. *)
Resize(m, p, i, n) ==
    [m EXCEPT !.region[m.preg[p][i].reg].size = n, !.preg[p][i].size = n]

(* growreg to n pages: refused out of bounds, and a region that had no page*)
(* table gets one.                                                         *)
Growreg(m, p, i, n) ==
    LET r == m.preg[p][i].reg
    IN  IF ~InBounds(n) THEN m
        ELSE IF n > 0 /\ m.region[r].table = 0
             THEN PgtblAlloc(Resize(m, p, i, n), r, n)
        ELSE Resize(m, p, i, n)

(* alloc_physical_page for the pages S of a row, lowest first, while the   *)
(* ring has frames.                                                        *)
Fill(m, row, S) ==
    LET rank(j) == Cardinality({x \in S : x <= j})
        got     == {j \in S : rank(j) <= Len(m.ring)}
    IN  [m EXCEPT !.ring = SubSeq(@, Cardinality(got) + 1, Len(@)),
                  !.table[row] = [j \in Pages |->
                      IF j \in got THEN m.ring[rank(j)] ELSE @[j]]]

(* Mutant: the frame whose read failed is put back without having left. *)
PutbackTwice(m) ==
    IF m.ring = <<>> THEN m ELSE [m EXCEPT !.ring = Append(@, Head(@))]

(* free_physical_page of the frame whose read failed: the head of the ring *)
(* goes to its tail.                                                       *)
Putback(m) ==
    IF m.ring = <<>> THEN m
    ELSE [m EXCEPT !.ring = Append(Tail(@), Head(@))]

(* loadreg of n pages of which `good' can be read, into a region just      *)
(* attached. REG_VALID is set when the result is Loaded.                   *)
Loadreg(m, p, i, n, good) ==
    LET grown == Growreg(m, p, i, n)
        row   == grown.region[m.preg[p][i].reg].table
        full  == Fill(grown, row, 1 .. Least({n, good}))
    IN  IF row = 0 THEN grown ELSE IF good < n THEN Putback(full) ELSE full

Loaded(m, p, i, n, good) ==
    /\ good >= n
    /\ n <= MAX_PAGES
    /\ n <= Len(m.ring)

(* Mutant: the row stays used. *)
FreeregKeepsRow(m, r) ==
    IF m.region[r].ref > 0 THEN m ELSE
    [m EXCEPT !.region[r].table = 0, !.active = @ \ {r}, !.free = <<r>> \o @]

(* freereg: refused while the region is attached. Its frames stay away from*)
(* the ring.                                                               *)
Freereg(m, r) ==
    IF m.region[r].ref > 0 THEN m ELSE
    [m EXCEPT !.used = @ \ {m.region[r].table}, !.region[r].table = 0,
              !.active = @ \ {r}, !.free = <<r>> \o @]

(* detachreg's r_refcnt--, if it is not 0. *)
Uncount(m, r) ==
    IF m.region[r].ref > 0 THEN [m EXCEPT !.region[r].ref = @ - 1] ELSE m

(* detachreg, which frees a region that nobody attaches any more. *)
Detachreg(m, p, i) ==
    LET r == m.preg[p][i].reg IN
    IF r = 0 THEN m
    ELSE [Freereg(Uncount(m, r), r) EXCEPT !.preg[p][i] = Empty]

(* dupreg's copy of the size. *)
SetSize(m, r, n) == [m EXCEPT !.region[r].size = n]

(* Mutant: the child shares the page table of its parent. *)
DupregSharesTable(m, r) ==
    LET new == Head(m.free)
    IN  [Allocreg(m) EXCEPT !.region[new].size = m.region[r].size,
                            !.region[new].table = m.region[r].table]

(* Mutant: the page table of the child is left empty. *)
DupregEmpty(m, r) ==
    LET new  == Head(m.free)
        size == m.region[r].size
        a    == SetSize(Allocreg(m), new, size)
    IN  IF m.region[r].table = 0 \/ size = 0 THEN a ELSE PgtblAlloc(a, new, size)

(* dupreg: a new region over the same frames; the free list is not empty.  *)
Dupreg(m, r) ==
    LET new  == Head(m.free)
        size == m.region[r].size
        a    == SetSize(Allocreg(m), new, size)
        b    == PgtblAlloc(a, new, size)
    IN  IF m.region[r].table = 0 \/ size = 0 THEN a ELSE
        [b EXCEPT !.table[b.region[new].table] = [j \in Pages |->
             IF j <= size THEN m.table[m.region[r].table][j] ELSE @[j]]]

-----------------------------------------------------------------------------
(* execve                                                                  *)

(* zero_tail: grow past the file image and give each page there that is not*)
(* VALID a zeroed frame.                                                   *)
Tailed(m, p, i, seg) ==
    Growreg(m, p, i, m.preg[p][i].size + seg.mem - seg.file)

Missing(m, p, i, seg) ==
    LET r == m.region[m.preg[p][i].reg]
    IN  {j \in (seg.file + 1) .. Least({seg.mem, r.size}) :
             m.table[r.table][j] = 0}

(* A load in progress: the memory, the slots attached so far, oldest first *)
(* (g_exec_added), and whether every step succeeded.                       *)
ZeroTail(s, p, i, seg) ==
    LET g    == Tailed(s.m, p, i, seg)
        row  == g.region[g.preg[p][i].reg].table
        need == Missing(g, p, i, seg)
    IN  IF seg.mem <= seg.file THEN s
        ELSE IF row = 0 THEN [s EXCEPT !.m = g, !.ok = FALSE]
        ELSE [s EXCEPT !.m = Fill(g, row, need),
                       !.ok = Cardinality(need) <= Len(g.ring)]

LoadSegment(s, p, seg) ==
    LET a == Allocreg(s.m)
        i == Least(Slots \ Taken(a, p))
        b == Attachreg(a, p, Head(s.m.free), seg.type)
        c == IF seg.file = 0 THEN b ELSE Loadreg(b, p, i, seg.file, seg.good)
        t == [s EXCEPT !.m = c, !.added = Append(@, i)]
    IN  IF seg.good < 0 THEN [s EXCEPT !.ok = FALSE]
        ELSE IF seg.file = 0 /\ seg.mem = 0 THEN s
        ELSE IF s.m.free = <<>> THEN [s EXCEPT !.ok = FALSE]
        ELSE IF Taken(a, p) = Slots THEN [s EXCEPT !.m = a, !.ok = FALSE]
        ELSE IF seg.file > 0 /\ ~Loaded(b, p, i, seg.file, seg.good)
             THEN [t EXCEPT !.ok = FALSE]
        ELSE ZeroTail(t, p, i, seg)

(* load_segments: header by header until one fails. *)
NextSegment(s, p, seg) == IF s.ok THEN LoadSegment(s, p, seg) ELSE s

LoadSegments(m, p, image) ==
    LET after[k \in 0 .. Len(image)] ==
            IF k = 0 THEN [m |-> m, added |-> <<>>, ok |-> TRUE]
            ELSE NextSegment(after[k - 1], p, image[k])
    IN  after[Len(image)]

(* attach_failed: detach what this call attached, newest first. *)
AttachFailed(m, p, added) ==
    LET after[k \in 0 .. Len(added)] ==
            IF k = 0 THEN m
            ELSE Detachreg(after[k - 1], p, added[Len(added) - k + 1])
    IN  after[Len(added)]

-----------------------------------------------------------------------------
(* The calls                                                               *)

Made(op, p, child, ok) ==
    /\ calls < MaxCalls
    /\ calls' = calls + 1
    /\ last' = [op |-> op, p |-> p, child |-> child, ok |-> ok]

Live == {p \in Procs : pstate[p] = "live"}

(* The old image stays attached: execve adds to what the process maps. *)
Exec(p, image) ==
    LET s == LoadSegments(mem, p, image) IN
    /\ mem' = IF s.ok THEN s.m ELSE AttachFailed(s.m, p, s.added)
    /\ UNCHANGED <<pstate, ppid>>
    /\ Made("exec", p, 0, s.ok)

(* fork_regions: every region the parent has attached is duplicated into   *)
(* the child, in slot order, until there is no region left.                *)
ForkRegion(s, p, child, i) ==
    IF ~s.ok \/ s.m.preg[p][i].reg = 0 THEN s
    ELSE IF s.m.free = <<>> THEN [s EXCEPT !.ok = FALSE]
    ELSE [s EXCEPT !.m = Attachreg(Dupreg(s.m, s.m.preg[p][i].reg), child,
                                   Head(s.m.free), s.m.preg[p][i].type)]

ForkRegions(m, p, child) ==
    LET after[k \in 0 .. MAX_REG_PER_PROC] ==
            IF k = 0 THEN [m |-> m, ok |-> TRUE]
            ELSE ForkRegion(after[k - 1], p, child, k)
    IN  after[MAX_REG_PER_PROC]

(* Mutant: only the first slot is unwound. *)
ForkUndoFirst(m, child) == Detachreg(m, child, 1)

(* The unwinding: detach every region of the child, in slot order. *)
ForkUndo(m, child) ==
    LET after[k \in 0 .. MAX_REG_PER_PROC] ==
            IF k = 0 THEN m ELSE Detachreg(after[k - 1], child, k)
    IN  after[MAX_REG_PER_PROC]

(* The u area of the child's slot is cleared first, and with it what the   *)
(* slot's last process had attached.                                       *)
Fork(p) ==
    LET child == Least({c \in Procs : pstate[c] = "unused"})
        s     == ForkRegions([mem EXCEPT !.preg[child] = Blank], p, child)
    IN  /\ \E c \in Procs : pstate[c] = "unused"
        /\ mem' = IF s.ok THEN s.m ELSE ForkUndo(s.m, child)
        /\ pstate' = [pstate EXCEPT ![child] = IF s.ok THEN "live" ELSE @]
        /\ ppid' = [ppid EXCEPT ![child] = IF s.ok THEN p ELSE @]
        /\ Made("fork", p, child, s.ok)

(* exit makes the process a zombie; it detaches nothing. *)
Exit(p) ==
    /\ pstate' = [pstate EXCEPT ![p] = "zombie"]
    /\ UNCHANGED <<mem, ppid>>
    /\ Made("exit", p, 0, TRUE)

(* wait_pid frees the table entry of a child that is a zombie; the children*)
(* of that child have no parent any more.                                  *)
Wait(p) ==
    \E z \in Procs :
        /\ pstate[z] = "zombie" /\ ppid[z] = p
        /\ pstate' = [pstate EXCEPT ![z] = "unused"]
        /\ ppid' = [c \in Procs |-> IF c = z \/ ppid[c] = z THEN 0 ELSE ppid[c]]
        /\ UNCHANGED mem
        /\ Made("wait", p, z, TRUE)

(* brk grows or shrinks the first data region; it returns the old break    *)
(* whether growreg refused or not.                                         *)
Brk(p, n) ==
    LET data == {i \in Taken(mem, p) : mem.preg[p][i].type = "data"} IN
    /\ data # {}
    /\ mem' = Growreg(mem, p, Least(data), n)
    /\ UNCHANGED <<pstate, ppid>>
    /\ Made("brk", p, 0, TRUE)

Mmap(p, map) ==
    LET a == Allocreg(mem)
        r == Head(mem.free)
        i == Least(Slots \ Taken(a, p))
        b == Attachreg(a, p, r, map.type)
        full == Taken(mem, p) = Slots
    IN  /\ mem.free # <<>>
        /\ mem' = IF full THEN Freereg(a, r)
                  ELSE IF map.load THEN Loadreg(b, p, i, map.pages, map.good)
                  ELSE b
        /\ UNCHANGED <<pstate, ppid>>
        /\ Made("mmap", p, 0, ~full)

Next ==
    \E p \in Live :
        \/ \E image \in Images : Exec(p, image)
        \/ Fork(p)
        \/ Exit(p)
        \/ Wait(p)
        \/ \E n \in 0 .. MAX_PAGES + 1 : Brk(p, n)
        \/ \E map \in Maps : Mmap(p, map)

Spec == Init /\ [][Next]_vars

-----------------------------------------------------------------------------
(* Properties                                                              *)

(* The variables have their types: no region or attachment is larger than  *)
(* a page table, and no entry names a frame that does not exist.           *)
TypeOK ==
    /\ mem.region \in [Regs -> [table : {0} \union Regs,
                                size : 0 .. MAX_PAGES, ref : Nat]]
    /\ mem.free \in Seq(Regs) /\ mem.active \subseteq Regs
    /\ mem.table \in [Regs -> [Pages -> {0} \union Frames]]
    /\ mem.used \subseteq Regs
    /\ mem.ring \in Seq(Frames)
    /\ mem.preg \in [Procs -> [Slots -> [reg : {0} \union Regs, type : Types,
                                         size : 0 .. MAX_PAGES]]]
    /\ pstate \in [Procs -> {"unused", "live", "zombie"}]
    /\ ppid \in [Procs -> {0} \union Procs]
    /\ calls \in 0 .. MaxCalls

(* The page frame an address space has at page j of slot i, 0 for none. *)
FrameAt(m, p, i, j) ==
    LET r == m.region[m.preg[p][i].reg]
    IN  IF j > r.size \/ r.table = 0 THEN 0 ELSE m.table[r.table][j]

(* What process p maps: a segment for every slot it has taken. *)
Space(m, p) ==
    [i \in Taken(m, p) |->
        [type |-> m.preg[p][i].type, size |-> m.preg[p][i].size,
         frames |-> [j \in Pages |-> FrameAt(m, p, i, j)]]]

(* The segments of p in the order of their slots. *)
Layout(m, p) ==
    LET slots == SetToSortSeq(Taken(m, p), <)
    IN  [k \in DOMAIN slots |-> Space(m, p)[slots[k]]]

Attachments(m, r) == {at \in Procs \X Slots : m.preg[at[1]][at[2]].reg = r}

(* Every region is on exactly one of the free and active lists, once; one  *)
(* that a process attaches is active, knows that single attachment (r_refcnt*)
(* of allocreg, attachreg and detachreg) and has the size its pregion caches.*)
RegionsExact ==
    /\ IsInjective(mem.free)
    /\ mem.active = Regs \ Range(mem.free)
    /\ \A p \in Procs : \A i \in Taken(mem, p) :
           LET r == mem.preg[p][i].reg IN
           /\ r \in mem.active
           /\ mem.region[r].ref = Cardinality(Attachments(mem, r))
           /\ mem.region[r].size = mem.preg[p][i].size

(* The used rows of the pool are the page tables of the active regions, one*)
(* row each, so that pgtbl_alloc never runs out before allocreg does; and a*)
(* region that has pages has a table.                                      *)
TablesExact ==
    LET tabled == {r \in mem.active : mem.region[r].table # 0} IN
    /\ mem.used = {mem.region[r].table : r \in tabled}
    /\ \A r, s \in tabled : mem.region[r].table = mem.region[s].table => r = s
    /\ \A r \in mem.active : mem.region[r].size > 0 => r \in tabled

(* A frame on the free ring is there once, and no page table row maps it:  *)
(* alloc_physical_page cannot hand out a frame a process reads.            *)
FramesHeld ==
    /\ IsInjective(mem.ring)
    /\ \A row \in Regs, j \in Pages : mem.table[row][j] \notin Range(mem.ring)

(* A call changes what no other process maps, the child of a fork aside:   *)
(* page tables of two processes never share a row.                         *)
Isolated ==
    [][\A p \in Procs : (pstate[p] = "live" /\ p \notin {last'.p, last'.child})
           => Space(mem', p) = Space(mem, p)]_vars

(* A fork that runs out of regions takes every duplicate back, with its    *)
(* page table, and leaves the parent's mapping alone; an execve that fails *)
(* leaves its caller mapping what it did.                                  *)
FailureUndone ==
    [][calls' # calls /\ ~last'.ok =>
           /\ Space(mem', last'.p) = Space(mem, last'.p)
           /\ last'.op = "fork" =>
                  /\ mem'.active = mem.active /\ mem'.used = mem.used
                  /\ Taken(mem', last'.child) = {}]_vars

(* After fork the child maps the segments of its parent, in their order,   *)
(* over the same frames, and the parent maps what it did.                  *)
ForkCopies ==
    [][last'.op = "fork" /\ last'.ok /\ calls' # calls =>
           /\ Layout(mem', last'.child) = Layout(mem, last'.p)
           /\ Space(mem', last'.p) = Space(mem, last'.p)]_vars

(* What zero_tail says of .bss, that it "must read as zero rather than as  *)
(* whatever the frame held": every page a successful execve adds maps a    *)
(* frame that was free before it, and was filled or zeroed by it.          *)
NewPagesFresh ==
    [][last'.op = "exec" /\ last'.ok /\ calls' # calls =>
           \A i \in Taken(mem', last'.p) \ Taken(mem, last'.p), j \in Pages :
               FrameAt(mem', last'.p, i, j) \in {0} \union Range(mem.ring)]_vars
=============================================================================
