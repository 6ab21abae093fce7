--------------------------- MODULE Regions_proofs ---------------------------
(***************************************************************************)
(* Proofs about Regions, for any number of processes, regions, pages,      *)
(* frames, programs and mappings: counts, lists and page tables are exact, *)
(* no free frame is mapped, the spaces of the processes are apart, a call  *)
(* that fails is undone, and fork copies.                                  *)
(*                                                                         *)
(* A call is a composition of the region operations. Exact is the invariant*)
(* of the memory, a predicate of a state of it; each operation is shown to *)
(* keep it, then each loop of a call, then each action. The second half    *)
(* follows what a call leaves alone: Around says it of one operation,      *)
(* Beside of a call in progress seen from the memory at its start, and     *)
(* CallOf of a call that has returned.                                     *)
(***************************************************************************)
EXTENDS Regions, ListLemmas

Row    == [Pages -> {0} \union Frames]
Region == [table : {0} \union Regs, size : 0 .. MAX_PAGES, ref : Nat]
Preg   == [reg : {0} \union Regs, type : Types, size : 0 .. MAX_PAGES]

Memory ==
    [region : [Regs -> Region], free : Seq(Regs), active : SUBSET Regs,
     table : [Regs -> Row], used : SUBSET Regs, ring : Seq(Frames),
     preg : [Procs -> [Slots -> Preg]]]

(* The lists: a region is on one of them, once. *)
ListsExact(m) ==
    /\ IsInjective(m.free)
    /\ m.active = Regs \ Range(m.free)

(* An attached region is active, attached once, and counted. *)
AttachExact(m) ==
    \A p \in Procs, i \in Slots : m.preg[p][i].reg # 0 =>
        /\ m.preg[p][i].reg \in m.active
        /\ m.region[m.preg[p][i].reg].ref = 1
        /\ m.region[m.preg[p][i].reg].size = m.preg[p][i].size
        /\ \A q \in Procs, j \in Slots :
               m.preg[q][j].reg = m.preg[p][i].reg => q = p /\ j = i

(* A used row is the table of one active region. *)
RowsExact(m) ==
    /\ m.used = {m.region[r].table :
                     r \in {x \in m.active : m.region[x].table # 0}}
    /\ \A r, s \in m.active : m.region[r].table = m.region[s].table
                              /\ m.region[r].table # 0 => r = s

(* An active region that has pages has a table; region x may lack it. *)
TabledBut(m, x) ==
    \A r \in m.active \ {x} : m.region[r].size > 0 => m.region[r].table # 0

(* The ring holds no frame twice and none that a row maps. *)
RingExact(m) ==
    /\ IsInjective(m.ring)
    /\ \A row \in Regs, j \in Pages : m.table[row][j] \notin Range(m.ring)

(* What the region operations keep, attachments aside; and the invariant.  *)
PoolExact(m) == /\ m \in Memory
                /\ ListsExact(m) /\ RowsExact(m) /\ RingExact(m)
                /\ TabledBut(m, 0)
Exact(m) == PoolExact(m) /\ AttachExact(m)

(* Region r has just been allocated: nobody attaches it. *)
Fresh(m, r) == /\ r \in m.active
               /\ m.region[r].ref = 0
               /\ \A p \in Procs, i \in Slots : m.preg[p][i].reg # r

----------------------------------------------------------------------------
(* The memory as a record: the operations replace components of it. *)
SetRegion(m, X) == [m EXCEPT !.region = X]
SetFree(m, X) == [m EXCEPT !.free = X]
SetActive(m, X) == [m EXCEPT !.active = X]
SetTable(m, X) == [m EXCEPT !.table = X]
SetUsed(m, X) == [m EXCEPT !.used = X]
SetRing(m, X) == [m EXCEPT !.ring = X]
SetPreg(m, X) == [m EXCEPT !.preg = X]

(* The components of a memory. *)
LEMMA MemFields ==
    ASSUME NEW m \in Memory
    PROVE  /\ m.region \in [Regs -> Region] /\ m.free \in Seq(Regs)
           /\ m.active \in SUBSET Regs /\ m.table \in [Regs -> Row]
           /\ m.used \in SUBSET Regs /\ m.ring \in Seq(Frames)
           /\ m.preg \in [Procs -> [Slots -> Preg]]
  BY DEF Memory

(* Replacing region. *)
LEMMA SetRegionMemory ==
    ASSUME NEW m \in Memory, NEW X \in [Regs -> Region]
    PROVE  LET b == SetRegion(m, X) IN
           /\ b \in Memory /\ b.region = X
           /\ b.free = m.free /\ b.active = m.active /\ b.table = m.table
           /\ b.used = m.used /\ b.ring = m.ring /\ b.preg = m.preg
  BY DEF Memory, SetRegion

(* Replacing free. *)
LEMMA SetFreeMemory ==
    ASSUME NEW m \in Memory, NEW X \in Seq(Regs)
    PROVE  LET b == SetFree(m, X) IN
           /\ b \in Memory /\ b.free = X
           /\ b.region = m.region /\ b.active = m.active /\ b.table = m.table
           /\ b.used = m.used /\ b.ring = m.ring /\ b.preg = m.preg
  BY DEF Memory, SetFree

(* Replacing active. *)
LEMMA SetActiveMemory ==
    ASSUME NEW m \in Memory, NEW X \in SUBSET Regs
    PROVE  LET b == SetActive(m, X) IN
           /\ b \in Memory /\ b.active = X
           /\ b.region = m.region /\ b.free = m.free /\ b.table = m.table
           /\ b.used = m.used /\ b.ring = m.ring /\ b.preg = m.preg
  BY DEF Memory, SetActive

(* Replacing table. *)
LEMMA SetTableMemory ==
    ASSUME NEW m \in Memory, NEW X \in [Regs -> Row]
    PROVE  LET b == SetTable(m, X) IN
           /\ b \in Memory /\ b.table = X
           /\ b.region = m.region /\ b.free = m.free /\ b.active = m.active
           /\ b.used = m.used /\ b.ring = m.ring /\ b.preg = m.preg
  BY DEF Memory, SetTable

(* Replacing used. *)
LEMMA SetUsedMemory ==
    ASSUME NEW m \in Memory, NEW X \in SUBSET Regs
    PROVE  LET b == SetUsed(m, X) IN
           /\ b \in Memory /\ b.used = X
           /\ b.region = m.region /\ b.free = m.free /\ b.active = m.active
           /\ b.table = m.table /\ b.ring = m.ring /\ b.preg = m.preg
  BY DEF Memory, SetUsed

(* Replacing ring. *)
LEMMA SetRingMemory ==
    ASSUME NEW m \in Memory, NEW X \in Seq(Frames)
    PROVE  LET b == SetRing(m, X) IN
           /\ b \in Memory /\ b.ring = X
           /\ b.region = m.region /\ b.free = m.free /\ b.active = m.active
           /\ b.table = m.table /\ b.used = m.used /\ b.preg = m.preg
  BY DEF Memory, SetRing

(* Replacing preg. *)
LEMMA SetPregMemory ==
    ASSUME NEW m \in Memory, NEW X \in [Procs -> [Slots -> Preg]]
    PROVE  LET b == SetPreg(m, X) IN
           /\ b \in Memory /\ b.preg = X
           /\ b.region = m.region /\ b.free = m.free /\ b.active = m.active
           /\ b.table = m.table /\ b.used = m.used /\ b.ring = m.ring
  BY DEF Memory, SetPreg

(* pgtbl_alloc writes a row, the mark that it is used and a region. *)
LEMMA PgtblAllocWrites ==
    ASSUME NEW m \in Memory, NEW r \in Regs, NEW n \in Nat, m.used # Regs,
           Least(Regs \ m.used) \in Regs
    PROVE  LET b   == PgtblAlloc(m, r, n)
               row == Least(Regs \ m.used)
               new == [j \in Pages |-> IF j <= n THEN 0 ELSE m.table[row][j]]
           IN  /\ b \in Memory
               /\ b.region = [m.region EXCEPT ![r] = [m.region[r] EXCEPT !.table = row]]
               /\ b.table = [m.table EXCEPT ![row] = new]
               /\ b.used = m.used \union {row}
               /\ b.free = m.free /\ b.active = m.active /\ b.ring = m.ring
               /\ b.preg = m.preg
  <1> DEFINE row == Least(Regs \ m.used)
             new == [j \in Pages |-> IF j <= n THEN 0 ELSE m.table[row][j]]
             R == [m.region EXCEPT ![r] = [m.region[r] EXCEPT !.table = row]]
             T == [m.table EXCEPT ![row] = new]
             U == m.used \union {row}
  <1>1. PgtblAlloc(m, r, n) = [m EXCEPT !.used = U, !.region = R, !.table = T]
    BY Zenon DEF PgtblAlloc
  <1>2. R \in [Regs -> Region] /\ T \in [Regs -> Row] /\ U \in SUBSET Regs
    <2> HIDE DEF row
    <2>1. R \in [Regs -> Region]
      BY MemFields DEF Region, row
    <2>2. new \in Row
      BY MemFields DEF Row, row
    <2> HIDE DEF new
    <2>3. T \in [Regs -> Row]
      BY <2>2, MemFields
    <2> QED BY <2>1, <2>3, MemFields DEF row
  <1> HIDE DEF R, T, U
  <1>3. PgtblAlloc(m, r, n) = SetTable(SetRegion(SetUsed(m, U), R), T)
    BY <1>1 DEF SetUsed, SetRegion, SetTable
  <1>4. LET b == SetTable(SetRegion(SetUsed(m, U), R), T)
        IN  /\ b \in Memory /\ b.region = R /\ b.table = T /\ b.used = U
            /\ b.free = m.free /\ b.active = m.active /\ b.ring = m.ring
            /\ b.preg = m.preg
    BY <1>2, SetUsedMemory, SetRegionMemory, SetTableMemory
  <1> QED BY <1>3, <1>4 DEF R, T, U

(* allocreg moves the head of the free list and writes its region. *)
LEMMA AllocregWrites ==
    ASSUME NEW m \in Memory, m.free # <<>>
    PROVE  LET a == Allocreg(m)
               r == Head(m.free)
           IN  /\ a \in Memory /\ r \in Regs
               /\ a.region = [m.region EXCEPT ![r] = [table |-> 0, size |-> 0, ref |-> 0]]
               /\ a.free = Tail(m.free)
               /\ a.active = m.active \union {r}
               /\ a.table = m.table /\ a.used = m.used /\ a.ring = m.ring
               /\ a.preg = m.preg
  <1> DEFINE r == Head(m.free)
             R == [m.region EXCEPT ![r] = [table |-> 0, size |-> 0, ref |-> 0]]
             F == Tail(m.free)
             A == m.active \union {r}
  <1>1. Allocreg(m) = [m EXCEPT !.free = F, !.active = A, !.region = R]
    BY Zenon DEF Allocreg
  <1>2. r \in Regs /\ R \in [Regs -> Region] /\ F \in Seq(Regs) /\ A \in SUBSET Regs
    <2>1. r \in Regs /\ F \in Seq(Regs)
      BY MemFields
    <2>2. [table |-> 0, size |-> 0, ref |-> 0] \in Region
      BY RegionAssumption DEF Region
    <2> HIDE DEF r, F
    <2> QED BY <2>1, <2>2, MemFields
  <1> HIDE DEF R, F, A
  <1>3. Allocreg(m) = SetRegion(SetActive(SetFree(m, F), A), R)
    BY <1>1 DEF SetFree, SetActive, SetRegion
  <1>4. LET a == SetRegion(SetActive(SetFree(m, F), A), R)
        IN  /\ a \in Memory /\ a.region = R /\ a.free = F /\ a.active = A
            /\ a.table = m.table /\ a.used = m.used /\ a.ring = m.ring
            /\ a.preg = m.preg
    <2> HIDE DEF r
    <2>1. SetFree(m, F) \in Memory
      BY <1>2, SetFreeMemory
    <2>2. SetActive(SetFree(m, F), A) \in Memory
      BY <1>2, <2>1, SetActiveMemory
    <2> QED BY <1>2, <2>1, <2>2, SetFreeMemory, SetActiveMemory, SetRegionMemory
  <1> QED BY <1>2, <1>3, <1>4 DEF R, F, A

(* attachreg writes a slot and counts it. *)
LEMMA AttachregWrites ==
    ASSUME NEW m \in Memory, NEW p \in Procs, NEW r \in Regs, NEW t \in Types,
           Least(Slots \ Taken(m, p)) \in Slots
    PROVE  LET b == Attachreg(m, p, r, t)
               i == Least(Slots \ Taken(m, p))
               e == [reg |-> r, type |-> t, size |-> m.region[r].size]
           IN  /\ b \in Memory
               /\ b.region[r] = [m.region[r] EXCEPT !.ref = m.region[r].ref + 1]
               /\ \A x \in Regs : x # r => b.region[x] = m.region[x]
               /\ b.preg[p][i] = e
               /\ \A j \in Slots : j # i => b.preg[p][j] = m.preg[p][j]
               /\ \A q \in Procs : q # p => b.preg[q] = m.preg[q]
               /\ b.free = m.free /\ b.active = m.active /\ b.table = m.table
               /\ b.used = m.used /\ b.ring = m.ring
  <1> DEFINE i == Least(Slots \ Taken(m, p))
             e == [reg |-> r, type |-> t, size |-> m.region[r].size]
             g == [m.region[r] EXCEPT !.ref = m.region[r].ref + 1]
             R == [m.region EXCEPT ![r] = g]
             P == [m.preg EXCEPT ![p] = [m.preg[p] EXCEPT ![i] = e]]
  <1>1. Attachreg(m, p, r, t) = [m EXCEPT !.preg = P, !.region = R]
    BY Zenon DEF Attachreg
  <1>2. R \in [Regs -> Region] /\ P \in [Procs -> [Slots -> Preg]]
    <2>1. m.region[r] \in Region
      BY MemFields
    <2>2. g \in Region /\ e \in Preg
      BY <2>1 DEF Region, Preg
    <2> HIDE DEF e, g
    <2>4. R \in [Regs -> Region]
      BY <2>2, MemFields
    <2>3. [m.preg[p] EXCEPT ![i] = e] \in [Slots -> Preg]
      BY <2>2, MemFields
    <2> QED BY <2>3, <2>4, MemFields
  <1> HIDE DEF R, P
  <1>3. Attachreg(m, p, r, t) = SetRegion(SetPreg(m, P), R)
    BY <1>1 DEF SetRegion, SetPreg
  <1>4. LET b == SetRegion(SetPreg(m, P), R)
        IN  /\ b \in Memory /\ b.region = R /\ b.preg = P
            /\ b.free = m.free /\ b.active = m.active /\ b.table = m.table
            /\ b.used = m.used /\ b.ring = m.ring
    BY <1>2, SetPregMemory, SetRegionMemory
  <1> HIDE DEF g, e
  <1>5. /\ R[r] = g
        /\ \A x \in Regs : x # r => R[x] = m.region[x]
    BY MemFields DEF R
  <1>6. /\ P[p][i] = e
        /\ \A j \in Slots : j # i => P[p][j] = m.preg[p][j]
        /\ \A q \in Procs : q # p => P[q] = m.preg[q]
    BY MemFields DEF P
  <1>7. LET b == Attachreg(m, p, r, t)
        IN  /\ b \in Memory /\ b.region = R /\ b.preg = P
            /\ b.free = m.free /\ b.active = m.active /\ b.table = m.table
            /\ b.used = m.used /\ b.ring = m.ring
    BY <1>3, <1>4
  <1> QED BY <1>5, <1>6, <1>7 DEF g, e

(* growreg, before it looks for a page table, writes two sizes. *)
LEMMA ResizeWrites ==
    ASSUME NEW m \in Memory, NEW p \in Procs, NEW i \in Slots,
           m.preg[p][i].reg \in Regs, NEW n \in 0 .. MAX_PAGES
    PROVE  LET b == Resize(m, p, i, n)
               r == m.preg[p][i].reg
           IN  /\ b \in Memory
               /\ b.region[r].size = n /\ b.region[r].ref = m.region[r].ref
               /\ b.region[r].table = m.region[r].table
               /\ \A x \in Regs : x # r => b.region[x] = m.region[x]
               /\ b.preg[p][i].size = n /\ b.preg[p][i].reg = r
               /\ \A j \in Slots : j # i => b.preg[p][j] = m.preg[p][j]
               /\ \A q \in Procs : q # p => b.preg[q] = m.preg[q]
               /\ b.free = m.free /\ b.active = m.active /\ b.table = m.table
               /\ b.used = m.used /\ b.ring = m.ring
  <1> DEFINE r == m.preg[p][i].reg
             g == [m.region[r] EXCEPT !.size = n]
             e == [m.preg[p][i] EXCEPT !.size = n]
             R == [m.region EXCEPT ![r] = g]
             P == [m.preg EXCEPT ![p] = [m.preg[p] EXCEPT ![i] = e]]
             b == Resize(m, p, i, n)
  <1>1. b = [m EXCEPT !.region = R, !.preg = P]
    BY Zenon DEF Resize
  <1>2. m.region[r] \in Region /\ m.preg[p][i] \in Preg
    BY MemFields
  <1>3. /\ g \in Region /\ g.size = n /\ g.ref = m.region[r].ref
        /\ g.table = m.region[r].table
    BY <1>2 DEF Region
  <1>4. e \in Preg /\ e.size = n /\ e.reg = r
    BY <1>2 DEF Preg
  <1> HIDE DEF b, g, e
  <1>5. /\ R \in [Regs -> Region] /\ R[r] = g
        /\ \A x \in Regs : x # r => R[x] = m.region[x]
    BY <1>3, MemFields
  <1>6. /\ P \in [Procs -> [Slots -> Preg]] /\ P[p][i] = e
        /\ \A j \in Slots : j # i => P[p][j] = m.preg[p][j]
        /\ \A q \in Procs : q # p => P[q] = m.preg[q]
    <2>1. [m.preg[p] EXCEPT ![i] = e] \in [Slots -> Preg]
      BY <1>4, MemFields
    <2> QED BY <2>1, MemFields
  <1> HIDE DEF R, P
  <1>7. b = SetPreg(SetRegion(m, R), P)
    BY <1>1 DEF SetRegion, SetPreg
  <1>8. /\ b \in Memory /\ b.region = R /\ b.preg = P
        /\ b.free = m.free /\ b.active = m.active /\ b.table = m.table
        /\ b.used = m.used /\ b.ring = m.ring
    BY <1>5, <1>6, <1>7, SetPregMemory, SetRegionMemory
  <1> QED BY <1>3, <1>4, <1>5, <1>6, <1>8 DEF b

(* freereg of a region that is not attached. *)
LEMMA FreeregWrites ==
    ASSUME NEW m \in Memory, NEW r \in Regs, ~(m.region[r].ref > 0)
    PROVE  LET b == Freereg(m, r)
           IN  /\ b \in Memory
               /\ b.region = [m.region EXCEPT ![r] = [m.region[r] EXCEPT !.table = 0]]
               /\ b.free = <<r>> \o m.free
               /\ b.active = m.active \ {r}
               /\ b.used = m.used \ {m.region[r].table}
               /\ b.table = m.table /\ b.ring = m.ring /\ b.preg = m.preg
  <1> DEFINE R == [m.region EXCEPT ![r] = [m.region[r] EXCEPT !.table = 0]]
             F == <<r>> \o m.free
             A == m.active \ {r}
             U == m.used \ {m.region[r].table}
  <1>1. Freereg(m, r) = [m EXCEPT !.used = U, !.region = R, !.active = A, !.free = F]
    BY Zenon DEF Freereg
  <1>2. /\ R \in [Regs -> Region] /\ F \in Seq(Regs)
        /\ A \in SUBSET Regs /\ U \in SUBSET Regs
    <2>1. R \in [Regs -> Region]
      BY MemFields DEF Region
    <2>2. F \in Seq(Regs)
      BY MemFields
    <2> QED BY <2>1, <2>2, MemFields
  <1> HIDE DEF R, F, A, U
  <1>3. Freereg(m, r) = SetFree(SetActive(SetRegion(SetUsed(m, U), R), A), F)
    BY <1>1 DEF SetUsed, SetRegion, SetActive, SetFree
  <1>4. LET b == SetFree(SetActive(SetRegion(SetUsed(m, U), R), A), F)
        IN  /\ b \in Memory /\ b.region = R /\ b.free = F /\ b.active = A
            /\ b.used = U /\ b.table = m.table /\ b.ring = m.ring
            /\ b.preg = m.preg
    BY <1>2, SetUsedMemory, SetRegionMemory, SetActiveMemory, SetFreeMemory
  <1> QED BY <1>3, <1>4 DEF R, F, A, U

----------------------------------------------------------------------------
(* Numbers and sequences                                                   *)

(* A set of naturals that is not empty contains its least member. *)
LEMMA LeastIn ==
    ASSUME NEW S \in SUBSET Nat, S # {}
    PROVE  Least(S) \in S /\ \A y \in S : Least(S) <= y
  <1>1. \E x \in S : \A y \in S : x <= y
    BY LeastNatural
  <1> QED BY <1>1 DEF Least

(* The least empty slot of a process that has one. *)
LEMMA LeastSlot ==
    ASSUME NEW m, NEW p, Taken(m, p) # Slots
    PROVE  LET i == Least(Slots \ Taken(m, p))
           IN  /\ i \in Slots /\ i \notin Taken(m, p)
               /\ \A j \in Slots \ Taken(m, p) : i <= j
  <1>1. Taken(m, p) \subseteq Slots
    BY DEF Taken
  <1>2. Slots \ Taken(m, p) # {} /\ Slots \ Taken(m, p) \in SUBSET Nat
    <2>1. Slots \in SUBSET Nat
      BY DEF Slots
    <2> QED BY <1>1, <2>1
  <1> QED BY <1>2, LeastIn

(* The head of an injective sequence is not in its tail. *)
LEMMA HeadTail ==
    ASSUME NEW T, NEW s \in Seq(T), s # <<>>, IsInjective(s)
    PROVE  /\ Head(s) \in Range(s)
           /\ Tail(s) \in Seq(T) /\ IsInjective(Tail(s))
           /\ Range(Tail(s)) = Range(s) \ {Head(s)}
  <1>1. /\ Len(s) \in Nat \ {0} /\ DOMAIN s = 1 .. Len(s)
        /\ Tail(s) \in Seq(T) /\ Len(Tail(s)) = Len(s) - 1
        /\ DOMAIN Tail(s) = 1 .. (Len(s) - 1)
        /\ Head(s) = s[1] /\ \A k \in 1 .. (Len(s) - 1) : Tail(s)[k] = s[k + 1]
    OBVIOUS
  <1>2. Head(s) \in Range(s)
    BY <1>1 DEF Range
  <1>3. IsInjective(Tail(s))
    BY <1>1 DEF IsInjective
  <1>4. Range(Tail(s)) \subseteq Range(s) \ {Head(s)}
    BY <1>1 DEF Range, IsInjective
  <1>5. ASSUME NEW x \in Range(s) \ {Head(s)} PROVE x \in Range(Tail(s))
    <2>1. PICK k \in 1 .. Len(s) : x = s[k]
      BY <1>1 DEF Range
    <2>2. k - 1 \in 1 .. (Len(s) - 1) /\ Tail(s)[k - 1] = x
      BY <1>1, <1>5, <2>1
    <2> QED BY <1>1, <2>2 DEF Range
  <1> QED BY <1>1, <1>2, <1>3, <1>4, <1>5

(* A new member before an injective sequence. *)
LEMMA Prepended ==
    ASSUME NEW T, NEW s \in Seq(T), IsInjective(s), NEW x \in T, x \notin Range(s)
    PROVE  /\ IsInjective(<<x>> \o s)
           /\ Range(<<x>> \o s) = Range(s) \union {x}
  <1> DEFINE t == <<x>> \o s
  <1>1. /\ DOMAIN s = 1 .. Len(s) /\ Len(s) \in Nat
        /\ DOMAIN t = 1 .. (Len(s) + 1) /\ t[1] = x
        /\ \A k \in 1 .. Len(s) : t[k + 1] = s[k]
        /\ \A k \in 2 .. (Len(s) + 1) : k - 1 \in 1 .. Len(s) /\ t[k] = s[k - 1]
    OBVIOUS
  <1> HIDE DEF t
  <1>2. \A k \in 1 .. Len(s) : s[k] # x
    BY <1>1 DEF Range
  <1>3. IsInjective(t)
    <2>1. SUFFICES ASSUME NEW j \in 1 .. (Len(s) + 1), NEW k \in 1 .. (Len(s) + 1),
                          t[j] = t[k]
                   PROVE  j = k
      BY <1>1 DEF IsInjective
    <2>2. \A n \in 1 .. (Len(s) + 1) : n # 1 => /\ n - 1 \in 1 .. Len(s)
                                               /\ t[n] = s[n - 1] /\ t[n] # x
      BY <1>1, <1>2
    <2>3. CASE j = 1 \/ k = 1
      BY <1>1, <2>1, <2>2, <2>3
    <2>4. CASE j # 1 /\ k # 1
      <3>1. j - 1 = k - 1
        BY <1>1, <2>1, <2>2, <2>4 DEF IsInjective
      <3> QED BY <3>1
    <2> QED BY <2>3, <2>4
  <1>4. Range(t) \subseteq Range(s) \union {x}
    BY <1>1 DEF Range
  <1>5. x \in Range(t)
    BY <1>1 DEF Range
  <1>6. Range(s) \subseteq Range(t)
    <2> SUFFICES ASSUME NEW k \in 1 .. Len(s) PROVE s[k] \in Range(t)
      BY <1>1 DEF Range
    <2>1. k + 1 \in DOMAIN t /\ t[k + 1] = s[k]
      BY <1>1
    <2> QED BY <2>1 DEF Range
  <1> QED BY <1>3, <1>4, <1>5, <1>6 DEF t

(* The head of an injective sequence moved to its end. *)
LEMMA Rotated ==
    ASSUME NEW T, NEW s \in Seq(T), s # <<>>, IsInjective(s)
    PROVE  LET t == Append(Tail(s), Head(s)) IN
           t \in Seq(T) /\ IsInjective(t) /\ Range(t) = Range(s)
  <1> DEFINE t == Append(Tail(s), Head(s))
             n == Len(s)
             from(k) == IF k = n THEN 1 ELSE k + 1
             to(k) == IF k = 1 THEN n ELSE k - 1
  <1>1. /\ n \in Nat \ {0} /\ DOMAIN s = 1 .. n
        /\ t \in Seq(T) /\ DOMAIN t = 1 .. n
        /\ t[n] = s[1] /\ \A k \in 1 .. (n - 1) : t[k] = s[k + 1]
    OBVIOUS
  <1> HIDE DEF t, n
  <1>2. \A k \in 1 .. n : /\ from(k) \in 1 .. n /\ to(k) \in 1 .. n
                         /\ from(to(k)) = k /\ to(from(k)) = k
    BY <1>1
  <1>3. \A k \in 1 .. n : t[k] = s[from(k)]
    <2> SUFFICES ASSUME NEW k \in 1 .. n, k # n PROVE t[k] = s[k + 1]
      BY <1>1
    <2>1. k \in 1 .. (n - 1)
      BY <1>1
    <2> QED BY <1>1, <2>1
  <1> HIDE DEF from, to
  <1>4. IsInjective(t)
    <2>1. \A a, b \in 1 .. n : t[a] = t[b] => from(a) = from(b)
      BY <1>1, <1>2, <1>3 DEF IsInjective
    <2> QED BY <1>1, <1>2, <2>1 DEF IsInjective
  <1>5. Range(t) \subseteq Range(s)
    BY <1>1, <1>2, <1>3 DEF Range
  <1>6. \A k \in 1 .. n : s[k] = t[to(k)]
    BY <1>2, <1>3
  <1>7. Range(s) \subseteq Range(t)
    BY <1>1, <1>2, <1>6 DEF Range
  <1> QED BY <1>1, <1>4, <1>5, <1>7 DEF t

(* The position of j in a set of pages, and the pages that get a frame.    *)
Rank(S, j) == Cardinality({x \in S : x <= j})
Got(m, S)  == {j \in S : Rank(S, j) <= Len(m.ring)}

(* The pages that get a frame take the first frames of the ring. *)
LEMMA RankOfGot ==
    ASSUME NEW m, m.ring \in Seq(Frames), NEW S \in SUBSET Nat, IsFiniteSet(S)
    PROVE  /\ Cardinality(Got(m, S)) \in Nat
           /\ \A j \in Got(m, S) : /\ Rank(S, j) \in 1 .. Len(m.ring)
                                   /\ Rank(S, j) <= Cardinality(Got(m, S))
  <1> DEFINE upto(j) == {x \in S : x <= j}
  <1>1. \A j : IsFiniteSet(upto(j)) /\ Cardinality(upto(j)) \in Nat
    BY FS_Subset, FS_CardinalityType
  <1>2. IsFiniteSet(Got(m, S)) /\ Cardinality(Got(m, S)) \in Nat
    BY FS_Subset, FS_CardinalityType DEF Got
  <1>3. Len(m.ring) \in Nat
    OBVIOUS
  <1>4. ASSUME NEW j \in Got(m, S)
        PROVE  /\ Rank(S, j) \in 1 .. Len(m.ring)
               /\ Rank(S, j) <= Cardinality(Got(m, S))
    <2>1. j \in S /\ Rank(S, j) \in Nat /\ Rank(S, j) <= Len(m.ring)
      BY <1>1 DEF Got, Rank
    <2>2. Rank(S, j) # 0
      <3>1. j \in upto(j)
        BY <2>1
      <3> QED BY <1>1, <3>1, FS_EmptySet DEF Rank
    <2>3. upto(j) \subseteq Got(m, S)
      <3> SUFFICES ASSUME NEW x \in S, x <= j PROVE Rank(S, x) <= Len(m.ring)
        BY DEF Got
      <3>1. upto(x) \subseteq upto(j)
        <4>1. x \in Nat /\ j \in Nat /\ \A y \in S : y \in Nat
          BY <2>1
        <4>2. \A y \in S : y <= x => y <= j
          BY <4>1
        <4> QED BY <4>2
      <3>2. Rank(S, x) <= Rank(S, j) /\ Rank(S, x) \in Nat
        BY <1>1, <3>1, FS_Subset DEF Rank
      <3> QED BY <1>3, <2>1, <3>2
    <2>4. Rank(S, j) <= Cardinality(Got(m, S))
      BY <1>2, <2>3, FS_Subset DEF Rank
    <2> QED BY <1>3, <2>1, <2>2, <2>4
  <1> QED BY <1>2, <1>4

----------------------------------------------------------------------------
(* The region operations keep the invariant                                *)

(* alloc_physical_page in a loop: what Fill writes. *)
LEMMA FillWrites ==
    ASSUME NEW m \in Memory, NEW row \in Regs, NEW S \in SUBSET Nat, IsFiniteSet(S)
    PROVE  LET b == Fill(m, row, S)
               c == Cardinality(Got(m, S))
           IN  /\ b \in Memory
               /\ b.ring = SubSeq(m.ring, c + 1, Len(m.ring))
               /\ b.table = [m.table EXCEPT ![row] = [j \in Pages |->
                      IF j \in Got(m, S) THEN m.ring[Rank(S, j)] ELSE m.table[row][j]]]
               /\ b.region = m.region /\ b.free = m.free /\ b.active = m.active
               /\ b.used = m.used /\ b.preg = m.preg
  <1> DEFINE c == Cardinality(Got(m, S))
             G == SubSeq(m.ring, c + 1, Len(m.ring))
             new == [j \in Pages |->
                      IF j \in Got(m, S) THEN m.ring[Rank(S, j)] ELSE m.table[row][j]]
             T == [m.table EXCEPT ![row] = new]
  <1>1. Fill(m, row, S) = [m EXCEPT !.ring = G, !.table = T]
    BY Zenon DEF Fill, Got, Rank
  <1>2. G \in Seq(Frames) /\ T \in [Regs -> Row]
    <2>1. m.ring \in Seq(Frames)
      BY MemFields
    <2>2. c \in Nat /\ \A j \in Got(m, S) : Rank(S, j) \in 1 .. Len(m.ring)
      BY <2>1, RankOfGot
    <2> HIDE DEF c
    <2>3. G \in Seq(Frames)
      BY <2>1, <2>2
    <2>4. \A j \in Pages : m.table[row][j] \in {0} \union Frames
      BY MemFields DEF Row
    <2>5. new \in Row
      BY <2>1, <2>2, <2>4 DEF Row
    <2> HIDE DEF new
    <2> QED BY <2>3, <2>5, MemFields
  <1> HIDE DEF G, T
  <1>3. Fill(m, row, S) = SetTable(SetRing(m, G), T)
    BY <1>1 DEF SetRing, SetTable
  <1>4. LET b == SetTable(SetRing(m, G), T)
        IN  /\ b \in Memory /\ b.ring = G /\ b.table = T
            /\ b.region = m.region /\ b.free = m.free /\ b.active = m.active
            /\ b.used = m.used /\ b.preg = m.preg
    BY <1>2, SetRingMemory, SetTableMemory
  <1> QED BY <1>3, <1>4 DEF G, T

(* Fill takes the frames it maps from the ring. *)
LEMMA FillExact ==
    ASSUME NEW m, Exact(m), NEW row \in Regs, NEW S \in SUBSET Nat, IsFiniteSet(S)
    PROVE  LET b == Fill(m, row, S)
           IN  Exact(b) /\ b.region = m.region /\ b.preg = m.preg
  <1> DEFINE b == Fill(m, row, S)
             c == Cardinality(Got(m, S))
  <1>0. m \in Memory /\ ListsExact(m) /\ RowsExact(m) /\ RingExact(m) /\ TabledBut(m, 0)
        /\ AttachExact(m)
    BY DEF Exact, PoolExact
  <1>1. /\ b \in Memory
        /\ b.ring = SubSeq(m.ring, c + 1, Len(m.ring))
        /\ b.table = [m.table EXCEPT ![row] = [j \in Pages |->
               IF j \in Got(m, S) THEN m.ring[Rank(S, j)] ELSE m.table[row][j]]]
        /\ b.region = m.region /\ b.free = m.free /\ b.active = m.active
        /\ b.used = m.used /\ b.preg = m.preg
    BY <1>0, FillWrites
  <1>2. m.ring \in Seq(Frames) /\ m.table \in [Regs -> Row]
    BY <1>0, MemFields
  <1>3. c \in Nat /\ \A j \in Got(m, S) : Rank(S, j) \in 1 .. Len(m.ring) /\ Rank(S, j) <= c
    BY <1>2, RankOfGot
  <1> HIDE DEF b, c
  <1>4. /\ DOMAIN m.ring = 1 .. Len(m.ring) /\ b.ring \in Seq(Frames)
        /\ DOMAIN b.ring = 1 .. Len(b.ring)
        /\ \A k \in 1 .. Len(b.ring) : b.ring[k] = m.ring[k + c] /\ k + c \in 1 .. Len(m.ring)
    BY <1>1, <1>2, <1>3
  <1>5. IsInjective(b.ring)
    <2> SUFFICES ASSUME NEW k \in 1 .. Len(b.ring), NEW l \in 1 .. Len(b.ring),
                        b.ring[k] = b.ring[l]
                 PROVE  k = l
      BY <1>4 DEF IsInjective
    <2>1. k + c = l + c
      BY <1>0, <1>4 DEF RingExact, IsInjective
    <2> QED BY <1>3, <1>4, <2>1
  <1>6. Range(b.ring) \subseteq Range(m.ring)
    BY <1>4 DEF Range
  <1>7. \A j \in Got(m, S) : m.ring[Rank(S, j)] \notin Range(b.ring)
    <2> SUFFICES ASSUME NEW j \in Got(m, S), NEW k \in 1 .. Len(b.ring),
                        m.ring[Rank(S, j)] = b.ring[k]
                 PROVE  FALSE
      BY <1>4 DEF Range
    <2>1. Rank(S, j) = k + c
      BY <1>0, <1>3, <1>4 DEF RingExact, IsInjective
    <2>2. k \in Nat /\ k >= 1
      BY <1>4
    <2> QED BY <1>3, <2>1, <2>2
  <1>8. \A x \in Regs, j \in Pages : b.table[x][j] \notin Range(b.ring)
    <2> SUFFICES ASSUME NEW x \in Regs, NEW j \in Pages
                 PROVE  b.table[x][j] \notin Range(b.ring)
      OBVIOUS
    <2>1. CASE x = row /\ j \in Got(m, S)
      BY <1>1, <1>2, <1>7, <2>1
    <2>2. CASE ~(x = row /\ j \in Got(m, S))
      <3>1. b.table[x][j] = m.table[x][j]
        BY <1>1, <1>2, <2>2
      <3> QED BY <1>0, <1>6, <3>1 DEF RingExact
    <2> QED BY <2>1, <2>2
  <1>9. ListsExact(b) /\ RowsExact(b) /\ TabledBut(b, 0) /\ AttachExact(b)
    BY <1>0, <1>1 DEF ListsExact, RowsExact, TabledBut, AttachExact
  <1> QED BY <1>1, <1>5, <1>8, <1>9 DEF Exact, PoolExact, RingExact, b

(* The failed read puts back a frame that the ring has. *)
LEMMA PutbackExact ==
    ASSUME NEW m, Exact(m)
    PROVE  LET b == Putback(m)
           IN  Exact(b) /\ b.region = m.region /\ b.preg = m.preg
  <1>1. CASE m.ring = <<>>
    BY <1>1 DEF Putback
  <1>2. CASE m.ring # <<>>
    <2> DEFINE G == Append(Tail(m.ring), Head(m.ring))
               b == Putback(m)
    <2>0. m \in Memory /\ ListsExact(m) /\ RowsExact(m) /\ RingExact(m) /\ TabledBut(m, 0)
          /\ AttachExact(m)
      BY DEF Exact, PoolExact
    <2>1. G \in Seq(Frames) /\ IsInjective(G) /\ Range(G) = Range(m.ring)
      <3>1. m.ring \in Seq(Frames) /\ IsInjective(m.ring)
        BY <2>0, MemFields DEF RingExact
      <3> QED BY <1>2, <3>1, Rotated
    <2>2. b = SetRing(m, G)
      BY <1>2, Zenon DEF Putback, SetRing
    <2> HIDE DEF G, b
    <2>3. /\ b \in Memory /\ b.ring = G
          /\ b.region = m.region /\ b.free = m.free /\ b.active = m.active
          /\ b.table = m.table /\ b.used = m.used /\ b.preg = m.preg
      BY <2>0, <2>1, <2>2, SetRingMemory
    <2>4. ListsExact(b) /\ RowsExact(b) /\ TabledBut(b, 0) /\ AttachExact(b)
      BY <2>0, <2>3 DEF ListsExact, RowsExact, TabledBut, AttachExact
    <2>5. RingExact(b)
      BY <2>0, <2>1, <2>3 DEF RingExact
    <2> QED BY <2>3, <2>4, <2>5 DEF Exact, PoolExact, b
  <1> QED BY <1>1, <1>2

(* allocreg: the region is fresh, and nothing else changes. *)
LEMMA AllocregExact ==
    ASSUME NEW m, Exact(m), m.free # <<>>
    PROVE  LET r == Head(m.free)
               a == Allocreg(m)
           IN  /\ Exact(a) /\ Fresh(a, r)
               /\ r \in Regs /\ r \notin m.active
               /\ a.active = m.active \union {r}
               /\ a.region[r] = [table |-> 0, size |-> 0, ref |-> 0]
               /\ \A x \in Regs : x # r => a.region[x] = m.region[x]
               /\ a.preg = m.preg /\ a.table = m.table /\ a.ring = m.ring
  <1> DEFINE r == Head(m.free)  a == Allocreg(m)
  <1>0. m \in Memory /\ ListsExact(m) /\ AttachExact(m) /\ RowsExact(m) /\ RingExact(m)
        /\ TabledBut(m, 0)
    BY DEF Exact, PoolExact
  <1>1. /\ a \in Memory /\ r \in Regs
        /\ a.region = [m.region EXCEPT ![r] = [table |-> 0, size |-> 0, ref |-> 0]]
        /\ a.free = Tail(m.free)
        /\ a.active = m.active \union {r}
        /\ a.table = m.table /\ a.used = m.used /\ a.ring = m.ring
        /\ a.preg = m.preg
    BY <1>0, AllocregWrites
  <1>2. /\ r \in Range(m.free) /\ IsInjective(Tail(m.free))
        /\ Range(Tail(m.free)) = Range(m.free) \ {r}
    BY <1>0, MemFields, HeadTail DEF ListsExact
  <1> HIDE DEF r, a
  <1>3. r \notin m.active /\ m.active \subseteq Regs /\ r # 0
    BY <1>0, <1>1, <1>2, MemFields DEF ListsExact, Regs
  <1>4. /\ a.region[r] = [table |-> 0, size |-> 0, ref |-> 0]
        /\ \A x \in Regs : x # r => a.region[x] = m.region[x]
    BY <1>0, <1>1, MemFields
  <1>5. ListsExact(a)
    BY <1>0, <1>1, <1>2 DEF ListsExact
  <1>6. \A p \in Procs, i \in Slots : a.preg[p][i].reg # r
    BY <1>0, <1>1, <1>3 DEF AttachExact
  <1>7. AttachExact(a)
    BY <1>0, <1>1, <1>3, <1>4 DEF AttachExact
  <1>8. RowsExact(a)
    BY <1>0, <1>1, <1>3, <1>4 DEF RowsExact
  <1>9. TabledBut(a, 0)
    BY <1>0, <1>1, <1>3, <1>4 DEF TabledBut
  <1>10. RingExact(a)
    BY <1>0, <1>1 DEF RingExact
  <1>11. Fresh(a, r)
    BY <1>1, <1>4, <1>6 DEF Fresh
  <1> QED BY <1>1, <1>3, <1>4, <1>5, <1>7, <1>8, <1>9, <1>10, <1>11 DEF Exact, PoolExact, r, a

(* attachreg of a fresh region: the slot taken was empty. *)
LEMMA AttachregExact ==
    ASSUME NEW m, Exact(m), NEW p \in Procs, NEW r, Fresh(m, r), NEW t \in Types,
           Taken(m, p) # Slots,
           NEW i, i = Least(Slots \ Taken(m, p)), NEW b, b = Attachreg(m, p, r, t)
    PROVE  /\ Exact(b)
           /\ i \in Slots /\ i \notin Taken(m, p)
           /\ \A j \in Slots \ Taken(m, p) : i <= j
           /\ b.preg[p][i].reg = r
           /\ Taken(b, p) = Taken(m, p) \union {i}
           /\ \A q \in Procs : q # p => b.preg[q] = m.preg[q]
           /\ \A x \in Regs : b.region[x].table = m.region[x].table
  <1> DEFINE e == [reg |-> r, type |-> t, size |-> m.region[r].size]
  <1>0. m \in Memory /\ ListsExact(m) /\ AttachExact(m) /\ RowsExact(m) /\ RingExact(m)
        /\ TabledBut(m, 0)
    BY DEF Exact, PoolExact
  <1>1. i \in Slots /\ i \notin Taken(m, p) /\ \A j \in Slots \ Taken(m, p) : i <= j
    BY LeastSlot
  <1>2. /\ r \in m.active /\ r \in Regs /\ r # 0 /\ m.region[r].ref = 0
        /\ \A q \in Procs, j \in Slots : m.preg[q][j].reg # r
    BY <1>0, MemFields DEF Fresh, Regs
  <1>3. /\ b \in Memory
        /\ b.region[r] = [m.region[r] EXCEPT !.ref = m.region[r].ref + 1]
        /\ \A x \in Regs : x # r => b.region[x] = m.region[x]
        /\ b.preg[p][i] = e
        /\ \A j \in Slots : j # i => b.preg[p][j] = m.preg[p][j]
        /\ \A q \in Procs : q # p => b.preg[q] = m.preg[q]
        /\ b.free = m.free /\ b.active = m.active /\ b.table = m.table
        /\ b.used = m.used /\ b.ring = m.ring
    BY <1>0, <1>1, <1>2, AttachregWrites
  <1>4. /\ b.region[r].ref = 1 /\ b.region[r].size = m.region[r].size
        /\ b.region[r].table = m.region[r].table
        /\ \A x \in Regs : x # r => b.region[x] = m.region[x]
    <2>1. m.region[r] \in Region
      BY <1>0, <1>2, MemFields
    <2> QED BY <1>2, <1>3, <2>1 DEF Region
  <1>5. /\ b.preg[p][i] = e
        /\ \A q \in Procs, j \in Slots : (q # p \/ j # i) => b.preg[q][j] = m.preg[q][j]
        /\ \A q \in Procs : q # p => b.preg[q] = m.preg[q]
    BY <1>3
  <1>6. Taken(b, p) = Taken(m, p) \union {i}
    <2>1. \A j \in Slots : j # i => b.preg[p][j] = m.preg[p][j]
      BY <1>5
    <2>2. b.preg[p][i].reg # 0
      BY <1>2, <1>5
    <2> QED BY <1>1, <2>1, <2>2 DEF Taken
  <1>7. AttachExact(b)
    <2> SUFFICES ASSUME NEW q \in Procs, NEW j \in Slots, b.preg[q][j].reg # 0
                 PROVE  /\ b.preg[q][j].reg \in b.active
                        /\ b.region[b.preg[q][j].reg].ref = 1
                        /\ b.region[b.preg[q][j].reg].size = b.preg[q][j].size
                        /\ \A q1 \in Procs, j1 \in Slots :
                              b.preg[q1][j1].reg = b.preg[q][j].reg => q1 = q /\ j1 = j
      BY DEF AttachExact
    <2>1. CASE q = p /\ j = i
      <3>1. b.preg[q][j].reg = r /\ b.preg[q][j].size = m.region[r].size
        BY <2>1, <1>5
      <3>2. ASSUME NEW q1 \in Procs, NEW j1 \in Slots, q1 # p \/ j1 # i
            PROVE  b.preg[q1][j1].reg # r
        <4>1. b.preg[q1][j1] = m.preg[q1][j1]
          BY <1>5, <3>2
        <4> QED BY <1>2, <4>1
      <3> QED BY <2>1, <3>1, <3>2, <1>2, <1>3, <1>4
    <2>2. CASE q # p \/ j # i
      <3>1. /\ b.preg[q][j] = m.preg[q][j] /\ m.preg[q][j].reg # 0
            /\ m.preg[q][j].reg \in m.active /\ m.preg[q][j].reg # r
        BY <2>2, <1>0, <1>2, <1>5 DEF AttachExact
      <3>2. b.region[m.preg[q][j].reg] = m.region[m.preg[q][j].reg]
        BY <3>1, <1>0, <1>4, MemFields
      <3>3. ASSUME NEW q1 \in Procs, NEW j1 \in Slots,
                   b.preg[q1][j1].reg = b.preg[q][j].reg
            PROVE  q1 = q /\ j1 = j
        <4>1. CASE q1 = p /\ j1 = i
          BY <1>5, <3>1, <3>3, <4>1
        <4>2. CASE q1 # p \/ j1 # i
          <5>1. b.preg[q1][j1] = m.preg[q1][j1]
            BY <1>5, <4>2
          <5> QED BY <1>0, <3>1, <3>3, <5>1 DEF AttachExact
        <4> QED BY <4>1, <4>2
      <3>4. /\ m.region[m.preg[q][j].reg].ref = 1
            /\ m.region[m.preg[q][j].reg].size = m.preg[q][j].size
        BY <1>0, <3>1 DEF AttachExact
      <3> QED BY <1>3, <3>1, <3>2, <3>3, <3>4
    <2> QED BY <2>1, <2>2
  <1>8. ListsExact(b) /\ RingExact(b)
    BY <1>0, <1>3 DEF ListsExact, RingExact
  <1>9. \A x \in Regs : /\ b.region[x].table = m.region[x].table
                         /\ b.region[x].size = m.region[x].size
    BY <1>4
  <1>10. RowsExact(b) /\ TabledBut(b, 0)
    <2>1. \A x \in m.active : /\ b.region[x].table = m.region[x].table
                              /\ b.region[x].size = m.region[x].size
      BY <1>0, <1>9, MemFields
    <2> QED BY <1>0, <1>3, <2>1 DEF RowsExact, TabledBut
  <1>11. Exact(b)
    BY <1>3, <1>7, <1>8, <1>10 DEF Exact, PoolExact
  <1>12. b.preg[p][i].reg = r
    BY <1>5
  <1> QED BY <1>1, <1>5, <1>6, <1>9, <1>11, <1>12

(* While a region has no table, not every row is used. *)
LEMMA RowLeft ==
    ASSUME NEW m \in Memory, RowsExact(m), NEW r \in m.active, m.region[r].table = 0
    PROVE  /\ m.used # Regs
           /\ Least(Regs \ m.used) \in Regs /\ Least(Regs \ m.used) \notin m.used
  <1>1. m.active \subseteq Regs /\ r \in Regs /\ m.used \subseteq Regs
    BY MemFields
  <1>2. ASSUME m.used = Regs PROVE FALSE
    <2> DEFINE f == [row \in Regs |-> CHOOSE y \in m.active : m.region[y].table = row]
    <2>1. \A row \in Regs : \E y \in m.active : m.region[y].table = row
      BY <1>2 DEF RowsExact
    <2>2. \A row \in Regs : f[row] \in m.active /\ m.region[f[row]].table = row
      BY <2>1
    <2>3. \A row \in Regs : f[row] # r
      <3>1. 0 \notin Regs
        BY DEF Regs
      <3> HIDE DEF f
      <3> QED BY <2>2, <3>1
    <2>4. f \in [Regs -> Regs \ {r}]
      BY <1>1, <2>2, <2>3
    <2>5. IsFiniteSet(Regs)
      BY RegionAssumption, FS_Interval DEF Regs
    <2>6. /\ IsFiniteSet(Regs \ {r})
          /\ Cardinality(Regs \ {r}) = Cardinality(Regs) - 1
      BY <1>1, <2>5, FS_RemoveElement
    <2>7. Cardinality(Regs) \in Nat
      BY <2>5, FS_CardinalityType
    <2>8. Cardinality(Regs \ {r}) < Cardinality(Regs)
      BY <2>6, <2>7
    <2> HIDE DEF f
    <2>9. \E y, z \in Regs : y # z /\ f[y] = f[z]
      BY <2>4, <2>5, <2>6, <2>8, FS_PigeonHole
    <2> QED BY <2>2, <2>9
  <1>3. Regs \ m.used # {}
    BY <1>1, <1>2
  <1>4. Regs \ m.used \in SUBSET Nat
    BY DEF Regs
  <1> QED BY <1>2, <1>3, <1>4, LeastIn

(* pgtbl_alloc for a region without a table. *)
LEMMA PgtblAllocExact ==
    ASSUME NEW m \in Memory, NEW r \in m.active,
           ListsExact(m), AttachExact(m), RowsExact(m), RingExact(m), TabledBut(m, r),
           m.region[r].table = 0, NEW n \in Nat
    PROVE  LET b == PgtblAlloc(m, r, n)
           IN  /\ Exact(b) /\ b.region[r].table \in Regs
               /\ b.region[r].ref = m.region[r].ref
               /\ b.region[r].size = m.region[r].size
               /\ b.active = m.active /\ b.preg = m.preg /\ b.ring = m.ring
  <1> DEFINE row == Least(Regs \ m.used)
             b   == PgtblAlloc(m, r, n)
             new == [j \in Pages |-> IF j <= n THEN 0 ELSE m.table[row][j]]
  <1>1. row \in Regs /\ row \notin m.used /\ m.used # Regs
    BY RowLeft
  <1>2. r \in Regs /\ row # 0 /\ m.active \subseteq Regs /\ m.region[r] \in Region
    <2>1. r \in Regs /\ m.active \subseteq Regs /\ m.region[r] \in Region
      BY MemFields
    <2> HIDE DEF row
    <2>2. row # 0
      BY <1>1 DEF Regs
    <2> QED BY <2>1, <2>2
  <1>3. /\ b \in Memory
        /\ b.region = [m.region EXCEPT ![r] = [m.region[r] EXCEPT !.table = row]]
        /\ b.table = [m.table EXCEPT ![row] = new]
        /\ b.used = m.used \union {row}
        /\ b.free = m.free /\ b.active = m.active /\ b.ring = m.ring
        /\ b.preg = m.preg
    BY <1>1, <1>2, PgtblAllocWrites
  <1> HIDE DEF row, b
  <1>4. /\ b.region[r].table = row /\ b.region[r].ref = m.region[r].ref
        /\ b.region[r].size = m.region[r].size
        /\ \A x \in Regs : x # r => b.region[x] = m.region[x]
    <2>1. b.region[r] = [m.region[r] EXCEPT !.table = row]
      BY <1>2, <1>3, MemFields
    <2> QED BY <1>2, <1>3, <2>1, MemFields DEF Region
  <1>5. ListsExact(b)
    BY <1>3 DEF ListsExact
  <1>6. AttachExact(b)
    <2>1. \A x \in Regs : b.region[x].ref = m.region[x].ref /\ b.region[x].size = m.region[x].size
      BY <1>4
    <2> QED BY <1>2, <1>3, <2>1 DEF AttachExact
  <1>7. \A x \in m.active : m.region[x].table # row
    BY <1>1, <1>2 DEF RowsExact
  <1>8. RowsExact(b)
    <2>1. \A x \in m.active : x # r => b.region[x].table = m.region[x].table
      BY <1>2, <1>4
    <2>2. \A y \in b.used : \E x \in b.active : b.region[x].table # 0 /\ b.region[x].table = y
      <3>1. \A y \in m.used : \E x \in m.active : m.region[x].table # 0 /\ m.region[x].table = y
        BY DEF RowsExact
      <3>2. \A y \in m.used : \E x \in m.active : x # r /\ m.region[x].table # 0 /\ m.region[x].table = y
        BY <3>1
      <3> QED BY <1>2, <1>3, <1>4, <2>1, <3>2
    <2>3. \A x \in b.active : b.region[x].table # 0 => b.region[x].table \in b.used
      BY <1>2, <1>3, <1>4, <2>1 DEF RowsExact
    <2>4. \A x, y \in b.active : b.region[x].table = b.region[y].table
                                 /\ b.region[x].table # 0 => x = y
      BY <1>3, <1>4, <1>7, <2>1 DEF RowsExact
    <2> QED BY <2>2, <2>3, <2>4 DEF RowsExact
  <1>9. TabledBut(b, 0)
    BY <1>2, <1>3, <1>4 DEF TabledBut
  <1>10. RingExact(b)
    <2>1. 0 \notin Range(m.ring)
      <3>1. m.ring \in Seq(Frames) /\ 0 \notin Frames
        BY MemFields, RegionAssumption DEF Frames
      <3> QED BY <3>1 DEF Range
    <2>2. \A j \in Pages : new[j] \notin Range(m.ring)
      BY <1>1, <2>1 DEF RingExact
    <2> HIDE DEF new
    <2>3. \A x \in Regs, j \in Pages : b.table[x][j] \notin Range(m.ring)
      BY <1>1, <1>3, <2>2, MemFields DEF RingExact
    <2> QED BY <1>3, <2>3 DEF RingExact
  <1> QED BY <1>1, <1>3, <1>4, <1>5, <1>6, <1>8, <1>9, <1>10 DEF Exact, PoolExact, b

(* The slots and regions of m are those of b, sizes aside. *)
SameRegs(b, m) ==
    \A q \in Procs, j \in Slots : b.preg[q][j].reg = m.preg[q][j].reg

(* So every process takes the slots it took. *)
LEMMA SameTaken ==
    ASSUME NEW m, NEW b, SameRegs(b, m), NEW p \in Procs
    PROVE  Taken(b, p) = Taken(m, p)
  BY DEF SameRegs, Taken

(* Regions that keep their tables keep the rows exact. *)
LEMMA SameRows ==
    ASSUME NEW m, NEW b, RowsExact(m), b.used = m.used, b.active = m.active,
           \A x \in m.active : b.region[x].table = m.region[x].table
    PROVE  RowsExact(b)
  BY DEF RowsExact

(* growreg: both sizes change together, and pages come with a table. *)
LEMMA GrowregExact ==
    ASSUME NEW m, Exact(m), NEW p \in Procs, NEW i \in Slots, NEW n \in Int,
           m.preg[p][i].reg # 0
    PROVE  Exact(Growreg(m, p, i, n)) /\ SameRegs(Growreg(m, p, i, n), m)
  <1> DEFINE r == m.preg[p][i].reg
             b == Resize(m, p, i, n)
  <1>0. m \in Memory /\ ListsExact(m) /\ AttachExact(m) /\ RowsExact(m) /\ RingExact(m)
        /\ TabledBut(m, 0)
    BY DEF Exact, PoolExact
  <1>1. r \in m.active /\ m.active \subseteq Regs /\ r \in Regs
    BY <1>0, MemFields DEF AttachExact
  <1>2. CASE ~InBounds(n)
    BY <1>2 DEF Growreg, SameRegs
  <1>3. CASE InBounds(n)
    <2>1. n \in 0 .. MAX_PAGES /\ n \in Nat
      BY <1>3 DEF InBounds
    <2>2. /\ b \in Memory
          /\ b.region[r].size = n /\ b.region[r].ref = m.region[r].ref
          /\ b.region[r].table = m.region[r].table
          /\ \A x \in Regs : x # r => b.region[x] = m.region[x]
          /\ b.preg[p][i].size = n /\ b.preg[p][i].reg = r
          /\ \A j \in Slots : j # i => b.preg[p][j] = m.preg[p][j]
          /\ \A q \in Procs : q # p => b.preg[q] = m.preg[q]
          /\ b.free = m.free /\ b.active = m.active /\ b.table = m.table
          /\ b.used = m.used /\ b.ring = m.ring
      BY <1>0, <1>1, <2>1, ResizeWrites, SMTT(20)
    <2>3. Growreg(m, p, i, n) = IF n > 0 /\ m.region[r].table = 0
                                THEN PgtblAlloc(b, r, n) ELSE b
      BY <1>3, Zenon DEF Growreg
    <2> HIDE DEF b
    <2>6. \A q \in Procs, j \in Slots : (q # p \/ j # i) => b.preg[q][j] = m.preg[q][j]
      BY <2>2
    <2>7. SameRegs(b, m)
      BY <2>2, <2>6 DEF SameRegs
    <2>8. ListsExact(b) /\ RingExact(b)
      BY <1>0, <2>2 DEF ListsExact, RingExact
    <2>9. RowsExact(b) /\ TabledBut(b, r)
      <3>1. \A x \in m.active : b.region[x].table = m.region[x].table
        BY <1>1, <2>2
      <3>2. RowsExact(b)
        BY <1>0, <2>2, <3>1, SameRows
      <3>3. \A x \in m.active : x # 0
        BY <1>1 DEF Regs
      <3>4. TabledBut(b, r)
        BY <1>0, <1>1, <2>2, <3>3 DEF TabledBut
      <3> QED BY <3>2, <3>4
    <2>10. AttachExact(b)
      <3> SUFFICES ASSUME NEW q \in Procs, NEW j \in Slots, b.preg[q][j].reg # 0
                   PROVE  /\ b.preg[q][j].reg \in b.active
                          /\ b.region[b.preg[q][j].reg].ref = 1
                          /\ b.region[b.preg[q][j].reg].size = b.preg[q][j].size
                          /\ \A q1 \in Procs, j1 \in Slots :
                                b.preg[q1][j1].reg = b.preg[q][j].reg => q1 = q /\ j1 = j
        BY DEF AttachExact
      <3>1. /\ b.preg[q][j].reg = m.preg[q][j].reg
            /\ m.preg[q][j].reg \in m.active /\ m.preg[q][j].reg \in Regs
            /\ m.region[m.preg[q][j].reg].ref = 1
            /\ m.region[m.preg[q][j].reg].size = m.preg[q][j].size
            /\ \A q1 \in Procs, j1 \in Slots :
                   m.preg[q1][j1].reg = m.preg[q][j].reg => q1 = q /\ j1 = j
        BY <1>0, <1>1, <2>7 DEF AttachExact, SameRegs
      <3>2. \A q1 \in Procs, j1 \in Slots :
                   b.preg[q1][j1].reg = b.preg[q][j].reg => q1 = q /\ j1 = j
        BY <2>7, <3>1 DEF SameRegs
      <3>3. CASE q = p /\ j = i
        BY <2>2, <3>1, <3>2, <3>3
      <3>4. CASE q # p \/ j # i
        <4>1. m.preg[q][j].reg # r
          BY <3>1, <3>4
        <4> QED BY <2>2, <2>6, <3>1, <3>2, <3>4, <4>1
      <3> QED BY <3>3, <3>4
    <2>11. CASE n > 0 /\ m.region[r].table = 0
      <3>1. r \in b.active /\ b.region[r].table = 0
        BY <1>1, <2>2, <2>11
      <3>2. LET c == PgtblAlloc(b, r, n) IN Exact(c) /\ c.preg = b.preg
        BY <2>1, <2>2, <2>8, <2>9, <2>10, <3>1, PgtblAllocExact
      <3> QED BY <2>3, <2>7, <2>11, <3>2 DEF SameRegs
    <2>12. CASE ~(n > 0 /\ m.region[r].table = 0)
      <3>1. n = 0 \/ m.region[r].table # 0
        BY <2>1, <2>12
      <3>2. TabledBut(b, 0)
        BY <2>2, <2>9, <3>1 DEF TabledBut
      <3> QED BY <2>2, <2>3, <2>7, <2>8, <2>9, <2>10, <2>12, <3>2 DEF Exact, PoolExact
    <2> QED BY <2>11, <2>12
  <1> QED BY <1>2, <1>3

(* The frames loadreg asks for are a set of pages. *)
LEMMA PagesUpTo ==
    ASSUME NEW n \in Nat, NEW k \in Nat
    PROVE  /\ Least({n, k}) \in Nat
           /\ 1 .. Least({n, k}) \in SUBSET Nat /\ IsFiniteSet(1 .. Least({n, k}))
  <1>1. {n, k} \in SUBSET Nat /\ {n, k} # {}
    OBVIOUS
  <1>2. Least({n, k}) \in {n, k}
    BY <1>1, LeastIn
  <1>3. Least({n, k}) \in Nat
    BY <1>2
  <1> HIDE DEF Least
  <1> QED BY <1>3, FS_Interval

(* loadreg into an attached region. *)
LEMMA LoadregExact ==
    ASSUME NEW m, Exact(m), NEW p \in Procs, NEW i \in Slots, NEW n \in Nat,
           NEW good \in Nat, m.preg[p][i].reg # 0
    PROVE  LET b == Loadreg(m, p, i, n, good) IN Exact(b) /\ SameRegs(b, m)
  <1> DEFINE g   == Growreg(m, p, i, n)
             row == g.region[m.preg[p][i].reg].table
             full == Fill(g, row, 1 .. Least({n, good}))
  <1>1. Exact(g) /\ SameRegs(g, m)
    BY GrowregExact
  <1>2. CASE row = 0
    BY <1>1, <1>2 DEF Loadreg
  <1>3. CASE row # 0
    <2>1. row \in Regs
      <3>1. m.preg[p][i].reg \in Regs
        <4>1. m.preg[p][i] \in Preg
          BY MemFields DEF Exact, PoolExact
        <4> QED BY <4>1 DEF Preg
      <3>2. g \in Memory
        BY <1>1 DEF Exact, PoolExact
      <3> HIDE DEF g
      <3>3. g.region[m.preg[p][i].reg] \in Region
        BY <3>1, <3>2, MemFields
      <3> QED BY <1>3, <3>3 DEF Region
    <2>2. 1 .. Least({n, good}) \in SUBSET Nat /\ IsFiniteSet(1 .. Least({n, good}))
      BY PagesUpTo
    <2> HIDE DEF g, row
    <2>3. Exact(full) /\ full.preg = g.preg
      BY <1>1, <2>1, <2>2, FillExact
    <2> HIDE DEF full
    <2>4. Exact(Putback(full)) /\ Putback(full).preg = full.preg
      BY <2>3, PutbackExact
    <2>5. Loadreg(m, p, i, n, good) = IF good < n THEN Putback(full) ELSE full
      BY <1>3 DEF Loadreg, full, row, g
    <2> QED BY <1>1, <2>3, <2>4, <2>5 DEF SameRegs
  <1> QED BY <1>2, <1>3

(* freereg of an active region that is not attached. *)
LEMMA FreeregExact ==
    ASSUME NEW m, PoolExact(m), NEW r \in m.active, m.region[r].ref = 0
    PROVE  LET b == Freereg(m, r)
           IN  /\ PoolExact(b)
               /\ \A x \in Regs : x # r => b.region[x] = m.region[x]
               /\ b.active = m.active \ {r} /\ b.preg = m.preg
  <1> DEFINE b == Freereg(m, r)
  <1>0. m \in Memory /\ ListsExact(m) /\ RowsExact(m) /\ RingExact(m) /\ TabledBut(m, 0)
    BY DEF PoolExact
  <1>1. r \in Regs /\ m.active \subseteq Regs
    BY <1>0, MemFields
  <1>2. /\ b \in Memory
        /\ b.region = [m.region EXCEPT ![r] = [m.region[r] EXCEPT !.table = 0]]
        /\ b.free = <<r>> \o m.free
        /\ b.active = m.active \ {r}
        /\ b.used = m.used \ {m.region[r].table}
        /\ b.table = m.table /\ b.ring = m.ring /\ b.preg = m.preg
    BY <1>0, <1>1, FreeregWrites
  <1> HIDE DEF b
  <1>3. \A x \in Regs : x # r => b.region[x] = m.region[x]
    BY <1>0, <1>2, MemFields
  <1>4. ListsExact(b)
    <2>1. m.free \in Seq(Regs) /\ IsInjective(m.free) /\ r \notin Range(m.free)
      BY <1>0, MemFields DEF ListsExact
    <2>2. IsInjective(b.free) /\ Range(b.free) = Range(m.free) \union {r}
      BY <1>1, <1>2, <2>1, Prepended
    <2> QED BY <1>0, <1>2, <2>2 DEF ListsExact
  <1>5. \A x \in b.active : b.region[x] = m.region[x] /\ x \in m.active
    BY <1>1, <1>2, <1>3
  <1>6. RowsExact(b)
    <2>1. \A y \in b.used : \E x \in b.active : b.region[x].table # 0 /\ b.region[x].table = y
      BY <1>0, <1>2, <1>5 DEF RowsExact
    <2>2. \A x \in b.active : b.region[x].table # 0 => b.region[x].table \in b.used
      BY <1>0, <1>2, <1>5 DEF RowsExact
    <2>3. \A x, y \in b.active : b.region[x].table = b.region[y].table
                                 /\ b.region[x].table # 0 => x = y
      BY <1>0, <1>5 DEF RowsExact
    <2> QED BY <2>1, <2>2, <2>3 DEF RowsExact
  <1>7. TabledBut(b, 0)
    BY <1>0, <1>5 DEF TabledBut
  <1>8. RingExact(b)
    BY <1>0, <1>2 DEF RingExact
  <1> QED BY <1>2, <1>3, <1>4, <1>6, <1>7, <1>8 DEF PoolExact, b

(* A region that was only allocated goes back. *)
LEMMA FreeregFresh ==
    ASSUME NEW m, Exact(m), NEW r, Fresh(m, r)
    PROVE  Exact(Freereg(m, r))
  <1> DEFINE b == Freereg(m, r)
  <1>1. PoolExact(m) /\ AttachExact(m) /\ r \in m.active /\ m.region[r].ref = 0
        /\ m.active \subseteq Regs
    BY MemFields DEF Exact, PoolExact, Fresh
  <1>2. /\ PoolExact(b)
        /\ \A x \in Regs : x # r => b.region[x] = m.region[x]
        /\ b.active = m.active \ {r} /\ b.preg = m.preg
    BY <1>1, FreeregExact
  <1> HIDE DEF b
  <1>3. \A p \in Procs, i \in Slots : m.preg[p][i].reg # r
    BY DEF Fresh
  <1>4. AttachExact(b)
    BY <1>1, <1>2, <1>3 DEF AttachExact
  <1> QED BY <1>2, <1>4 DEF Exact, b

(* The count of an attached region drops to 0, and nothing else changes. *)
LEMMA UncountIs ==
    ASSUME NEW m, PoolExact(m), NEW r \in m.active, m.region[r].ref = 1
    PROVE  LET u == Uncount(m, r)
           IN  /\ PoolExact(u)
               /\ u.region[r].ref = 0 /\ u.region[r].size = m.region[r].size
               /\ u.region[r].table = m.region[r].table
               /\ \A x \in Regs : x # r => u.region[x] = m.region[x]
               /\ u.free = m.free /\ u.active = m.active /\ u.table = m.table
               /\ u.used = m.used /\ u.ring = m.ring /\ u.preg = m.preg
  <1> DEFINE u == Uncount(m, r)
  <1>0. m \in Memory /\ ListsExact(m) /\ RowsExact(m) /\ RingExact(m) /\ TabledBut(m, 0)
    BY DEF PoolExact
  <1>1. m.active \subseteq Regs /\ r \in Regs /\ m.region[r].ref = 1
    BY <1>0, MemFields
  <1>3. /\ u \in Memory
        /\ u.region[r].ref = 0 /\ u.region[r].size = m.region[r].size
        /\ u.region[r].table = m.region[r].table
        /\ \A x \in Regs : x # r => u.region[x] = m.region[x]
        /\ u.free = m.free /\ u.active = m.active /\ u.table = m.table
        /\ u.used = m.used /\ u.ring = m.ring /\ u.preg = m.preg
    <2> DEFINE g == [m.region[r] EXCEPT !.ref = m.region[r].ref - 1]
               R == [m.region EXCEPT ![r] = g]
    <2>0. m.region[r].ref > 0
      BY <1>1
    <2>1. u = [m EXCEPT !.region = R]
      BY <2>0, Zenon DEF Uncount
    <2>2. m.region[r] \in Region
      BY <1>0, <1>1, MemFields
    <2> HIDE DEF u
    <2>3. g \in Region /\ g.ref = 0 /\ g.size = m.region[r].size /\ g.table = m.region[r].table
      BY <1>1, <2>2 DEF Region
    <2> HIDE DEF g
    <2>4. R \in [Regs -> Region] /\ R[r] = g /\ \A x \in Regs : x # r => R[x] = m.region[x]
      BY <1>0, <1>1, <2>3, MemFields
    <2> HIDE DEF R
    <2>5. u = SetRegion(m, R)
      BY <2>1 DEF SetRegion
    <2> QED BY <1>0, <2>3, <2>4, <2>5, SetRegionMemory
  <1> HIDE DEF u
  <1>4. PoolExact(u)
    <2>1. \A x \in Regs : u.region[x].table = m.region[x].table
                          /\ u.region[x].size = m.region[x].size
      BY <1>3
    <2>2. \A x \in m.active : u.region[x].table = m.region[x].table
                              /\ u.region[x].size = m.region[x].size
      BY <1>1, <2>1
    <2>3. ListsExact(u) /\ RingExact(u)
      BY <1>0, <1>3 DEF ListsExact, RingExact
    <2>4. RowsExact(u)
      BY <1>0, <1>3, <2>2, SameRows
    <2>5. TabledBut(u, 0)
      BY <1>0, <1>3, <2>2 DEF TabledBut
    <2> QED BY <1>3, <2>3, <2>4, <2>5 DEF PoolExact
  <1> QED BY <1>3, <1>4 DEF u

(* detachreg: the slot is empty, and its region free. *)
LEMMA DetachregExact ==
    ASSUME NEW m, Exact(m), NEW p \in Procs, NEW i \in Slots
    PROVE  Exact(Detachreg(m, p, i))
  <1> DEFINE r == m.preg[p][i].reg
             u == Uncount(m, r)
             f == Freereg(u, r)
  <1>0. m \in Memory /\ ListsExact(m) /\ AttachExact(m) /\ RowsExact(m) /\ RingExact(m)
        /\ TabledBut(m, 0)
    BY DEF Exact, PoolExact
  <1>1. CASE r = 0
    BY <1>1 DEF Detachreg
  <1>2. CASE r # 0
    <2>1. r \in m.active /\ m.active \subseteq Regs /\ r \in Regs /\ m.region[r].ref = 1
      BY <1>0, <1>2, MemFields DEF AttachExact
    <2>2. \A q \in Procs, j \in Slots : (q # p \/ j # i) => m.preg[q][j].reg # r
      BY <1>0, <1>2 DEF AttachExact
    <2>3. /\ PoolExact(u) /\ u.region[r].ref = 0
          /\ \A x \in Regs : x # r => u.region[x] = m.region[x]
          /\ u.active = m.active /\ u.preg = m.preg
      <3> HIDE DEF r
      <3>1. PoolExact(m)
        BY DEF Exact
      <3> QED BY <2>1, <3>1, UncountIs
    <2> HIDE DEF u
    <2>4. PoolExact(u)
      BY <2>3
    <2>5. /\ PoolExact(f)
          /\ \A x \in Regs : x # r => f.region[x] = m.region[x]
          /\ f.active = m.active \ {r} /\ f.preg = m.preg
      <3> HIDE DEF r
      <3>1. r \in u.active /\ u.region[r].ref = 0
        BY <2>1, <2>3
      <3>2. /\ PoolExact(f)
            /\ \A x \in Regs : x # r => f.region[x] = u.region[x]
            /\ f.active = u.active \ {r} /\ f.preg = u.preg
        BY <2>4, <3>1, FreeregExact
      <3> HIDE DEF f
      <3> QED BY <2>3, <3>2
    <2> HIDE DEF f
    <2> DEFINE P == [f.preg EXCEPT ![p] = [f.preg[p] EXCEPT ![i] = Empty]]
               b == Detachreg(m, p, i)
    <2>6. b = [f EXCEPT !.preg = P]
      BY <1>2, Zenon DEF Detachreg, f, u
    <2> HIDE DEF b
    <2>7. f \in Memory
      BY <2>5 DEF PoolExact
    <2>8. /\ P \in [Procs -> [Slots -> Preg]] /\ P[p][i] = Empty
          /\ \A q \in Procs, j \in Slots : (q # p \/ j # i) => P[q][j] = f.preg[q][j]
      <3>1. Empty \in Preg
        BY RegionAssumption DEF Empty, Preg, Types
      <3>2. [f.preg[p] EXCEPT ![i] = Empty] \in [Slots -> Preg]
        BY <2>7, <3>1, MemFields
      <3> QED BY <2>7, <3>2, MemFields
    <2> HIDE DEF P
    <2>9. b = SetPreg(f, P)
      BY <2>6 DEF SetPreg
    <2>10. /\ b \in Memory /\ b.preg = P
           /\ b.region = f.region /\ b.free = f.free /\ b.active = f.active
           /\ b.table = f.table /\ b.used = f.used /\ b.ring = f.ring
      BY <2>7, <2>8, <2>9, SetPregMemory
    <2>11. PoolExact(b)
      BY <2>5, <2>10 DEF PoolExact, ListsExact, RowsExact, RingExact, TabledBut
    <2>12. Empty.reg = 0
      BY DEF Empty
    <2>13. AttachExact(b)
      <3> SUFFICES ASSUME NEW q \in Procs, NEW j \in Slots, b.preg[q][j].reg # 0
                   PROVE  /\ b.preg[q][j].reg \in b.active
                          /\ b.region[b.preg[q][j].reg].ref = 1
                          /\ b.region[b.preg[q][j].reg].size = b.preg[q][j].size
                          /\ \A q1 \in Procs, j1 \in Slots :
                                b.preg[q1][j1].reg = b.preg[q][j].reg => q1 = q /\ j1 = j
        BY DEF AttachExact
      <3>1. q # p \/ j # i
        BY <2>8, <2>10, <2>12
      <3>2. b.preg[q][j] = m.preg[q][j] /\ m.preg[q][j].reg # r
        BY <2>2, <2>5, <2>8, <2>10, <3>1
      <3>3. /\ m.preg[q][j].reg \in m.active
            /\ m.region[m.preg[q][j].reg].ref = 1
            /\ m.region[m.preg[q][j].reg].size = m.preg[q][j].size
            /\ \A q1 \in Procs, j1 \in Slots :
                  m.preg[q1][j1].reg = m.preg[q][j].reg => q1 = q /\ j1 = j
        BY <1>0, <3>2 DEF AttachExact
      <3>4. \A q1 \in Procs, j1 \in Slots :
                b.preg[q1][j1].reg = b.preg[q][j].reg => b.preg[q1][j1] = m.preg[q1][j1]
        BY <2>5, <2>8, <2>10, <2>12
      <3>5. \A q1 \in Procs, j1 \in Slots :
                b.preg[q1][j1].reg = b.preg[q][j].reg => q1 = q /\ j1 = j
        BY <3>2, <3>3, <3>4
      <3> QED BY <2>1, <2>5, <2>10, <3>2, <3>3, <3>5
    <2> QED BY <2>11, <2>13 DEF Exact, b
  <1> QED BY <1>1, <1>2

(* The regions of R are what they are in m, with their rows.               *)
SameOn(b, m, R) ==
    \A r \in R : /\ r \in b.active
                 /\ b.region[r] = m.region[r]
                 /\ m.region[r].table # 0
                    => b.table[m.region[r].table] = m.table[m.region[r].table]

(* pgtbl_alloc writes a row that is no region's.                           *)
LEMMA PgtblAllocAround ==
    ASSUME NEW m \in Memory, RowsExact(m), NEW r \in m.active, m.region[r].table = 0,
           NEW n \in Nat
    PROVE  /\ SameOn(PgtblAlloc(m, r, n), m, m.active \ {r})
           /\ PgtblAlloc(m, r, n).preg = m.preg
           /\ PgtblAlloc(m, r, n).active = m.active
  <1> DEFINE row == Least(Regs \ m.used)
             new == [j \in Pages |-> IF j <= n THEN 0 ELSE m.table[row][j]]
             b   == PgtblAlloc(m, r, n)
  <1>1. m.used # Regs /\ row \in Regs /\ row \notin m.used
    BY RowLeft
  <1>2. r \in Regs /\ m.active \subseteq Regs
    BY MemFields
  <1>3. /\ b \in Memory
        /\ b.region = [m.region EXCEPT ![r] = [m.region[r] EXCEPT !.table = row]]
        /\ b.table = [m.table EXCEPT ![row] = new]
        /\ b.used = m.used \union {row}
        /\ b.free = m.free /\ b.active = m.active /\ b.ring = m.ring
        /\ b.preg = m.preg
    <2>1. m.used # Regs /\ Least(Regs \ m.used) \in Regs /\ r \in Regs
      BY <1>1, <1>2
    <2> QED BY <2>1, PgtblAllocWrites, Zenon
  <1> HIDE DEF b, new, row
  <1>4. \A x \in m.active : m.region[x].table # 0 => m.region[x].table \in m.used
    BY DEF RowsExact
  <1>5. \A x \in m.active \ {r} : b.region[x] = m.region[x]
    BY <1>2, <1>3, MemFields
  <1>6. \A y \in m.used : b.table[y] = m.table[y]
    BY <1>1, <1>3, MemFields
  <1> QED BY <1>3, <1>4, <1>5, <1>6 DEF SameOn, b

(* The row of a region is no other region's.                               *)
LEMMA RowsApart ==
    ASSUME NEW m, RowsExact(m), NEW r \in m.active, m.region[r].table # 0
    PROVE  \A x \in m.active \ {r} : m.region[x].table # m.region[r].table
  BY DEF RowsExact

(* Page j of a region, 0 for none.                                         *)
PageOf(m, r, j) ==
    IF j > m.region[r].size \/ m.region[r].table = 0 THEN 0
    ELSE m.table[m.region[r].table][j]

(* Region x of d has the pages of region r of m.                           *)
Copied(d, x, m, r) ==
    /\ d.region[x].size = m.region[r].size
    /\ \A j \in Pages : PageOf(d, x, j) = PageOf(m, r, j)

(* dupreg: the copy is fresh, and its table has no frame of the ring. *)
LEMMA DupregExact ==
    ASSUME NEW m, Exact(m), NEW r \in m.active, m.free # <<>>
    PROVE  LET d == Dupreg(m, r)
           IN  /\ Exact(d) /\ Fresh(d, Head(m.free)) /\ d.preg = m.preg
               /\ d.active = m.active \union {Head(m.free)} /\ Head(m.free) \notin m.active
               /\ SameOn(d, m, m.active)
               /\ Copied(d, Head(m.free), m, r)
  <1> DEFINE new  == Head(m.free)
             size == m.region[r].size
             c    == Allocreg(m)
             a    == SetSize(c, new, size)
             b    == PgtblAlloc(a, new, size)
             d    == Dupreg(m, r)
  <1>0. m \in Memory /\ RingExact(m) /\ TabledBut(m, 0) /\ m.active \subseteq Regs
    BY MemFields DEF Exact, PoolExact
  <1>1. r \in Regs /\ m.region[r] \in Region /\ size \in 0 .. MAX_PAGES /\ size \in Nat
    <2>1. r \in Regs /\ m.region[r] \in Region
      BY <1>0, MemFields
    <2>2. size \in 0 .. MAX_PAGES
      BY <2>1 DEF Region
    <2> QED BY <2>1, <2>2
  <1>2. /\ Exact(c) /\ Fresh(c, new) /\ new \in Regs /\ c.active = m.active \union {new}
        /\ c.region[new] = [table |-> 0, size |-> 0, ref |-> 0]
        /\ \A x \in Regs : x # new => c.region[x] = m.region[x]
        /\ new \notin m.active
        /\ c.preg = m.preg /\ c.table = m.table /\ c.ring = m.ring
    BY AllocregExact
  <1>3. d = IF m.region[r].table = 0 \/ size = 0 THEN a ELSE
            [b EXCEPT !.table = [b.table EXCEPT ![b.region[new].table] = [j \in Pages |->
                IF j <= size THEN m.table[m.region[r].table][j]
                ELSE b.table[b.region[new].table][j]]]]
    BY Zenon DEF Dupreg
  <1> HIDE DEF c
  <1>4. /\ a \in Memory
        /\ a.region[new] = [table |-> 0, size |-> size, ref |-> 0]
        /\ \A x \in Regs : x # new => a.region[x] = c.region[x]
        /\ a.free = c.free /\ a.active = c.active /\ a.table = c.table
        /\ a.used = c.used /\ a.ring = c.ring /\ a.preg = c.preg
    <2> DEFINE g == [c.region[new] EXCEPT !.size = size]
               R == [c.region EXCEPT ![new] = g]
    <2>1. a = [c EXCEPT !.region = R]
      BY Zenon DEF SetSize
    <2>2. g = [table |-> 0, size |-> size, ref |-> 0] /\ g \in Region
      BY <1>1, <1>2, RegionAssumption DEF Region
    <2>3. c \in Memory
      BY <1>2 DEF Exact, PoolExact
    <2> HIDE DEF g, a, size, new
    <2>4. R \in [Regs -> Region] /\ R[new] = g /\ \A x \in Regs : x # new => R[x] = c.region[x]
      BY <1>2, <2>2, <2>3, MemFields
    <2> HIDE DEF R
    <2>5. a = SetRegion(c, R)
      BY <2>1 DEF SetRegion
    <2> QED BY <2>2, <2>3, <2>4, <2>5, SetRegionMemory
  <1> HIDE DEF a, b, d, new, size
  <1>5. /\ ListsExact(c) /\ AttachExact(c) /\ RowsExact(c) /\ RingExact(c) /\ TabledBut(c, 0)
        /\ c \in Memory /\ c.active \subseteq Regs /\ new \in c.active
    BY <1>2, MemFields DEF Exact, PoolExact
  <1>6. /\ a.region[new].table = 0 /\ a.region[new].size = size /\ a.region[new].ref = 0
        /\ c.region[new].table = 0
    BY <1>2, <1>4
  <1>7. \A x \in c.active : a.region[x].table = c.region[x].table
    BY <1>4, <1>5, <1>6
  <1>8. ListsExact(a) /\ RingExact(a)
    BY <1>4, <1>5 DEF ListsExact, RingExact
  <1>9. RowsExact(a)
    BY <1>4, <1>5, <1>7 DEF RowsExact
  <1>10. TabledBut(a, new)
    <2>1. \A x \in c.active : x # 0
      BY <1>5 DEF Regs
    <2> QED BY <1>4, <1>5, <2>1 DEF TabledBut
  <1>11. AttachExact(a) /\ Fresh(a, new)
    <2>1. \A p \in Procs, i \in Slots : c.preg[p][i].reg # new
      BY <1>2 DEF Fresh
    <2>2. AttachExact(a)
      BY <1>4, <1>5, <2>1 DEF AttachExact
    <2> QED BY <1>4, <1>5, <1>6, <2>1, <2>2 DEF Fresh
  <1>a. SameOn(a, m, m.active)
    BY <1>0, <1>2, <1>4 DEF SameOn
  <1>12. CASE m.region[r].table = 0 \/ size = 0
    <2>1. size = 0
      <3>1. r \in m.active \ {0}
        BY <1>0 DEF Regs
      <3> QED BY <1>0, <1>1, <1>12, <3>1 DEF TabledBut, size
    <2>2. TabledBut(a, 0)
      BY <1>6, <1>10, <2>1 DEF TabledBut
    <2>3. d = a
      BY <1>3, <1>12
    <2>4. Copied(a, new, m, r)
      BY <1>6, <1>12 DEF Copied, PageOf, Pages, size
    <2> QED BY <1>2, <1>4, <1>8, <1>9, <1>11, <1>a, <2>2, <2>3, <2>4 DEF Exact, PoolExact, new, d
  <1>13. CASE ~(m.region[r].table = 0 \/ size = 0)
    <2> DEFINE row == b.region[new].table
               entries == [j \in Pages |-> IF j <= size
                           THEN m.table[m.region[r].table][j] ELSE b.table[row][j]]
               T == [b.table EXCEPT ![row] = entries]
    <2>1. /\ Exact(b) /\ row \in Regs /\ b.region[new].ref = 0
          /\ b.region[new].size = size
          /\ b.active = a.active /\ b.preg = a.preg /\ b.ring = a.ring
      BY <1>1, <1>4, <1>5, <1>6, <1>8, <1>9, <1>10, <1>11, PgtblAllocExact DEF b
    <2>2. d = [b EXCEPT !.table = T]
      BY <1>3, <1>13
    <2>3. /\ b \in Memory /\ ListsExact(b) /\ AttachExact(b) /\ RowsExact(b) /\ RingExact(b)
          /\ TabledBut(b, 0)
      BY <2>1 DEF Exact, PoolExact
    <2>4. b.ring = m.ring
      BY <1>2, <1>4, <2>1
    <2>5. m.region[r].table \in Regs
      BY <1>1, <1>13 DEF Region
    <2>6. entries \in Row
      <3>1. m.table[m.region[r].table] \in Row /\ b.table[row] \in Row
        BY <1>0, <2>1, <2>3, <2>5, MemFields
      <3> HIDE DEF row
      <3> QED BY <3>1 DEF Row
    <2>7. \A j \in Pages : entries[j] \notin Range(b.ring)
      <3>1. \A j \in Pages : m.table[m.region[r].table][j] \notin Range(b.ring)
        BY <1>0, <2>4, <2>5 DEF RingExact
      <3>2. \A j \in Pages : b.table[row][j] \notin Range(b.ring)
        BY <2>1, <2>3 DEF RingExact
      <3> QED BY <3>1, <3>2
    <2> HIDE DEF entries, row
    <2>8. /\ T \in [Regs -> Row]
          /\ \A x \in Regs : T[x] = IF x = row THEN entries ELSE b.table[x]
      BY <2>1, <2>3, <2>6, MemFields
    <2> HIDE DEF T
    <2>9. d = SetTable(b, T)
      BY <2>2 DEF SetTable
    <2>10. /\ d \in Memory /\ d.table = T
           /\ d.region = b.region /\ d.free = b.free /\ d.active = b.active
           /\ d.used = b.used /\ d.ring = b.ring /\ d.preg = b.preg
      BY <2>3, <2>8, <2>9, SetTableMemory
    <2>11. RingExact(d)
      BY <2>3, <2>7, <2>8, <2>10 DEF RingExact
    <2>12. ListsExact(d) /\ AttachExact(d) /\ RowsExact(d) /\ TabledBut(d, 0)
      BY <2>3, <2>10 DEF ListsExact, AttachExact, RowsExact, TabledBut
    <2>13. Fresh(d, new)
      BY <1>11, <2>1, <2>10 DEF Fresh
    <2>14. Copied(d, new, m, r)
      <3>1. /\ d.region[new].size = size /\ d.region[new].table = row /\ row # 0
            /\ d.table[row] = entries
        BY <2>1, <2>8, <2>10 DEF Regs, row
      <3>2. \A j \in Pages : j <= size => entries[j] = m.table[m.region[r].table][j]
        BY DEF entries
      <3>3. \A j \in Pages : j <= size <=> ~(j > size)
        BY <1>1 DEF Pages
      <3> QED BY <1>13, <3>1, <3>2, <3>3 DEF Copied, PageOf, size
    <2>15. SameOn(d, m, m.active)
      <3>1. new \in a.active /\ a.region[new].table = 0 /\ new \in b.active
        BY <1>4, <1>5, <1>6, <2>1
      <3>2. SameOn(b, a, a.active \ {new})
        BY <1>1, <1>4, <1>9, <3>1, PgtblAllocAround DEF b
      <3>3. \A x \in b.active \ {new} : b.region[x].table # row
        BY <2>1, <2>3, <3>1, RowsApart DEF row, Regs
      <3>4. \A x \in b.active : b.region[x].table # 0 => b.region[x].table \in Regs
        BY <2>3, MemFields DEF Region
      <3>5. SameOn(d, b, b.active \ {new})
        BY <2>8, <2>10, <3>3, <3>4 DEF SameOn
      <3>6. m.active \subseteq a.active \ {new} /\ a.active = b.active
        BY <1>2, <1>4, <2>1
      <3>7. SameOn(b, m, m.active)
        BY <1>a, <3>2, <3>6 DEF SameOn
      <3> QED BY <3>5, <3>6, <3>7 DEF SameOn
    <2> QED BY <1>2, <1>4, <2>1, <2>10, <2>11, <2>12, <2>13, <2>14, <2>15 DEF Exact, PoolExact, new, d
  <1> QED BY <1>12, <1>13

----------------------------------------------------------------------------
(* The loops keep the invariant                                            *)

(* The states of a load in progress. *)
LoadState == [m : Memory, added : Seq(Slots), ok : BOOLEAN]
Loading   == {s \in LoadState : Exact(s.m)}

(* A load that fails where it is. *)
LEMMA LoadFails ==
    ASSUME NEW s \in Loading
    PROVE  [s EXCEPT !.ok = FALSE] \in Loading
  <1>1. s \in LoadState /\ Exact(s.m)
    BY DEF Loading
  <1>2. [s EXCEPT !.ok = FALSE] \in LoadState /\ [s EXCEPT !.ok = FALSE].m = s.m
    BY <1>1 DEF LoadState
  <1> QED BY <1>1, <1>2 DEF Loading

(* The load with memory x, slot i attached. *)
WithSlot(s, x, i) == [s EXCEPT !.m = x, !.added = Append(s.added, i)]

(* A load that goes on from memory x, or fails there. *)
LEMMA LoadStep ==
    ASSUME NEW s \in Loading, NEW x, Exact(x), NEW ok \in BOOLEAN, NEW i \in Slots
    PROVE  /\ [s EXCEPT !.m = x, !.ok = ok] \in Loading
           /\ WithSlot(s, x, i) \in Loading /\ WithSlot(s, x, i).m = x
  <1>1. s \in LoadState /\ x \in Memory /\ Exact(s.m)
    BY DEF Loading, Exact, PoolExact
  <1>3. PICK y : y = [s EXCEPT !.m = x]
    OBVIOUS
  <1>4. y \in LoadState /\ y.m = x /\ y.added = s.added
    BY <1>1, <1>3 DEF LoadState
  <1>5. [y EXCEPT !.ok = ok] \in LoadState /\ [y EXCEPT !.ok = ok].m = x
    BY <1>4 DEF LoadState
  <1>6. [s EXCEPT !.m = x, !.ok = ok] = [y EXCEPT !.ok = ok]
    BY <1>3
  <1>7. Append(s.added, i) \in Seq(Slots)
    BY <1>1 DEF LoadState
  <1> DEFINE l == Append(s.added, i)
  <1> HIDE DEF l
  <1>8. [y EXCEPT !.added = l] \in LoadState /\ [y EXCEPT !.added = l].m = x
    BY <1>4, <1>7 DEF LoadState, l
  <1>9. WithSlot(s, x, i) = [y EXCEPT !.added = l]
    BY <1>3 DEF WithSlot, l
  <1> QED BY <1>1, <1>5, <1>6, <1>8, <1>9 DEF Loading, l

(* The pages zero_tail asks frames for. *)
LEMMA MissingFinite ==
    ASSUME NEW g, Exact(g), NEW p \in Procs, NEW i \in Slots, g.preg[p][i].reg # 0,
           NEW seg \in Segments
    PROVE  Missing(g, p, i, seg) \in SUBSET Nat /\ IsFiniteSet(Missing(g, p, i, seg))
  <1> DEFINE size == g.region[g.preg[p][i].reg].size
             top  == Least({seg.mem, size})
             need == Missing(g, p, i, seg)
  <1>1. seg.file \in Nat /\ seg.mem \in Nat
    BY DEF Segments
  <1>2. size \in Nat
    <2>1. g \in Memory
      BY DEF Exact, PoolExact
    <2>2. g.preg[p][i] \in Preg
      BY <2>1, MemFields
    <2>3. g.preg[p][i].reg \in Regs
      BY <2>2 DEF Preg
    <2>4. g.region[g.preg[p][i].reg] \in Region
      BY <2>1, <2>3, MemFields
    <2> QED BY <2>4, RegionAssumption DEF Region
  <1>3. top \in Nat
    BY <1>1, <1>2, PagesUpTo
  <1>4. need \subseteq (seg.file + 1) .. top
    BY DEF Missing
  <1> HIDE DEF top, need
  <1>5. IsFiniteSet((seg.file + 1) .. top)
    <2>1. seg.file + 1 \in Int /\ top \in Int
      BY <1>1, <1>3
    <2> QED BY <2>1, FS_Interval
  <1>6. (seg.file + 1) .. top \subseteq Nat
    BY <1>1, <1>3
  <1>7. need \in SUBSET Nat /\ IsFiniteSet(need)
    BY <1>4, <1>5, <1>6, FS_Subset
  <1> QED BY <1>7 DEF need

(* zero_tail. *)
LEMMA ZeroTailExact ==
    ASSUME NEW s \in Loading, NEW p \in Procs, NEW i \in Slots, NEW seg \in Segments,
           s.m.preg[p][i].reg # 0
    PROVE  ZeroTail(s, p, i, seg) \in Loading
  <1> DEFINE g    == Tailed(s.m, p, i, seg)
             row  == g.region[g.preg[p][i].reg].table
             need == Missing(g, p, i, seg)
             x    == Fill(g, row, need)
             ok   == Cardinality(need) <= Len(g.ring)
  <1>1. Exact(s.m) /\ s.m \in Memory
    BY DEF Loading, Exact, PoolExact
  <1>2. seg.file \in Nat /\ seg.mem \in Nat
    BY DEF Segments
  <1>3. Exact(g) /\ SameRegs(g, s.m)
    <2>1. s.m.preg[p][i] \in Preg
      BY <1>1, MemFields
    <2>2. s.m.preg[p][i].size \in Nat
      BY <2>1, RegionAssumption DEF Preg
    <2>3. s.m.preg[p][i].size + seg.mem - seg.file \in Int
      BY <1>2, <2>2
    <2> QED BY <1>1, <2>3, GrowregExact DEF Tailed
  <1> HIDE DEF g
  <1>4. g \in Memory /\ g.preg[p][i].reg \in Regs
    <2>1. g \in Memory /\ g.preg[p][i].reg # 0
      BY <1>3 DEF Exact, PoolExact, SameRegs
    <2>2. g.preg[p][i] \in Preg
      BY <2>1, MemFields
    <2> QED BY <2>1, <2>2 DEF Preg
  <1>5. g.region[g.preg[p][i].reg] \in Region
    BY <1>4, MemFields
  <1>6. row \in {0} \union Regs
    BY <1>5 DEF Region
  <1>7. need \in SUBSET Nat /\ IsFiniteSet(need)
    <2>1. g.preg[p][i].reg # 0
      BY <1>3 DEF SameRegs
    <2> QED BY <1>3, <2>1, MissingFinite
  <1>8. ZeroTail(s, p, i, seg) = IF seg.mem <= seg.file THEN s
                                 ELSE IF row = 0 THEN [s EXCEPT !.m = g, !.ok = FALSE]
                                 ELSE [s EXCEPT !.m = x, !.ok = ok]
    BY Zenon DEF ZeroTail, g
  <1>9. ok \in BOOLEAN
    OBVIOUS
  <1> HIDE DEF row, need, ok, x
  <1>10. [s EXCEPT !.m = g, !.ok = FALSE] \in Loading
    BY <1>3, LoadStep
  <1>11. CASE row # 0
    <2>1. row \in Regs
      BY <1>6, <1>11
    <2>2. Exact(x)
      BY <1>3, <1>7, <2>1, FillExact DEF x
    <2>3. [s EXCEPT !.m = x, !.ok = ok] \in Loading
      BY <1>9, <2>2, LoadStep
    <2> QED BY <1>8, <1>10, <2>3
  <1>12. CASE row = 0
    BY <1>8, <1>10, <1>12
  <1> QED BY <1>11, <1>12

(* load_one_segment. *)
LEMMA LoadSegmentExact ==
    ASSUME NEW s \in Loading, NEW p \in Procs, NEW seg \in Segments
    PROVE  LoadSegment(s, p, seg) \in Loading
  <1> DEFINE r == Head(s.m.free)
             a == Allocreg(s.m)
             i == Least(Slots \ Taken(a, p))
             b == Attachreg(a, p, r, seg.type)
             c == IF seg.file = 0 THEN b ELSE Loadreg(b, p, i, seg.file, seg.good)
             t == WithSlot(s, c, i)
             loaded == Loaded(b, p, i, seg.file, seg.good)
  <1>1. Exact(s.m)
    BY DEF Loading
  <1>2. seg.file \in Nat /\ seg.mem \in Nat /\ seg.type \in Types
        /\ (~(seg.good < 0) => seg.good \in Nat)
    BY DEF Segments, Types
  <1>3. LoadSegment(s, p, seg) =
            IF seg.good < 0 THEN [s EXCEPT !.ok = FALSE]
            ELSE IF seg.file = 0 /\ seg.mem = 0 THEN s
            ELSE IF s.m.free = <<>> THEN [s EXCEPT !.ok = FALSE]
            ELSE IF Taken(a, p) = Slots THEN [s EXCEPT !.m = a, !.ok = FALSE]
            ELSE IF seg.file > 0 /\ ~loaded THEN [t EXCEPT !.ok = FALSE]
            ELSE ZeroTail(t, p, i, seg)
    BY Zenon DEF LoadSegment, WithSlot
  <1> HIDE DEF a, b, c, t, i, loaded
  <1>4. [s EXCEPT !.ok = FALSE] \in Loading
    BY LoadFails
  <1>5. CASE ~(seg.good < 0) /\ s.m.free # <<>>
    <2>1. Exact(a) /\ Fresh(a, r) /\ r \in Regs
      BY <1>1, <1>5, AllocregExact DEF a
    <2>2. CASE Taken(a, p) = Slots
      <3>1. 1 \in Slots
        BY RegionAssumption DEF Slots
      <3>2. [s EXCEPT !.m = a, !.ok = FALSE] \in Loading
        BY <2>1, <3>1, LoadStep
      <3> QED BY <1>3, <1>4, <2>2, <3>2
    <2>3. CASE Taken(a, p) # Slots
      <3>1. /\ Exact(b) /\ i \in Slots /\ b.preg[p][i].reg = r
        BY <1>2, <2>1, <2>3, AttachregExact DEF b, i
      <3>2. r # 0
        BY <2>1 DEF Regs
      <3>3. Exact(c) /\ c.preg[p][i].reg # 0
        <4>1. CASE seg.file = 0
          BY <3>1, <3>2, <4>1 DEF c
        <4>2. CASE seg.file # 0
          <5>1. LET d == Loadreg(b, p, i, seg.file, seg.good)
                IN  Exact(d) /\ SameRegs(d, b)
            BY <1>2, <1>5, <3>1, <3>2, LoadregExact
          <5> QED BY <3>1, <3>2, <4>2, <5>1 DEF c, SameRegs
        <4> QED BY <4>1, <4>2
      <3>4. t \in Loading /\ t.m = c
        <4>1. TRUE \in BOOLEAN
          OBVIOUS
        <4> QED BY <3>1, <3>3, <4>1, LoadStep DEF t
      <3>5. [t EXCEPT !.ok = FALSE] \in Loading
        BY <3>4, LoadFails
      <3>6. ZeroTail(t, p, i, seg) \in Loading
        BY <3>1, <3>3, <3>4, ZeroTailExact
      <3> QED BY <1>3, <1>4, <3>5, <3>6, <1>5, <2>3
    <2> QED BY <2>2, <2>3
  <1>6. CASE seg.good < 0 \/ s.m.free = <<>>
    BY <1>3, <1>4, <1>6
  <1> QED BY <1>5, <1>6

(* The memories such a loop goes through.                                  *)
LoadRun(F, m, p, image) ==
    /\ F[0] = [m |-> m, added |-> <<>>, ok |-> TRUE]
    /\ \A k \in 1 .. Len(image) : F[k] = NextSegment(F[k - 1], p, image[k])
    /\ \A k \in 0 .. Len(image) : F[k] \in Loading
    /\ LoadSegments(m, p, image) = F[Len(image)]

(* load_segments. *)
LEMMA LoadSegmentsRun ==
    ASSUME NEW m, Exact(m), NEW p \in Procs, NEW image \in Seq(Segments)
    PROVE  \E F : LoadRun(F, m, p, image)
  <1> DEFINE L == Len(image)
             base == [m |-> m, added |-> <<>>, ok |-> TRUE]
             Body(f) == [k \in 0 .. L |-> IF k = 0 THEN base
                                         ELSE NextSegment(f[k - 1], p, image[k])]
             F == CHOOSE f : f = Body(f)
             I == [k \in 0 .. L |-> Loading]
             step == [k \in 1 .. L |-> [s \in Loading |-> NextSegment(s, p, image[k])]]
  <1>1. L \in Nat /\ \A k \in 1 .. L : image[k] \in Segments
    OBVIOUS
  <1>2. base \in Loading
    <2>1. m \in Memory
      BY DEF Exact, PoolExact
    <2> QED BY <2>1 DEF Loading, LoadState
  <1>3. \A k \in 1 .. L : \A s \in Loading : NextSegment(s, p, image[k]) \in Loading
    BY <1>1, LoadSegmentExact DEF NextSegment
  <1> HIDE DEF L, base
  <1>4. \E f : f = Body(f)
    <2>1. I \in [0 .. L -> SUBSET Loading] /\ base \in I[0]
      BY <1>1, <1>2
    <2>2. \A k \in 1 .. L : k - 1 \in 0 .. L
      BY <1>1
    <2>3. \A k \in 1 .. L : \A s \in I[k - 1] : step[k][s] \in I[k]
      BY <1>1, <1>3, <2>2
    <2>4. PICK f : Loop(f, L, I, base, step)
      <3> HIDE DEF I, step
      <3> QED BY <1>1, <2>1, <2>3, LoopExists
    <2>5. \A k \in 1 .. L : f[k] = NextSegment(f[k - 1], p, image[k])
      BY <2>2, <2>4 DEF Loop
    <2>6. \A k \in 0 .. L : f[k] = IF k = 0 THEN base
                                   ELSE NextSegment(f[k - 1], p, image[k])
      BY <1>1, <2>4, <2>5 DEF Loop
    <2> QED BY <2>4, <2>6 DEF Loop
  <1>5. F = Body(F)
    BY <1>4
  <1> HIDE DEF F
  <1>6. /\ F[0] = base
        /\ \A k \in 1 .. L : F[k] = NextSegment(F[k - 1], p, image[k])
    BY <1>1, <1>5
  <1>7. \A k \in 0 .. L : F[k] \in Loading
    <2>1. F[0] \in I[0]
      BY <1>1, <1>2, <1>6
    <2>2. \A k \in 1 .. L : F[k - 1] \in I[k - 1] => F[k] \in I[k]
      BY <1>1, <1>3, <1>6
    <2>3. \A k \in 0 .. L : F[k] \in I[k]
      <3> HIDE DEF I
      <3> QED BY <1>1, <2>1, <2>2, LoopUpTo
    <2> QED BY <1>1, <2>3
  <1>8. LoadSegments(m, p, image) = F[L]
    BY DEF LoadSegments, F, L, base
  <1> QED BY <1>6, <1>7, <1>8 DEF LoadRun, L, base

(* So it ends in an exact memory. *)
LEMMA LoadSegmentsExact ==
    ASSUME NEW m, Exact(m), NEW p \in Procs, NEW image \in Seq(Segments)
    PROVE  LoadSegments(m, p, image) \in Loading
  <1>1. Len(image) \in Nat
    OBVIOUS
  <1>2. Len(image) \in 0 .. Len(image)
    BY <1>1
  <1> QED BY <1>2, LoadSegmentsRun DEF LoadRun

(* The exact states of the memory. *)
Kept == {m \in Memory : Exact(m)}

(* The memories for which Exact holds are those of Kept. *)
LEMMA KeptIs ==
    ASSUME NEW m
    PROVE  m \in Kept <=> Exact(m)
  BY DEF Kept, Exact, PoolExact

(* The memories such a loop goes through.                                  *)
DetachRun(F, m, p, added) ==
    /\ F[0] = m
    /\ \A k \in 1 .. Len(added) :
           F[k] = Detachreg(F[k - 1], p, added[Len(added) - k + 1])
    /\ \A k \in 0 .. Len(added) : F[k] \in Kept
    /\ AttachFailed(m, p, added) = F[Len(added)]

(* attach_failed. *)
LEMMA AttachFailedRun ==
    ASSUME NEW m, Exact(m), NEW p \in Procs, NEW added \in Seq(Slots)
    PROVE  \E F : DetachRun(F, m, p, added)
  <1> DEFINE L == Len(added)
             Body(f) == [k \in 0 .. L |-> IF k = 0 THEN m
                            ELSE Detachreg(f[k - 1], p, added[L - k + 1])]
             F == CHOOSE f : f = Body(f)
             I == [k \in 0 .. L |-> Kept]
             step == [k \in 1 .. L |-> [x \in Kept |-> Detachreg(x, p, added[L - k + 1])]]
  <1>1. L \in Nat /\ \A k \in 1 .. L : added[L - k + 1] \in Slots
    <2>1. L \in Nat /\ \A k \in 1 .. L : added[k] \in Slots
      OBVIOUS
    <2> HIDE DEF L
    <2>2. \A k \in 1 .. L : L - k + 1 \in 1 .. L
      BY <2>1
    <2> QED BY <2>1, <2>2
  <1>2. m \in Kept
    BY KeptIs
  <1>3. \A k \in 1 .. L : \A x \in Kept : Detachreg(x, p, added[L - k + 1]) \in Kept
    BY <1>1, DetachregExact, KeptIs
  <1>8. AttachFailed(m, p, added) = F[L]
    BY DEF AttachFailed
  <1> HIDE DEF L
  <1>4. \E f : f = Body(f)
    <2>1. I \in [0 .. L -> SUBSET Kept] /\ m \in I[0]
      BY <1>1, <1>2
    <2>2. \A k \in 1 .. L : k - 1 \in 0 .. L
      BY <1>1
    <2>3. \A k \in 1 .. L : \A x \in I[k - 1] : step[k][x] \in I[k]
      BY <1>1, <1>3, <2>2
    <2>4. PICK f : Loop(f, L, I, m, step)
      <3> HIDE DEF I, step
      <3> QED BY <1>1, <2>1, <2>3, LoopExists
    <2>5. \A k \in 1 .. L : f[k] = Detachreg(f[k - 1], p, added[L - k + 1])
      BY <2>2, <2>4 DEF Loop
    <2>6. \A k \in 0 .. L : f[k] = IF k = 0 THEN m
                                   ELSE Detachreg(f[k - 1], p, added[L - k + 1])
      <3>1. f[0] = m /\ \A k \in 0 .. L : k = 0 \/ k \in 1 .. L
        BY <1>1, <2>4 DEF Loop
      <3> HIDE DEF I, step
      <3> QED BY <2>5, <3>1
    <2>7. f = [k \in 0 .. L |-> f[k]]
      <3> HIDE DEF I, step
      <3> QED BY <2>4 DEF Loop
    <2> HIDE DEF I, step
    <2> QED BY <2>6, <2>7
  <1>5. F = Body(F)
    BY <1>4
  <1> HIDE DEF F
  <1>6. /\ F[0] = m
        /\ \A k \in 1 .. L : F[k] = Detachreg(F[k - 1], p, added[L - k + 1])
    BY <1>1, <1>5
  <1>7. \A k \in 0 .. L : F[k] \in Kept
    <2>1. F[0] \in I[0]
      BY <1>1, <1>2, <1>6
    <2>2. \A k \in 1 .. L : F[k - 1] \in I[k - 1] => F[k] \in I[k]
      BY <1>1, <1>3, <1>6
    <2>3. \A k \in 0 .. L : F[k] \in I[k]
      <3> HIDE DEF I
      <3> QED BY <1>1, <2>1, <2>2, LoopUpTo
    <2> QED BY <1>1, <2>3
  <1> QED BY <1>6, <1>7, <1>8 DEF DetachRun, L

(* So it ends in an exact memory. *)
LEMMA AttachFailedExact ==
    ASSUME NEW m, Exact(m), NEW p \in Procs, NEW added \in Seq(Slots)
    PROVE  Exact(AttachFailed(m, p, added))
  <1>1. Len(added) \in Nat
    OBVIOUS
  <1>2. Len(added) \in 0 .. Len(added)
    BY <1>1
  <1> QED BY <1>2, AttachFailedRun, KeptIs DEF DetachRun

(* The memories such a loop goes through.                                  *)
UndoRun(F, m, child) ==
    /\ F[0] = m
    /\ \A k \in 1 .. MAX_REG_PER_PROC : F[k] = Detachreg(F[k - 1], child, k)
    /\ \A k \in 0 .. MAX_REG_PER_PROC : F[k] \in Kept
    /\ ForkUndo(m, child) = F[MAX_REG_PER_PROC]

(* The unwinding of a fork. *)
LEMMA ForkUndoRun ==
    ASSUME NEW m, Exact(m), NEW child \in Procs
    PROVE  \E F : UndoRun(F, m, child)
  <1> DEFINE L == MAX_REG_PER_PROC
             Body(f) == [k \in 0 .. L |-> IF k = 0 THEN m
                                         ELSE Detachreg(f[k - 1], child, k)]
             F == CHOOSE f : f = Body(f)
             I == [k \in 0 .. L |-> Kept]
             step == [k \in 1 .. L |-> [x \in Kept |-> Detachreg(x, child, k)]]
  <1>1. L \in Nat /\ \A k \in 1 .. L : k \in Slots
    BY RegionAssumption DEF Slots
  <1>2. m \in Kept
    BY KeptIs
  <1>3. \A k \in 1 .. L : \A x \in Kept : Detachreg(x, child, k) \in Kept
    BY <1>1, DetachregExact, KeptIs
  <1>8. ForkUndo(m, child) = F[L]
    BY DEF ForkUndo
  <1>4. \E f : f = Body(f)
    <2>1. I \in [0 .. L -> SUBSET Kept] /\ m \in I[0]
      BY <1>1, <1>2
    <2>2. \A k \in 1 .. L : k - 1 \in 0 .. L
      BY <1>1
    <2>3. \A k \in 1 .. L : \A x \in I[k - 1] : step[k][x] \in I[k]
      BY <1>1, <1>3, <2>2
    <2>4. PICK f : Loop(f, L, I, m, step)
      <3> HIDE DEF I, step
      <3> QED BY <1>1, <2>1, <2>3, LoopExists
    <2>5. \A k \in 1 .. L : f[k] = Detachreg(f[k - 1], child, k)
      BY <2>2, <2>4 DEF Loop
    <2>6. \A k \in 0 .. L : f[k] = IF k = 0 THEN m ELSE Detachreg(f[k - 1], child, k)
      BY <1>1, <2>4, <2>5 DEF Loop
    <2> QED BY <2>4, <2>6 DEF Loop
  <1>5. F = Body(F)
    BY <1>4
  <1> HIDE DEF F
  <1>6. F[0] = m /\ \A k \in 1 .. L : F[k] = Detachreg(F[k - 1], child, k)
    BY <1>1, <1>5
  <1>7. \A k \in 0 .. L : F[k] \in Kept
    <2>1. F[0] \in I[0]
      BY <1>1, <1>2, <1>6
    <2>2. \A k \in 1 .. L : F[k - 1] \in I[k - 1] => F[k] \in I[k]
      BY <1>1, <1>3, <1>6
    <2>3. \A k \in 0 .. L : F[k] \in I[k]
      <3> HIDE DEF I
      <3> QED BY <1>1, <2>1, <2>2, LoopUpTo
    <2> QED BY <1>1, <2>3
  <1> QED BY <1>6, <1>7, <1>8 DEF UndoRun, L

(* So it ends in an exact memory. *)
LEMMA ForkUndoExact ==
    ASSUME NEW m, Exact(m), NEW child \in Procs
    PROVE  Exact(ForkUndo(m, child))
  <1>1. MAX_REG_PER_PROC \in 0 .. MAX_REG_PER_PROC
    BY RegionAssumption
  <1> QED BY <1>1, ForkUndoRun, KeptIs DEF UndoRun

(* A fork in progress, after k slots of the parent: the child has taken no *)
(* slot beyond them, so that one is left for the next region.              *)
ForkState         == [m : Memory, ok : BOOLEAN]
Forking(child, k) == {s \in ForkState : Exact(s.m) /\ Taken(s.m, child) \subseteq 1 .. k}

(* fork_regions, one slot of the parent. *)
LEMMA ForkRegionExact ==
    ASSUME NEW p \in Procs, NEW child \in Procs, NEW k \in Slots,
           NEW s \in Forking(child, k - 1)
    PROVE  ForkRegion(s, p, child, k) \in Forking(child, k)
  <1> DEFINE r   == s.m.preg[p][k].reg
             new == Head(s.m.free)
             t   == s.m.preg[p][k].type
             d   == Dupreg(s.m, r)
             b   == Attachreg(d, child, new, t)
  <1>1. s \in ForkState /\ s.m \in Memory /\ Exact(s.m) /\ Taken(s.m, child) \subseteq 1 .. (k - 1)
    BY DEF Forking, Exact, PoolExact
  <1>2. k \in Nat /\ k \in Slots /\ k \in 1 .. k /\ 1 .. (k - 1) \subseteq 1 .. k
    BY DEF Slots
  <1>3. s \in Forking(child, k)
    BY <1>1, <1>2 DEF Forking
  <1>4. ForkRegion(s, p, child, k) =
            IF ~s.ok \/ r = 0 THEN s
            ELSE IF s.m.free = <<>> THEN [s EXCEPT !.ok = FALSE]
            ELSE [s EXCEPT !.m = b]
    BY Zenon DEF ForkRegion
  <1>5. CASE ~s.ok \/ r = 0
    BY <1>3, <1>4, <1>5
  <1>6. CASE ~(~s.ok \/ r = 0) /\ s.m.free = <<>>
    <2>1. [s EXCEPT !.ok = FALSE] \in ForkState /\ [s EXCEPT !.ok = FALSE].m = s.m
      BY <1>1 DEF ForkState
    <2>2. [s EXCEPT !.ok = FALSE] \in Forking(child, k)
      BY <1>3, <2>1 DEF Forking
    <2> QED BY <1>4, <1>6, <2>2
  <1>7. CASE ~(~s.ok \/ r = 0) /\ s.m.free # <<>>
    <2>1. s.m.preg[p][k] \in Preg
      BY <1>1, <1>2, MemFields
    <2>2. t \in Types
      BY <2>1 DEF Preg
    <2>3. r \in s.m.active
      BY <1>1, <1>7 DEF Exact, AttachExact
    <2>4. Exact(d) /\ Fresh(d, new) /\ d.preg = s.m.preg
      BY <1>1, <1>7, <2>3, DupregExact
    <2> HIDE DEF r, d, new, t
    <2>5. Taken(d, child) \subseteq 1 .. (k - 1) /\ k \notin Taken(d, child)
      BY <1>1, <1>2, <2>4 DEF Taken
    <2>6. PICK i : i = Least(Slots \ Taken(d, child))
      OBVIOUS
    <2>7. /\ Exact(b) /\ i \in Slots /\ i <= k
          /\ Taken(b, child) = Taken(d, child) \union {i}
      <3>1. Taken(d, child) # Slots
        BY <2>5
      <3>2. /\ Exact(b) /\ i \in Slots
            /\ \A j \in Slots \ Taken(d, child) : i <= j
            /\ Taken(b, child) = Taken(d, child) \union {i}
        BY <2>2, <2>4, <2>6, <3>1, AttachregExact DEF b
      <3> QED BY <2>5, <3>2
    <2> HIDE DEF b
    <2>8. Taken(b, child) \subseteq 1 .. k
      <3>1. i \in 1 .. k
        BY <1>2, <2>7 DEF Slots
      <3> QED BY <1>2, <2>5, <2>7, <3>1
    <2>9. [s EXCEPT !.m = b] \in ForkState /\ [s EXCEPT !.m = b].m = b
      <3>1. b \in Memory
        BY <2>7 DEF Exact, PoolExact
      <3> QED BY <1>1, <3>1 DEF ForkState
    <2>10. [s EXCEPT !.m = b] \in Forking(child, k)
      BY <2>7, <2>8, <2>9 DEF Forking
    <2> QED BY <1>4, <1>7, <2>10 DEF b, d, new, r, t
  <1> QED BY <1>5, <1>6, <1>7

(* The memories such a loop goes through.                                  *)
ForkRun(F, m, p, child) ==
    /\ F[0] = [m |-> m, ok |-> TRUE]
    /\ \A k \in 1 .. MAX_REG_PER_PROC : F[k] = ForkRegion(F[k - 1], p, child, k)
    /\ \A k \in 0 .. MAX_REG_PER_PROC : F[k] \in Forking(child, k)
    /\ ForkRegions(m, p, child) = F[MAX_REG_PER_PROC]

(* fork_regions. *)
LEMMA ForkRegionsRun ==
    ASSUME NEW m, Exact(m), NEW p \in Procs, NEW child \in Procs, Taken(m, child) = {}
    PROVE  \E F : ForkRun(F, m, p, child)
  <1> DEFINE L == MAX_REG_PER_PROC
             base == [m |-> m, ok |-> TRUE]
             Body(f) == [k \in 0 .. L |-> IF k = 0 THEN base
                                         ELSE ForkRegion(f[k - 1], p, child, k)]
             F == CHOOSE f : f = Body(f)
             I == [k \in 0 .. L |-> Forking(child, k)]
             step == [k \in 1 .. L |-> [s \in ForkState |-> ForkRegion(s, p, child, k)]]
  <1>1. L \in Nat /\ \A k \in 1 .. L : k \in Slots /\ k - 1 \in 0 .. L /\ k \in 0 .. L
    BY RegionAssumption DEF Slots
  <1>2. base \in Forking(child, 0)
    <2>1. m \in Memory
      BY DEF Exact, PoolExact
    <2> QED BY <2>1 DEF Forking, ForkState
  <1>3. \A k \in 1 .. L : \A s \in Forking(child, k - 1) :
            ForkRegion(s, p, child, k) \in Forking(child, k)
    BY <1>1, ForkRegionExact
  <1>8. ForkRegions(m, p, child) = F[L]
    BY DEF ForkRegions
  <1> HIDE DEF base
  <1>a. \A k : Forking(child, k) \in SUBSET ForkState
    BY DEF Forking
  <1>4. \E f : f = Body(f)
    <2>1. I \in [0 .. L -> SUBSET ForkState] /\ base \in I[0]
      BY <1>1, <1>2, <1>a
    <2>3. \A k \in 1 .. L : \A s \in I[k - 1] : step[k][s] \in I[k]
      BY <1>1, <1>3, <1>a
    <2>4. PICK f : Loop(f, L, I, base, step)
      <3> HIDE DEF I, step
      <3> QED BY <1>1, <2>1, <2>3, LoopExists
    <2>5. \A k \in 1 .. L : f[k] = ForkRegion(f[k - 1], p, child, k)
      BY <1>1, <1>a, <2>4 DEF Loop
    <2>6. \A k \in 0 .. L : f[k] = IF k = 0 THEN base ELSE ForkRegion(f[k - 1], p, child, k)
      <3>1. f[0] = base /\ \A k \in 0 .. L : k = 0 \/ k \in 1 .. L
        BY <1>1, <2>4 DEF Loop
      <3> HIDE DEF I, step
      <3> QED BY <2>5, <3>1
    <2>7. f = [k \in 0 .. L |-> f[k]]
      <3> HIDE DEF I, step
      <3> QED BY <2>4 DEF Loop
    <2> HIDE DEF I, step
    <2> QED BY <2>6, <2>7
  <1>5. F = Body(F)
    BY <1>4
  <1> HIDE DEF F
  <1>6. F[0] = base /\ \A k \in 1 .. L : F[k] = ForkRegion(F[k - 1], p, child, k)
    BY <1>1, <1>5
  <1>7. \A k \in 0 .. L : F[k] \in Forking(child, k)
    <2>1. F[0] \in I[0]
      BY <1>1, <1>2, <1>6
    <2>2. \A k \in 1 .. L : F[k - 1] \in I[k - 1] => F[k] \in I[k]
      BY <1>1, <1>3, <1>6
    <2>3. \A k \in 0 .. L : F[k] \in I[k]
      <3> HIDE DEF I
      <3> QED BY <1>1, <2>1, <2>2, LoopUpTo
    <2> QED BY <1>1, <2>3
  <1> QED BY <1>6, <1>7, <1>8 DEF ForkRun, L, base

(* So it ends in an exact memory. *)
LEMMA ForkRegionsExact ==
    ASSUME NEW m, Exact(m), NEW p \in Procs, NEW child \in Procs, Taken(m, child) = {}
    PROVE  Exact(ForkRegions(m, p, child).m)
  <1>1. MAX_REG_PER_PROC \in 0 .. MAX_REG_PER_PROC
    BY RegionAssumption
  <1>2. PICK F : ForkRun(F, m, p, child)
    BY ForkRegionsRun
  <1>3. ForkRegions(m, p, child) \in Forking(child, MAX_REG_PER_PROC)
    BY <1>1, <1>2 DEF ForkRun
  <1> QED BY <1>3 DEF Forking

----------------------------------------------------------------------------
(* The calls *)

(* What the other variables hold. *)
ProcsOK == /\ pstate \in [Procs -> {"unused", "live", "zombie"}]
           /\ ppid \in [Procs -> {0} \union Procs]
           /\ calls \in 0 .. MaxCalls

(* The invariant. *)
IInv == Exact(mem) /\ ProcsOK

(* A call is counted. *)
LEMMA MadeCounts ==
    ASSUME NEW op, NEW p, NEW child, NEW ok, ProcsOK, Made(op, p, child, ok)
    PROVE  calls' \in 0 .. MaxCalls
  BY RegionAssumption DEF ProcsOK, Made

(* The numbers up to n, in order. *)
LEMMA Counting ==
    ASSUME NEW n \in Nat
    PROVE  [i \in 1 .. n |-> i] \in Seq(1 .. n)
  <1>1. [i \in 1 .. n |-> i] \in [1 .. n -> 1 .. n]
    OBVIOUS
  <1>2. ASSUME NEW T, NEW f \in [1 .. n -> T] PROVE f \in Seq(T)
    BY SeqDef
  <1> QED BY <1>1, <1>2

(* The initial memory: every region free, every frame on the ring. *)
LEMMA InitExact ==
    Init => IInv
  <1> SUFFICES ASSUME Init PROVE IInv
    OBVIOUS
  <1> DEFINE blank == [table |-> 0, size |-> 0, ref |-> 0]
  <1>1. /\ mem.region = [r \in Regs |-> blank]
        /\ mem.free = [r \in Regs |-> r] /\ mem.active = {}
        /\ mem.table = [r \in Regs |-> [j \in Pages |-> 0]] /\ mem.used = {}
        /\ mem.ring = [f \in Frames |-> f]
        /\ mem.preg = [p \in Procs |-> Blank]
        /\ mem = [region |-> mem.region, free |-> mem.free, active |-> mem.active,
                  table |-> mem.table, used |-> mem.used, ring |-> mem.ring,
                  preg |-> mem.preg]
    BY DEF Init
  <1>2. /\ NREGION \in Nat /\ NFRAMES \in Nat /\ MAX_PAGES \in Nat
        /\ MaxCalls \in Nat /\ NPROC \in Nat /\ NPROC # 0
    BY RegionAssumption
  <1>3. /\ blank \in Region
        /\ [j \in Pages |-> 0] \in Row
    BY <1>2 DEF Region, Row
  <1>4. Empty \in Preg /\ Empty.reg = 0
    BY <1>2 DEF Empty, Preg, Types
  <1>5. mem.free \in Seq(Regs) /\ mem.ring \in Seq(Frames)
    BY <1>1, <1>2, Counting DEF Regs, Frames
  <1>6. \A p \in Procs, i \in Slots : mem.preg[p][i] = Empty
    BY <1>1 DEF Blank
  <1>7. mem.preg \in [Procs -> [Slots -> Preg]]
    BY <1>1, <1>4 DEF Blank
  <1> HIDE DEF blank
  <1>8. mem \in Memory
    <2>1. mem.region \in [Regs -> Region] /\ mem.table \in [Regs -> Row]
      BY <1>1, <1>3
    <2>2. mem.active \in SUBSET Regs /\ mem.used \in SUBSET Regs
      BY <1>1
    <2> QED BY <1>1, <1>5, <1>7, <2>1, <2>2 DEF Memory
  <1>9. ListsExact(mem)
    <2>1. IsInjective(mem.free)
      BY <1>1 DEF IsInjective
    <2>2. Range(mem.free) = Regs
      BY <1>1 DEF Range
    <2> QED BY <1>1, <2>1, <2>2 DEF ListsExact
  <1>10. RowsExact(mem) /\ TabledBut(mem, 0)
    BY <1>1 DEF RowsExact, TabledBut
  <1>11. RingExact(mem)
    <2>1. IsInjective(mem.ring)
      BY <1>1 DEF IsInjective
    <2>2. 0 \notin Range(mem.ring)
      BY <1>1, <1>2 DEF Range, Frames
    <2> QED BY <1>1, <2>1, <2>2 DEF RingExact
  <1>12. AttachExact(mem)
    BY <1>4, <1>6 DEF AttachExact
  <1>13. ProcsOK
    <2>1. ppid \in [Procs -> {0} \union Procs] /\ calls \in 0 .. MaxCalls
      BY <1>2 DEF Init
    <2>2. pstate \in [Procs -> {"unused", "live", "zombie"}]
      BY DEF Init
    <2> QED BY <2>1, <2>2 DEF ProcsOK
  <1> QED BY <1>8, <1>9, <1>10, <1>11, <1>12, <1>13 DEF IInv, Exact, PoolExact

(* A program loads, or what it attached is detached. *)
LEMMA ExecKeeps ==
    ASSUME IInv, NEW p \in Procs, NEW image \in Images, Exec(p, image)
    PROVE  IInv'
  <1> DEFINE s == LoadSegments(mem, p, image)
  <1>1. s \in Loading
    <2>1. image \in Seq(Segments)
      BY RegionAssumption
    <2> QED BY <2>1, LoadSegmentsExact DEF IInv
  <1>2. /\ mem' = IF s.ok THEN s.m ELSE AttachFailed(s.m, p, s.added)
        /\ UNCHANGED <<pstate, ppid>> /\ Made("exec", p, 0, s.ok)
    BY DEF Exec
  <1> HIDE DEF s
  <1>3. Exact(s.m) /\ s.added \in Seq(Slots)
    BY <1>1 DEF Loading, LoadState
  <1>4. Exact(mem')
    <2>1. Exact(AttachFailed(s.m, p, s.added))
      BY <1>3, AttachFailedExact
    <2> QED BY <1>2, <1>3, <2>1
  <1>5. calls' \in 0 .. MaxCalls
    BY <1>2, MadeCounts DEF IInv
  <1> QED BY <1>2, <1>4, <1>5 DEF IInv, ProcsOK

(* The slot of a process that is cleared before its fork. *)
LEMMA ClearedExact ==
    ASSUME NEW m, Exact(m), NEW child \in Procs,
           NEW b, b = [m EXCEPT !.preg[child] = Blank]
    PROVE  Exact(b) /\ Taken(b, child) = {}
  <1> DEFINE P == [m.preg EXCEPT ![child] = Blank]
  <1>1. /\ m \in Memory /\ ListsExact(m) /\ RowsExact(m) /\ RingExact(m)
        /\ TabledBut(m, 0) /\ AttachExact(m)
    BY DEF Exact, PoolExact
  <1>2. Empty \in Preg /\ Empty.reg = 0
    BY RegionAssumption DEF Empty, Preg, Types
  <1>3. Blank \in [Slots -> Preg] /\ \A i \in Slots : Blank[i].reg = 0
    BY <1>2 DEF Blank
  <1>4. /\ P \in [Procs -> [Slots -> Preg]] /\ P[child] = Blank
        /\ \A q \in Procs : q # child => P[q] = m.preg[q]
    BY <1>1, <1>3, MemFields
  <1>5. b = SetPreg(m, P)
    BY Zenon DEF SetPreg
  <1> HIDE DEF P
  <1>6. /\ b \in Memory /\ b.preg = P
        /\ b.region = m.region /\ b.free = m.free /\ b.active = m.active
        /\ b.table = m.table /\ b.used = m.used /\ b.ring = m.ring
    <2>1. LET c == SetPreg(m, P) IN
          /\ c \in Memory /\ c.preg = P
          /\ c.region = m.region /\ c.free = m.free /\ c.active = m.active
          /\ c.table = m.table /\ c.used = m.used /\ c.ring = m.ring
      <3>1. m \in Memory /\ P \in [Procs -> [Slots -> Preg]]
        BY <1>1, <1>4
      <3> QED BY <3>1, SetPregMemory
    <2> QED BY <1>5, <2>1, Zenon
  <1>7. /\ \A i \in Slots : b.preg[child][i].reg = 0
        /\ \A q \in Procs : q # child => b.preg[q] = m.preg[q]
    BY <1>3, <1>4, <1>6
  <1>8. ListsExact(b) /\ RowsExact(b) /\ RingExact(b) /\ TabledBut(b, 0)
    BY <1>1, <1>6 DEF ListsExact, RowsExact, RingExact, TabledBut
  <1>9. AttachExact(b)
    <2>1. SUFFICES ASSUME NEW p \in Procs, NEW i \in Slots, b.preg[p][i].reg # 0
                   PROVE  /\ b.preg[p][i].reg \in b.active
                          /\ b.region[b.preg[p][i].reg].ref = 1
                          /\ b.region[b.preg[p][i].reg].size = b.preg[p][i].size
                          /\ \A q \in Procs, j \in Slots :
                                 b.preg[q][j].reg = b.preg[p][i].reg => q = p /\ j = i
      BY DEF AttachExact
    <2>2. p # child /\ b.preg[p] = m.preg[p]
      BY <1>7, <2>1
    <2>3. /\ m.preg[p][i].reg \in m.active
          /\ m.region[m.preg[p][i].reg].ref = 1
          /\ m.region[m.preg[p][i].reg].size = m.preg[p][i].size
          /\ \A q \in Procs, j \in Slots :
                 m.preg[q][j].reg = m.preg[p][i].reg => q = p /\ j = i
      BY <1>1, <2>1, <2>2 DEF AttachExact
    <2> QED BY <1>6, <1>7, <2>1, <2>2, <2>3
  <1>10. Taken(b, child) = {}
    BY <1>7 DEF Taken
  <1> QED BY <1>6, <1>8, <1>9, <1>10 DEF Exact, PoolExact

(* A fork duplicates, or takes back what it duplicated. *)
LEMMA ForkKeeps ==
    ASSUME IInv, NEW p \in Procs, Fork(p)
    PROVE  IInv'
  <1> DEFINE unused == {c \in Procs : pstate[c] = "unused"}
  <1>1. PICK child : child = Least(unused)
    OBVIOUS
  <1>2. child \in Procs
    <2>1. unused \in SUBSET Nat /\ unused # {}
      BY DEF Fork, Procs
    <2> HIDE DEF unused
    <2>2. child \in unused
      BY <1>1, <2>1, LeastIn
    <2> QED BY <2>2 DEF unused
  <1>3. PICK b : b = [mem EXCEPT !.preg[child] = Blank]
    OBVIOUS
  <1>4. PICK s : s = ForkRegions(b, p, child)
    OBVIOUS
  <1>5. /\ mem' = IF s.ok THEN s.m ELSE ForkUndo(s.m, child)
        /\ pstate' = [pstate EXCEPT ![child] = IF s.ok THEN "live" ELSE @]
        /\ ppid' = [ppid EXCEPT ![child] = IF s.ok THEN p ELSE @]
        /\ Made("fork", p, child, s.ok)
    BY <1>1, <1>3, <1>4 DEF Fork
  <1> HIDE DEF unused
  <1>6. Exact(b) /\ Taken(b, child) = {}
    BY <1>2, <1>3, ClearedExact DEF IInv
  <1>7. Exact(s.m)
    BY <1>2, <1>4, <1>6, ForkRegionsExact
  <1>8. Exact(mem')
    BY <1>2, <1>5, <1>7, ForkUndoExact
  <1>9. /\ pstate' \in [Procs -> {"unused", "live", "zombie"}]
        /\ ppid' \in [Procs -> {0} \union Procs]
    BY <1>5 DEF IInv, ProcsOK
  <1>10. calls' \in 0 .. MaxCalls
    BY <1>5, MadeCounts DEF IInv
  <1> QED BY <1>8, <1>9, <1>10 DEF IInv, ProcsOK

(* exit leaves the memory alone. *)
LEMMA ExitKeeps ==
    ASSUME IInv, NEW p \in Procs, Exit(p)
    PROVE  IInv'
  <1>1. calls' \in 0 .. MaxCalls
    BY MadeCounts DEF IInv, Exit
  <1> QED BY <1>1 DEF IInv, ProcsOK, Exit

(* wait_pid of a zombie. *)
LEMMA WaitKeeps ==
    ASSUME IInv, NEW p \in Procs, Wait(p)
    PROVE  IInv'
  <1>1. PICK z \in Procs :
            /\ pstate' = [pstate EXCEPT ![z] = "unused"]
            /\ ppid' = [c \in Procs |-> IF c = z \/ ppid[c] = z THEN 0 ELSE ppid[c]]
            /\ UNCHANGED mem /\ Made("wait", p, z, TRUE)
    BY DEF Wait
  <1>2. calls' \in 0 .. MaxCalls
    BY <1>1, MadeCounts DEF IInv
  <1>3. /\ pstate' \in [Procs -> {"unused", "live", "zombie"}]
        /\ ppid' \in [Procs -> {0} \union Procs]
    BY <1>1 DEF IInv, ProcsOK
  <1> QED BY <1>1, <1>2, <1>3 DEF IInv, ProcsOK

(* brk resizes a data region. *)
LEMMA BrkKeeps ==
    ASSUME IInv, NEW p \in Procs, NEW n \in 0 .. MAX_PAGES + 1, Brk(p, n)
    PROVE  IInv'
  <1> DEFINE data == {i \in Taken(mem, p) : mem.preg[p][i].type = "data"}
  <1>1. PICK i : i = Least(data)
    OBVIOUS
  <1>2. /\ data # {} /\ mem' = Growreg(mem, p, i, n)
        /\ UNCHANGED <<pstate, ppid>> /\ Made("brk", p, 0, TRUE)
    BY <1>1 DEF Brk
  <1>3. i \in Slots /\ mem.preg[p][i].reg # 0
    <2>1. data \in SUBSET Nat
      BY DEF Taken, Slots
    <2> HIDE DEF data
    <2>2. i \in data
      BY <1>1, <1>2, <2>1, LeastIn
    <2> QED BY <2>2 DEF data, Taken
  <1> HIDE DEF data
  <1>4. n \in Int
    BY RegionAssumption
  <1>5. Exact(mem')
    BY <1>2, <1>3, <1>4, GrowregExact DEF IInv
  <1>6. calls' \in 0 .. MaxCalls
    BY <1>2, MadeCounts DEF IInv
  <1> QED BY <1>2, <1>5, <1>6 DEF IInv, ProcsOK

(* mmap attaches a region and may load it. *)
LEMMA MmapKeeps ==
    ASSUME IInv, NEW p \in Procs, NEW map \in Maps, Mmap(p, map)
    PROVE  IInv'
  <1>1. PICK a : a = Allocreg(mem)
    OBVIOUS
  <1>2. PICK r : r = Head(mem.free)
    OBVIOUS
  <1>3. PICK i : i = Least(Slots \ Taken(a, p))
    OBVIOUS
  <1>4. PICK b : b = Attachreg(a, p, r, map.type)
    OBVIOUS
  <1>5. /\ mem.free # <<>>
        /\ mem' = IF Taken(mem, p) = Slots THEN Freereg(a, r)
                  ELSE IF map.load THEN Loadreg(b, p, i, map.pages, map.good)
                  ELSE b
        /\ UNCHANGED <<pstate, ppid>>
        /\ Made("mmap", p, 0, ~(Taken(mem, p) = Slots))
    BY <1>1, <1>2, <1>3, <1>4 DEF Mmap
  <1>6. map.type \in Types /\ map.pages \in Nat /\ map.good \in Nat
    BY RegionAssumption DEF Mappings, Types
  <1>7. Exact(a) /\ Fresh(a, r) /\ r \in Regs /\ a.preg = mem.preg
    BY <1>1, <1>2, <1>5, AllocregExact DEF IInv
  <1>8. Taken(a, p) = Taken(mem, p)
    BY <1>7 DEF Taken
  <1>9. CASE Taken(mem, p) = Slots
    <2>1. Exact(mem')
      BY <1>5, <1>7, <1>9, FreeregFresh
    <2>2. calls' \in 0 .. MaxCalls
      BY <1>5, MadeCounts DEF IInv
    <2> QED BY <1>5, <2>1, <2>2 DEF IInv, ProcsOK
  <1>10. CASE Taken(mem, p) # Slots
    <2>1. Exact(b) /\ i \in Slots /\ b.preg[p][i].reg = r
      BY <1>3, <1>4, <1>6, <1>7, <1>8, <1>10, AttachregExact
    <2>2. r # 0
      BY <1>7 DEF Regs
    <2>3. Exact(Loadreg(b, p, i, map.pages, map.good))
      BY <1>6, <2>1, <2>2, LoadregExact
    <2>4. Exact(mem')
      BY <1>5, <1>10, <2>1, <2>3
    <2>5. calls' \in 0 .. MaxCalls
      BY <1>5, MadeCounts DEF IInv
    <2> QED BY <1>5, <2>4, <2>5 DEF IInv, ProcsOK
  <1> QED BY <1>9, <1>10

(* The invariant is inductive. *)
LEMMA StepKeeps ==
    IInv /\ [Next]_vars => IInv'
  <1> SUFFICES ASSUME IInv, [Next]_vars PROVE IInv'
    OBVIOUS
  <1>1. CASE UNCHANGED vars
    BY <1>1 DEF vars, IInv, ProcsOK
  <1>2. CASE Next
    <2>1. PICK p \in Live :
              \/ \E image \in Images : Exec(p, image)
              \/ Fork(p)
              \/ Exit(p)
              \/ Wait(p)
              \/ \E n \in 0 .. MAX_PAGES + 1 : Brk(p, n)
              \/ \E map \in Maps : Mmap(p, map)
      BY <1>2 DEF Next
    <2>2. p \in Procs
      BY DEF Live
    <2>3. CASE \E image \in Images : Exec(p, image)
      BY <2>2, <2>3, ExecKeeps
    <2>4. CASE Fork(p)
      BY <2>2, <2>4, ForkKeeps
    <2>5. CASE Exit(p)
      BY <2>2, <2>5, ExitKeeps
    <2>6. CASE Wait(p)
      BY <2>2, <2>6, WaitKeeps
    <2>7. CASE \E n \in 0 .. MAX_PAGES + 1 : Brk(p, n)
      BY <2>2, <2>7, BrkKeeps
    <2>8. CASE \E map \in Maps : Mmap(p, map)
      BY <2>2, <2>8, MmapKeeps
    <2> QED BY <2>1, <2>3, <2>4, <2>5, <2>6, <2>7, <2>8
  <1> QED BY <1>1, <1>2

----------------------------------------------------------------------------
(* The theorems *)

(* Exact is an invariant: the lists, the attachments, the rows of the page *)
(* table pool and the ring of frames agree after every call.               *)
THEOREM RegionInvariant ==
    Spec => []IInv
  <1>1. Init => IInv
    BY InitExact
  <1>2. IInv /\ [Next]_vars => IInv'
    BY StepKeeps
  <1> QED BY <1>1, <1>2, PTL DEF Spec

(* Every variable has its type: no region is larger than its page table    *)
(* and no entry names a frame that does not exist.                         *)
THEOREM RegionTypes ==
    Spec => []TypeOK
  <1>1. IInv => TypeOK
    BY MemFields DEF IInv, Exact, PoolExact, ProcsOK, TypeOK, Region, Row, Preg
  <1> QED BY <1>1, RegionInvariant, PTL

(* A region is on one list, once, and r_refcnt counts the single process   *)
(* that attaches it, for which the pregion has its size.                   *)
THEOREM RegionsAreExact ==
    Spec => []RegionsExact
  <1>1. ASSUME IInv PROVE RegionsExact
    <2>1. ListsExact(mem) /\ AttachExact(mem) /\ mem \in Memory
      BY <1>1 DEF IInv, Exact, PoolExact
    <2>2. ASSUME NEW p \in Procs, NEW i \in Taken(mem, p)
          PROVE  LET r == mem.preg[p][i].reg IN
                 /\ r \in mem.active
                 /\ mem.region[r].ref = Cardinality(Attachments(mem, r))
                 /\ mem.region[r].size = mem.preg[p][i].size
      <3> DEFINE r == mem.preg[p][i].reg
      <3>1. i \in Slots /\ r # 0
        BY DEF Taken
      <3>2. /\ r \in mem.active /\ mem.region[r].ref = 1
            /\ mem.region[r].size = mem.preg[p][i].size
            /\ \A q \in Procs, j \in Slots : mem.preg[q][j].reg = r => q = p /\ j = i
        BY <2>1, <3>1 DEF AttachExact
      <3>3. Attachments(mem, r) = {<<p, i>>}
        BY <3>1, <3>2 DEF Attachments
      <3>4. Cardinality(Attachments(mem, r)) = 1
        BY <3>3, FS_Singleton
      <3> QED BY <3>2, <3>4
    <2> QED BY <2>1, <2>2 DEF RegionsExact, ListsExact
  <1> QED BY <1>1, RegionInvariant, PTL

(* The used rows are the page tables of the active regions, one row each,  *)
(* and a region that has pages has one.                                    *)
THEOREM TablesAreExact ==
    Spec => []TablesExact
  <1>1. ASSUME IInv PROVE TablesExact
    <2>1. /\ RowsExact(mem) /\ TabledBut(mem, 0) /\ mem.active \subseteq Regs
      BY <1>1, MemFields DEF IInv, Exact, PoolExact
    <2>2. 0 \notin mem.active
      BY <2>1 DEF Regs
    <2> QED BY <2>1, <2>2 DEF RowsExact, TabledBut, TablesExact
  <1> QED BY <1>1, RegionInvariant, PTL

(* A free frame is on the ring once and no page table maps it.             *)
THEOREM FramesAreHeld ==
    Spec => []FramesHeld
  <1>1. IInv => FramesHeld
    BY DEF IInv, Exact, PoolExact, RingExact, FramesHeld
  <1> QED BY <1>1, RegionInvariant, PTL

----------------------------------------------------------------------------
(* What a call leaves alone: regions, and the slots of every process but p *)
(* and those of p in S.                                                    *)
SameSlots(b, m, p, S) ==
    \A q \in Procs, j \in Slots : q # p \/ j \in S => b.preg[q][j] = m.preg[q][j]

Around(b, m, R, p, S) == SameOn(b, m, R) /\ SameSlots(b, m, p, S)

(* One step after another, and less of what a step leaves alone.           *)
LEMMA AroundTrans ==
    ASSUME NEW a, NEW b, NEW c, NEW R, NEW p, NEW S,
           Around(b, a, R, p, S), Around(c, b, R, p, S)
    PROVE  Around(c, a, R, p, S)
  <1>1. SameOn(c, a, R)
    BY DEF Around, SameOn
  <1>2. SameSlots(c, a, p, S)
    BY DEF Around, SameSlots
  <1> QED BY <1>1, <1>2 DEF Around

(* A step leaves alone what is part of what it leaves alone.               *)
LEMMA AroundLess ==
    ASSUME NEW a, NEW b, NEW R, NEW p, NEW S, Around(b, a, R, p, S),
           NEW Q \in SUBSET R, NEW T \in SUBSET S
    PROVE  Around(b, a, Q, p, T)
  BY DEF Around, SameOn, SameSlots

(* A step on no slot at all.                                               *)
LEMMA AroundAll ==
    ASSUME NEW a, NEW b, NEW R, b.preg = a.preg, SameOn(b, a, R), NEW p, NEW S
    PROVE  Around(b, a, R, p, S)
  BY DEF Around, SameSlots

(* Frames into a row, the rows of R aside.                                 *)
LEMMA FillAround ==
    ASSUME NEW m \in Memory, NEW row \in Regs, NEW X \in SUBSET Nat, IsFiniteSet(X),
           NEW R \in SUBSET m.active, \A r \in R : m.region[r].table # row
    PROVE  /\ SameOn(Fill(m, row, X), m, R)
           /\ Fill(m, row, X).preg = m.preg /\ Fill(m, row, X).active = m.active
  <1> DEFINE b   == Fill(m, row, X)
             new == [j \in Pages |-> IF j \in Got(m, X) THEN m.ring[Rank(X, j)]
                                     ELSE m.table[row][j]]
  <1>1. /\ b.table = [m.table EXCEPT ![row] = new]
        /\ b.region = m.region /\ b.active = m.active /\ b.preg = m.preg
    BY FillWrites
  <1> HIDE DEF b, new
  <1>2. \A y \in Regs : y # row => b.table[y] = m.table[y]
    BY <1>1, MemFields
  <1>3. \A r \in R : m.region[r].table # 0 => m.region[r].table \in Regs
    BY MemFields DEF Region
  <1>4. \A r \in R : r \in b.active /\ b.region[r] = m.region[r]
    BY <1>1
  <1> QED BY <1>1, <1>2, <1>3, <1>4 DEF SameOn, b

(* The frame whose read failed goes round the ring; no row is written.     *)
LEMMA PutbackAround ==
    ASSUME NEW m \in Memory, NEW R \in SUBSET m.active
    PROVE  /\ SameOn(Putback(m), m, R)
           /\ Putback(m).preg = m.preg /\ Putback(m).active = m.active
  <1>1. CASE m.ring = <<>>
    BY <1>1 DEF Putback, SameOn
  <1>2. CASE m.ring # <<>>
    <2>1. PICK X : Putback(m) = SetRing(m, X)
      BY <1>2, Zenon DEF Putback, SetRing
    <2>2. SetRing(m, X).table = m.table /\ SetRing(m, X).region = m.region
          /\ SetRing(m, X).active = m.active /\ SetRing(m, X).preg = m.preg
      BY DEF SetRing, Memory
    <2> QED BY <2>1, <2>2 DEF SameOn
  <1> QED BY <1>1, <1>2

(* allocreg takes a region that was free.                                  *)
LEMMA AllocregAround ==
    ASSUME NEW m, Exact(m), m.free # <<>>
    PROVE  SameOn(Allocreg(m), m, m.active) /\ Allocreg(m).preg = m.preg
  <1>1. PICK a, r : a = Allocreg(m) /\ r = Head(m.free)
    OBVIOUS
  <1>2. /\ r \notin m.active /\ a.active = m.active \union {r}
        /\ \A x \in Regs : x # r => a.region[x] = m.region[x]
        /\ a.preg = m.preg /\ a.table = m.table
    BY <1>1, AllocregExact
  <1>3. m.active \subseteq Regs
    BY MemFields DEF Exact, PoolExact
  <1> QED BY <1>1, <1>2, <1>3 DEF SameOn

(* Slot i of p has region r, attached as type t.                           *)
Attached(b, m, p, i, r, t) ==
    /\ Around(b, m, m.active \ {r}, p, Slots \ {i})
    /\ b.active = m.active /\ b.table = m.table
    /\ b.preg[p][i] = [reg |-> r, type |-> t, size |-> m.region[r].size]
    /\ b.region[r].table = m.region[r].table /\ b.region[r].size = m.region[r].size

(* attachreg fills the lowest empty slot.                                  *)
LEMMA AttachregAround ==
    ASSUME NEW m, Exact(m), NEW p \in Procs, NEW r, Fresh(m, r), NEW t \in Types,
           Taken(m, p) # Slots, NEW i, i = Least(Slots \ Taken(m, p)),
           NEW b, b = Attachreg(m, p, r, t)
    PROVE  Attached(b, m, p, i, r, t)
  <1>1. m \in Memory /\ r \in m.active /\ m.active \subseteq Regs
    BY MemFields DEF Exact, PoolExact, Fresh
  <1>2. i \in Slots
    BY LeastSlot
  <1>3. r \in Regs /\ Least(Slots \ Taken(m, p)) \in Slots
    BY <1>1, <1>2
  <1>4. /\ b.region[r] = [m.region[r] EXCEPT !.ref = m.region[r].ref + 1]
        /\ \A x \in Regs : x # r => b.region[x] = m.region[x]
        /\ b.preg[p][i] = [reg |-> r, type |-> t, size |-> m.region[r].size]
        /\ \A j \in Slots : j # i => b.preg[p][j] = m.preg[p][j]
        /\ \A q \in Procs : q # p => b.preg[q] = m.preg[q]
        /\ b.active = m.active /\ b.table = m.table
    BY <1>1, <1>3, AttachregWrites
  <1>5. SameOn(b, m, m.active \ {r})
    BY <1>1, <1>4 DEF SameOn
  <1>6. SameSlots(b, m, p, Slots \ {i})
    BY <1>4 DEF SameSlots
  <1>7. m.region[r] \in Region
    BY <1>1, <1>3, MemFields
  <1>8. b.region[r].table = m.region[r].table /\ b.region[r].size = m.region[r].size
    BY <1>4, <1>7 DEF Region
  <1> QED BY <1>4, <1>5, <1>6, <1>8 DEF Around, Attached

(* An operation on slot i of p, with region r in it.                       *)
OneSlot(b, m, p, i, r) ==
    /\ Around(b, m, m.active \ {r}, p, Slots \ {i})
    /\ b.active = m.active /\ b.preg[p][i].reg = r

(* growreg works on one slot and its region.                               *)
LEMMA GrowregAround ==
    ASSUME NEW m, Exact(m), NEW p \in Procs, NEW i \in Slots, NEW n \in Int,
           NEW r, r = m.preg[p][i].reg, r # 0, NEW b, b = Growreg(m, p, i, n)
    PROVE  OneSlot(b, m, p, i, r)
  <1>0. m \in Memory /\ AttachExact(m) /\ RowsExact(m)
    BY DEF Exact, PoolExact
  <1>1. r \in m.active /\ m.active \subseteq Regs /\ r \in Regs
    BY <1>0, MemFields DEF AttachExact
  <1>2. CASE ~InBounds(n)
    BY <1>2 DEF Growreg, OneSlot, Around, SameOn, SameSlots
  <1>3. CASE InBounds(n)
    <2>1. n \in 0 .. MAX_PAGES /\ n \in Nat
      BY <1>3 DEF InBounds
    <2>2. PICK c : c = Resize(m, p, i, n)
      OBVIOUS
    <2>3. /\ c \in Memory /\ c.region[r].table = m.region[r].table
          /\ \A x \in Regs : x # r => c.region[x] = m.region[x]
          /\ c.preg[p][i].reg = r
          /\ \A j \in Slots : j # i => c.preg[p][j] = m.preg[p][j]
          /\ \A q \in Procs : q # p => c.preg[q] = m.preg[q]
          /\ c.active = m.active /\ c.table = m.table /\ c.used = m.used
      BY <1>0, <1>1, <2>1, <2>2, ResizeWrites, SMTT(20)
    <2>4. b = IF n > 0 /\ m.region[r].table = 0 THEN PgtblAlloc(c, r, n) ELSE c
      BY <1>3, <2>2, Zenon DEF Growreg
    <2>5. Around(c, m, m.active \ {r}, p, Slots \ {i})
      <3>1. SameOn(c, m, m.active \ {r})
        BY <1>1, <2>3 DEF SameOn
      <3>2. SameSlots(c, m, p, Slots \ {i})
        BY <2>3 DEF SameSlots
      <3> QED BY <3>1, <3>2 DEF Around
    <2>6. CASE n > 0 /\ m.region[r].table = 0
      <3>1. \A x \in m.active : c.region[x].table = m.region[x].table
        BY <1>1, <2>3
      <3>2. RowsExact(c) /\ r \in c.active /\ c.region[r].table = 0
        BY <1>0, <1>1, <2>3, <2>6, <3>1, SameRows
      <3>3. /\ SameOn(b, c, c.active \ {r}) /\ b.preg = c.preg /\ b.active = c.active
        BY <2>1, <2>3, <2>4, <2>6, <3>2, PgtblAllocAround
      <3>4. Around(b, c, m.active \ {r}, p, Slots \ {i})
        BY <2>3, <3>3, AroundAll
      <3> QED BY <2>3, <2>5, <3>3, <3>4, AroundTrans DEF OneSlot
    <2>7. CASE ~(n > 0 /\ m.region[r].table = 0)
      BY <2>3, <2>4, <2>5, <2>7 DEF OneSlot
    <2> QED BY <2>6, <2>7
  <1> QED BY <1>2, <1>3

(* loadreg.                                                                *)
LEMMA LoadregAround ==
    ASSUME NEW m, Exact(m), NEW p \in Procs, NEW i \in Slots, NEW n \in Nat,
           NEW good \in Nat, NEW r, r = m.preg[p][i].reg, r # 0,
           NEW b, b = Loadreg(m, p, i, n, good)
    PROVE  OneSlot(b, m, p, i, r)
  <1>1. PICK g : g = Growreg(m, p, i, n)
    OBVIOUS
  <1>2. Exact(g) /\ g \in Memory /\ RowsExact(g)
    BY <1>1, GrowregExact DEF Exact, PoolExact
  <1>3. /\ Around(g, m, m.active \ {r}, p, Slots \ {i})
        /\ g.active = m.active /\ g.preg[p][i].reg = r
    <2>1. n \in Int
      OBVIOUS
    <2>2. OneSlot(g, m, p, i, r)
      BY <1>1, <2>1, GrowregAround
    <2> QED BY <2>2 DEF OneSlot
  <1>4. r \in g.active /\ r \in Regs
    BY <1>2, <1>3, MemFields DEF Exact, AttachExact
  <1>5. PICK row, X : row = g.region[r].table /\ X = 1 .. Least({n, good})
    OBVIOUS
  <1>6. PICK f : f = Fill(g, row, X)
    OBVIOUS
  <1>7. b = IF row = 0 THEN g ELSE IF good < n THEN Putback(f) ELSE f
    BY <1>1, <1>5, <1>6, Zenon DEF Loadreg
  <1>8. CASE row = 0
    BY <1>3, <1>7, <1>8 DEF OneSlot
  <1>9. CASE row # 0
    <2>1. row \in Regs
      <3>1. g.region[r] \in Region
        BY <1>2, <1>4, MemFields
      <3> QED BY <1>5, <1>9, <3>1 DEF Region
    <2>2. X \in SUBSET Nat /\ IsFiniteSet(X)
      BY <1>5, PagesUpTo
    <2>3. \A x \in g.active \ {r} : g.region[x].table # row
      BY <1>2, <1>4, <1>5, <1>9, RowsApart
    <2>4. SameOn(f, g, g.active \ {r}) /\ f.preg = g.preg /\ f.active = g.active
      BY <1>2, <1>6, <2>1, <2>2, <2>3, FillAround
    <2>5. f \in Memory
      BY <1>2, <1>6, <2>1, <2>2, FillExact DEF Exact, PoolExact
    <2>6. PICK h : h = Putback(f)
      OBVIOUS
    <2>7. SameOn(h, f, g.active \ {r}) /\ h.preg = f.preg /\ h.active = f.active
      BY <2>4, <2>5, <2>6, PutbackAround
    <2>8. SameOn(h, g, g.active \ {r})
      BY <2>4, <2>7 DEF SameOn
    <2>9. SameOn(b, g, g.active \ {r}) /\ b.preg = g.preg /\ b.active = g.active
      BY <1>7, <1>9, <2>4, <2>6, <2>7, <2>8
    <2>10. Around(b, g, m.active \ {r}, p, Slots \ {i})
      BY <1>3, <2>9, AroundAll
    <2> QED BY <1>3, <2>9, <2>10, AroundTrans DEF OneSlot
  <1> QED BY <1>8, <1>9

(* freereg.                                                                *)
LEMMA FreeregAround ==
    ASSUME NEW m, PoolExact(m), NEW r \in m.active, m.region[r].ref = 0
    PROVE  /\ SameOn(Freereg(m, r), m, m.active \ {r})
           /\ Freereg(m, r).preg = m.preg /\ Freereg(m, r).active = m.active \ {r}
  <1>1. m \in Memory /\ m.active \subseteq Regs /\ ~(m.region[r].ref > 0)
    BY MemFields DEF PoolExact
  <1>2. PICK b : b = Freereg(m, r)
    OBVIOUS
  <1>3. r \in Regs
    BY <1>1
  <1>4. /\ b.region = [m.region EXCEPT ![r] = [m.region[r] EXCEPT !.table = 0]]
        /\ b.active = m.active \ {r} /\ b.table = m.table /\ b.preg = m.preg
    BY <1>1, <1>2, <1>3, FreeregWrites
  <1>5. \A x \in m.active \ {r} : b.region[x] = m.region[x]
    BY <1>1, <1>4, MemFields
  <1> QED BY <1>2, <1>4, <1>5 DEF SameOn

(* Slot i of p is empty, and region r that was in it free.                 *)
Emptied(b, m, p, i, r) ==
    /\ Around(b, m, m.active \ {r}, p, Slots \ {i})
    /\ b.active = m.active \ {r} /\ b.preg[p][i].reg = 0

(* detachreg empties a slot and frees its region.                          *)
LEMMA DetachregAround ==
    ASSUME NEW m, Exact(m), NEW p \in Procs, NEW i \in Slots,
           NEW r, r = m.preg[p][i].reg, NEW b, b = Detachreg(m, p, i)
    PROVE  Emptied(b, m, p, i, r)
  <1>0. m \in Memory /\ AttachExact(m) /\ PoolExact(m) /\ m.active \subseteq Regs
    BY MemFields DEF Exact, PoolExact
  <1>1. CASE r = 0
    <2>1. b = m /\ r \notin m.active
      BY <1>0, <1>1 DEF Detachreg, Regs
    <2> QED BY <1>1, <2>1 DEF Emptied, Around, SameOn, SameSlots
  <1>2. CASE r # 0
    <2>1. r \in m.active /\ r \in Regs /\ m.region[r].ref = 1
      BY <1>0, <1>2 DEF AttachExact
    <2>2. PICK u : u = Uncount(m, r)
      OBVIOUS
    <2>3. PoolExact(u) /\ u.region[r].ref = 0
          /\ u.active = m.active /\ u.preg = m.preg /\ SameOn(u, m, m.active \ {r})
      <3>1. /\ PoolExact(u) /\ u.region[r].ref = 0
            /\ \A x \in Regs : x # r => u.region[x] = m.region[x]
            /\ u.active = m.active /\ u.table = m.table /\ u.preg = m.preg
        BY <1>0, <2>1, <2>2, UncountIs
      <3> QED BY <1>0, <3>1 DEF SameOn
    <2>4. PICK f : f = Freereg(u, r)
      OBVIOUS
    <2>5. SameOn(f, u, m.active \ {r}) /\ f.preg = m.preg /\ f.active = m.active \ {r}
      BY <2>1, <2>3, <2>4, FreeregAround
    <2>6. f \in Memory
      BY <2>1, <2>3, <2>4, FreeregExact DEF PoolExact
    <2> DEFINE P == [f.preg EXCEPT ![p] = [f.preg[p] EXCEPT ![i] = Empty]]
    <2>7. b = SetPreg(f, P)
      BY <1>2, <2>2, <2>4, Zenon DEF Detachreg, SetPreg
    <2>8. /\ P[p][i] = Empty
          /\ \A q \in Procs, j \in Slots : (q # p \/ j # i) => P[q][j] = f.preg[q][j]
      BY <2>6, MemFields
    <2>9. /\ b.preg = P /\ b.region = f.region /\ b.active = f.active /\ b.table = f.table
      <3> HIDE DEF P
      <3> QED BY <2>6, <2>7 DEF SetPreg, Memory
    <2> HIDE DEF P
    <2>10. SameOn(b, m, m.active \ {r})
      BY <2>3, <2>5, <2>9 DEF SameOn
    <2>11. SameSlots(b, m, p, Slots \ {i})
      BY <2>5, <2>8, <2>9 DEF SameSlots
    <2> QED BY <2>5, <2>8, <2>9, <2>10, <2>11 DEF Emptied, Around, Empty
  <1> QED BY <1>1, <1>2

(* The operations leave the slots taken as they are.                       *)
LEMMA OneSlotTaken ==
    ASSUME NEW m, NEW b, NEW p \in Procs, NEW i, NEW r, r = m.preg[p][i].reg,
           OneSlot(b, m, p, i, r)
    PROVE  \A q \in Procs : Taken(b, q) = Taken(m, q)
  <1>1. \A q \in Procs, j \in Slots : q # p \/ j \in Slots \ {i} => b.preg[q][j] = m.preg[q][j]
    BY DEF OneSlot, Around, SameSlots
  <1>2. b.preg[p][i].reg = m.preg[p][i].reg
    BY DEF OneSlot
  <1>3. \A q \in Procs, j \in Slots : b.preg[q][j].reg = m.preg[q][j].reg
    BY <1>1, <1>2
  <1> QED BY <1>3 DEF Taken

(* Two steps on one slot.                                                  *)
LEMMA OneSlotTrans ==
    ASSUME NEW a, NEW b, NEW c, NEW p, NEW i, NEW r,
           OneSlot(b, a, p, i, r), OneSlot(c, b, p, i, r)
    PROVE  OneSlot(c, a, p, i, r)
  BY AroundTrans DEF OneSlot

(* No step at all.                                                         *)
LEMMA OneSlotSelf ==
    ASSUME NEW m, NEW p, NEW i, NEW r, r = m.preg[p][i].reg
    PROVE  OneSlot(m, m, p, i, r)
  BY DEF OneSlot, Around, SameOn, SameSlots

(* Two memories with the same slots and but region r the same.             *)
LEMMA OneSlotRegion ==
    ASSUME NEW m, NEW b, NEW p, NEW i, NEW r, r = m.preg[p][i].reg,
           SameOn(b, m, m.active \ {r}), b.preg = m.preg, b.active = m.active
    PROVE  OneSlot(b, m, p, i, r)
  BY AroundAll DEF OneSlot

(* Frames into the row of a region, as loadreg and zero_tail ask for them. *)
LEMMA FillSlot ==
    ASSUME NEW g, Exact(g), NEW p \in Procs, NEW i \in Slots,
           NEW r, r = g.preg[p][i].reg, r # 0, g.region[r].table # 0,
           NEW X \in SUBSET Nat, IsFiniteSet(X), NEW f, f = Fill(g, g.region[r].table, X)
    PROVE  OneSlot(f, g, p, i, r) /\ Exact(f)
  <1>1. g \in Memory /\ RowsExact(g) /\ r \in g.active /\ r \in Regs
    BY MemFields DEF Exact, PoolExact, AttachExact
  <1>2. PICK row : row = g.region[r].table
    OBVIOUS
  <1>3. row \in Regs
    <2>1. g.region[r] \in Region
      BY <1>1, MemFields
    <2> QED BY <1>2, <2>1 DEF Region
  <1>4. \A x \in g.active \ {r} : g.region[x].table # row
    BY <1>1, <1>2, RowsApart
  <1>5. SameOn(f, g, g.active \ {r}) /\ f.preg = g.preg /\ f.active = g.active
    <2>1. g.active \ {r} \in SUBSET g.active /\ f = Fill(g, row, X)
      BY <1>2
    <2> QED BY <1>1, <1>3, <1>4, <2>1, FillAround, SMTT(20)
  <1>6. Exact(f)
    BY <1>2, <1>3, FillExact
  <1> QED BY <1>5, <1>6, OneSlotRegion

----------------------------------------------------------------------------
(* A memory in the course of a call by p, seen from the one at its start:  *)
(* the regions active then are what they were, the other processes have    *)
(* their slots and p those it had taken, and the slots p takes besides     *)
(* have regions of their own.                                              *)
Beside(b, a, p) ==
    /\ Around(b, a, a.active, p, Taken(a, p))
    /\ \A j \in Slots : j \notin Taken(a, p) => b.preg[p][j].reg \notin a.active

(* A call that has not begun.                                              *)
LEMMA BesideSelf ==
    ASSUME NEW m, Exact(m), NEW p \in Procs
    PROVE  Beside(m, m, p)
  <1>1. \A j \in Slots : j \notin Taken(m, p) => m.preg[p][j].reg = 0
    BY DEF Taken
  <1>2. 0 \notin m.active
    BY MemFields DEF Exact, PoolExact, Regs
  <1> QED BY <1>1, <1>2 DEF Beside, Around, SameOn, SameSlots

(* A step on a slot that was empty, and a region that was free.            *)
LEMMA BesideStep ==
    ASSUME NEW a, NEW b, NEW c, NEW p \in Procs, Beside(b, a, p),
           NEW r, r \notin a.active, NEW i, i \notin Taken(a, p),
           Around(c, b, b.active \ {r}, p, Slots \ {i}), c.preg[p][i].reg \notin a.active
    PROVE  Beside(c, a, p)
  <1>1. a.active \subseteq b.active \ {r}
    BY DEF Beside, Around, SameOn
  <1>2. Taken(a, p) \subseteq Slots \ {i}
    BY DEF Taken
  <1>3. Around(c, b, a.active, p, Taken(a, p))
    BY <1>1, <1>2, AroundLess
  <1>4. Around(c, a, a.active, p, Taken(a, p))
    BY <1>3, AroundTrans DEF Beside
  <1>5. \A j \in Slots : j # i => c.preg[p][j] = b.preg[p][j]
    BY DEF Around, SameSlots
  <1> QED BY <1>4, <1>5 DEF Beside

(* A step on no slot.                                                      *)
LEMMA BesideQuiet ==
    ASSUME NEW a, NEW b, NEW c, NEW p \in Procs, Beside(b, a, p),
           NEW r, r \notin a.active, SameOn(c, b, b.active \ {r}), c.preg = b.preg
    PROVE  Beside(c, a, p)
  <1>1. a.active \subseteq b.active \ {r}
    BY DEF Beside, Around, SameOn
  <1>2. SameOn(c, b, a.active)
    BY <1>1 DEF SameOn
  <1>3. Around(c, b, a.active, p, Taken(a, p))
    BY <1>2, AroundAll
  <1>4. Around(c, a, a.active, p, Taken(a, p))
    BY <1>3, AroundTrans DEF Beside
  <1> QED BY <1>4 DEF Beside

(* What a process maps, seen from its slots and their regions.             *)
LEMMA SpaceSame ==
    ASSUME NEW m, NEW b, NEW R, NEW p, NEW S, Around(b, m, R, p, S),
           NEW q \in Procs, Taken(b, q) = Taken(m, q),
           \A j \in Taken(m, q) : m.preg[q][j].reg \in R /\ (q # p \/ j \in S)
    PROVE  Space(b, q) = Space(m, q)
  <1>1. \A i \in Taken(m, q) : b.preg[q][i] = m.preg[q][i]
    BY DEF Around, SameSlots, Taken
  <1>2. ASSUME NEW i \in Taken(m, q), NEW j \in Pages
        PROVE  FrameAt(b, q, i, j) = FrameAt(m, q, i, j)
    <2>1. PICK r : r = m.preg[q][i].reg
      OBVIOUS
    <2>2. b.preg[q][i].reg = r /\ r \in R
      BY <1>1, <2>1
    <2>3. b.region[r] = m.region[r]
          /\ (m.region[r].table # 0 => b.table[m.region[r].table] = m.table[m.region[r].table])
      BY <2>2 DEF Around, SameOn
    <2> QED BY <2>1, <2>2, <2>3 DEF FrameAt
  <1> QED BY <1>1, <1>2 DEF Space

(* The others map what they did; so does p when its slots are the same.    *)
LEMMA BesideSpace ==
    ASSUME NEW a, NEW b, NEW p \in Procs, Exact(a), Beside(b, a, p),
           NEW q \in Procs, q # p \/ Taken(b, p) = Taken(a, p)
    PROVE  Space(b, q) = Space(a, q)
  <1>1. Around(b, a, a.active, p, Taken(a, p))
    BY DEF Beside
  <1>2. \A j \in Taken(a, q) : a.preg[q][j].reg \in a.active /\ (q # p \/ j \in Taken(a, p))
    BY DEF Exact, AttachExact, Taken
  <1>3. Taken(b, q) = Taken(a, q)
    <2>1. CASE q = p
      BY <2>1
    <2>2. CASE q # p
      <3>1. \A j \in Slots : b.preg[q][j] = a.preg[q][j]
        BY <1>1, <2>2 DEF Around, SameSlots
      <3> QED BY <3>1 DEF Taken
    <2> QED BY <2>1, <2>2
  <1> QED BY <1>1, <1>2, <1>3, SpaceSame

----------------------------------------------------------------------------
(* The slots a process has taken are the first ones: attachreg takes the   *)
(* lowest that is empty, and what a call attaches and does not keep it     *)
(* detaches again.                                                         *)
Packed(m, p) == \E n \in 0 .. MAX_REG_PER_PROC : Taken(m, p) = 1 .. n

(* The next slot.                                                          *)
LEMMA NextSlot ==
    ASSUME NEW m, NEW b, NEW p, NEW n \in 0 .. MAX_REG_PER_PROC, Taken(m, p) = 1 .. n,
           Taken(m, p) # Slots, NEW i, i = Least(Slots \ Taken(m, p))
    PROVE  i = n + 1 /\ i \in 1 .. MAX_REG_PER_PROC /\ 1 .. n \union {i} = 1 .. i
  <1>1. MAX_REG_PER_PROC \in Nat /\ Slots = 1 .. MAX_REG_PER_PROC
    BY RegionAssumption DEF Slots
  <1>2. n # MAX_REG_PER_PROC
    BY <1>1
  <1>3. n + 1 \in Slots \ Taken(m, p)
    BY <1>1, <1>2
  <1>4. i \in Slots /\ i \notin Taken(m, p) /\ i <= n + 1
    BY <1>3, LeastSlot
  <1>5. i \in 1 .. MAX_REG_PER_PROC /\ i \notin 1 .. n
    BY <1>1, <1>4
  <1>6. i = n + 1
    BY <1>1, <1>4, <1>5
  <1>7. 1 .. n \union {n + 1} = 1 .. (n + 1)
    BY <1>1
  <1> QED BY <1>5, <1>6, <1>7

(* Attaching to the next slot leaves no gap.                               *)
LEMMA PackedMore ==
    ASSUME NEW m, NEW b, NEW p, Packed(m, p), Taken(m, p) # Slots,
           Taken(b, p) = Taken(m, p) \union {Least(Slots \ Taken(m, p))}
    PROVE  Packed(b, p)
  <1>1. PICK n \in 0 .. MAX_REG_PER_PROC : Taken(m, p) = 1 .. n
    BY DEF Packed
  <1>2. PICK i : i = Least(Slots \ Taken(m, p))
    OBVIOUS
  <1>3. i \in 1 .. MAX_REG_PER_PROC /\ Taken(b, p) = 1 .. i
    BY <1>1, <1>2, NextSlot
  <1>4. i \in 0 .. MAX_REG_PER_PROC
    BY <1>3, RegionAssumption
  <1> QED BY <1>3, <1>4 DEF Packed

(* allocreg and attachreg, on the way of a call by p.                      *)
LEMMA AttachBeside ==
    ASSUME NEW a, Exact(a), NEW m, Exact(m), NEW p \in Procs, Beside(m, a, p),
           NEW r, Fresh(m, r), r \notin a.active, NEW t \in Types, Taken(m, p) # Slots,
           NEW i, i = Least(Slots \ Taken(m, p)), NEW b, b = Attachreg(m, p, r, t)
    PROVE  /\ Exact(b) /\ Beside(b, a, p) /\ i \in Slots /\ i \notin Taken(m, p)
           /\ b.preg[p][i].reg = r /\ Taken(b, p) = Taken(m, p) \union {i}
  <1>1. /\ Exact(b) /\ i \in Slots /\ i \notin Taken(m, p)
        /\ b.preg[p][i].reg = r /\ Taken(b, p) = Taken(m, p) \union {i}
    BY AttachregExact
  <1>2. Around(b, m, m.active \ {r}, p, Slots \ {i})
    <2>1. Attached(b, m, p, i, r, t)
      BY AttachregAround
    <2> QED BY <2>1 DEF Attached
  <1>3. i \notin Taken(a, p)
    <2>1. \A j \in Taken(a, p) : m.preg[p][j] = a.preg[p][j]
      BY DEF Beside, Around, SameSlots, Taken
    <2> QED BY <1>1, <2>1 DEF Taken
  <1> QED BY <1>1, <1>2, <1>3, BesideStep

(* allocreg, on the way of a call by p.                                    *)
LEMMA AllocBeside ==
    ASSUME NEW a, NEW m, Exact(m), NEW p \in Procs, Beside(m, a, p), m.free # <<>>,
           NEW b, b = Allocreg(m)
    PROVE  Beside(b, a, p) /\ Head(m.free) \notin a.active
  <1>1. Head(m.free) \notin m.active
    BY AllocregExact
  <1>2. a.active \subseteq m.active
    BY DEF Beside, Around, SameOn
  <1>3. SameOn(b, m, m.active) /\ b.preg = m.preg
    BY AllocregAround
  <1>4. m.active \ {Head(m.free)} = m.active
    BY <1>1
  <1> QED BY <1>1, <1>2, <1>3, <1>4, BesideQuiet

(* The steps on a slot that this call has taken.                           *)
LEMMA SlotBeside ==
    ASSUME NEW a, NEW b, NEW c, NEW p \in Procs, Beside(b, a, p), NEW i, i \notin Taken(a, p),
           NEW r, r = b.preg[p][i].reg, r \notin a.active, OneSlot(c, b, p, i, r)
    PROVE  Beside(c, a, p) /\ Taken(c, p) = Taken(b, p)
  BY BesideStep, OneSlotTaken DEF OneSlot

----------------------------------------------------------------------------
(* The fields of a load that goes on.                                      *)
LEMMA LoadFields ==
    ASSUME NEW s \in Loading, NEW x, NEW ok, NEW i
    PROVE  /\ [s EXCEPT !.m = x, !.ok = ok].m = x
           /\ [s EXCEPT !.m = x, !.ok = ok].added = s.added
           /\ [s EXCEPT !.m = x, !.ok = ok].ok = ok
           /\ [s EXCEPT !.ok = ok].m = s.m
           /\ [s EXCEPT !.ok = ok].added = s.added
           /\ WithSlot(s, x, i).m = x /\ WithSlot(s, x, i).added = Append(s.added, i)
  <1>1. s \in [m : Memory, added : Seq(Slots), ok : BOOLEAN]
    BY DEF Loading, LoadState
  <1> QED BY <1>1 DEF WithSlot

(* zero_tail works on the slot of the segment.                             *)
LEMMA ZeroTailAround ==
    ASSUME NEW s \in Loading, NEW p \in Procs, NEW i \in Slots, NEW seg \in Segments,
           NEW r, r = s.m.preg[p][i].reg, r # 0, NEW z, z = ZeroTail(s, p, i, seg)
    PROVE  OneSlot(z.m, s.m, p, i, r) /\ z.added = s.added
  <1>1. Exact(s.m) /\ s.m \in Memory /\ seg.file \in Nat /\ seg.mem \in Nat
    BY DEF Loading, Exact, PoolExact, Segments
  <1>2. PICK n : n = s.m.preg[p][i].size + seg.mem - seg.file
    OBVIOUS
  <1>3. n \in Int
    <2>1. s.m.preg[p][i] \in Preg
      BY <1>1, MemFields
    <2>2. s.m.preg[p][i].size \in Nat
      BY <2>1, RegionAssumption DEF Preg
    <2> QED BY <1>1, <1>2, <2>2
  <1>4. PICK g : g = Growreg(s.m, p, i, n)
    OBVIOUS
  <1>5. g = Tailed(s.m, p, i, seg)
    BY <1>2, <1>4 DEF Tailed
  <1>6. Exact(g) /\ OneSlot(g, s.m, p, i, r)
    BY <1>1, <1>3, <1>4, GrowregExact, GrowregAround
  <1>7. g.preg[p][i].reg = r
    BY <1>6 DEF OneSlot
  <1>8. PICK X : X = Missing(g, p, i, seg)
    OBVIOUS
  <1>9. X \in SUBSET Nat /\ IsFiniteSet(X)
    BY <1>1, <1>6, <1>7, <1>8, MissingFinite
  <1>10. PICK row, f, ok : /\ row = g.region[r].table /\ f = Fill(g, row, X)
                           /\ ok = (Cardinality(X) <= Len(g.ring))
    OBVIOUS
  <1>11. z = IF seg.mem <= seg.file THEN s
             ELSE IF row = 0 THEN [s EXCEPT !.m = g, !.ok = FALSE]
             ELSE [s EXCEPT !.m = f, !.ok = ok]
    BY <1>5, <1>7, <1>8, <1>10, Zenon DEF ZeroTail
  <1>12. OneSlot(s.m, s.m, p, i, r)
    BY OneSlotSelf
  <1>13. ASSUME row # 0 PROVE OneSlot(f, s.m, p, i, r)
    <2>1. OneSlot(f, g, p, i, r)
      BY <1>6, <1>7, <1>9, <1>10, <1>13, FillSlot
    <2> QED BY <1>6, <2>1, OneSlotTrans
  <1> QED BY <1>6, <1>11, <1>12, <1>13, LoadFields

----------------------------------------------------------------------------
(* A load in progress for p, seen from the memory at the start of execve.  *)
LoadingFrom(a, p) ==
    {s \in Loading : /\ Beside(s.m, a, p) /\ Packed(s.m, p)
                     /\ \A k \in DOMAIN s.added : s.added[k] \notin Taken(a, p)
                     /\ Taken(s.m, p) = Taken(a, p) \union Range(s.added)}

(* One more slot in the list.                                              *)
LEMMA AddedOne ==
    ASSUME NEW l \in Seq(Slots), NEW i \in Slots
    PROVE  /\ Range(Append(l, i)) = Range(l) \union {i}
           /\ \A k \in DOMAIN Append(l, i) :
                  Append(l, i)[k] = i \/ \E x \in DOMAIN l : Append(l, i)[k] = l[x]
  <1>1. /\ DOMAIN l = 1 .. Len(l) /\ Len(l) \in Nat
        /\ DOMAIN Append(l, i) = 1 .. (Len(l) + 1)
        /\ Append(l, i)[Len(l) + 1] = i
        /\ \A k \in 1 .. Len(l) : Append(l, i)[k] = l[k]
    OBVIOUS
  <1>2. PICK b : b = Append(l, i)
    OBVIOUS
  <1>3. \A k \in DOMAIN b : k = Len(l) + 1 \/ k \in DOMAIN l
    BY <1>1, <1>2
  <1>4. \A k \in DOMAIN l : k \in DOMAIN b /\ b[k] = l[k]
    BY <1>1, <1>2
  <1>5. Len(l) + 1 \in DOMAIN b /\ b[Len(l) + 1] = i
    BY <1>1, <1>2
  <1> QED BY <1>2, <1>3, <1>4, <1>5 DEF Range

(* load_one_segment.                                                       *)
LEMMA LoadSegmentBeside ==
    ASSUME NEW a, Exact(a), NEW p \in Procs, NEW s \in LoadingFrom(a, p), NEW seg \in Segments
    PROVE  LoadSegment(s, p, seg) \in LoadingFrom(a, p)
  <1> DEFINE r == Head(s.m.free)
             x == Allocreg(s.m)
             i == Least(Slots \ Taken(x, p))
             b == Attachreg(x, p, r, seg.type)
             c == IF seg.file = 0 THEN b ELSE Loadreg(b, p, i, seg.file, seg.good)
             t == WithSlot(s, c, i)
             loaded == Loaded(b, p, i, seg.file, seg.good)
  <1>1. /\ s \in Loading /\ Exact(s.m) /\ Beside(s.m, a, p) /\ Packed(s.m, p)
        /\ \A k \in DOMAIN s.added : s.added[k] \notin Taken(a, p)
        /\ Taken(s.m, p) = Taken(a, p) \union Range(s.added)
        /\ s.added \in Seq(Slots)
    BY DEF LoadingFrom, Loading, LoadState
  <1>2. seg.file \in Nat /\ seg.mem \in Nat /\ seg.type \in Types
        /\ (~(seg.good < 0) => seg.good \in Nat)
    BY DEF Segments, Types
  <1>3. LoadSegment(s, p, seg) =
            IF seg.good < 0 THEN [s EXCEPT !.ok = FALSE]
            ELSE IF seg.file = 0 /\ seg.mem = 0 THEN s
            ELSE IF s.m.free = <<>> THEN [s EXCEPT !.ok = FALSE]
            ELSE IF Taken(x, p) = Slots THEN [s EXCEPT !.m = x, !.ok = FALSE]
            ELSE IF seg.file > 0 /\ ~loaded THEN [t EXCEPT !.ok = FALSE]
            ELSE ZeroTail(t, p, i, seg)
    BY Zenon DEF LoadSegment, WithSlot
  <1>4. LoadSegment(s, p, seg) \in Loading
    BY <1>1, LoadSegmentExact
  <1>5. PICK z : z = LoadSegment(s, p, seg)
    OBVIOUS
  <1> HIDE DEF x, b, c, t, i, loaded, r
  <1>6. CASE z.m = s.m /\ z.added = s.added
    BY <1>1, <1>4, <1>5, <1>6 DEF LoadingFrom
  <1>7. CASE s.m.free # <<>> /\ Taken(x, p) = Slots /\ z.m = x /\ z.added = s.added
    <2>1. Beside(x, a, p) /\ x.preg = s.m.preg
      BY <1>1, <1>7, AllocBeside, AllocregAround DEF x
    <2>2. Taken(x, p) = Taken(s.m, p)
      BY <2>1 DEF Taken
    <2>3. Packed(x, p)
      BY <1>1, <2>2 DEF Packed
    <2> QED BY <1>1, <1>4, <1>5, <1>7, <2>1, <2>2, <2>3 DEF LoadingFrom
  <1>8. CASE /\ s.m.free # <<>> /\ Taken(x, p) # Slots /\ ~(seg.good < 0)
             /\ z = [t EXCEPT !.ok = FALSE] \/ z = ZeroTail(t, p, i, seg)
    <2>1. Exact(x) /\ Fresh(x, r) /\ Beside(x, a, p) /\ r \notin a.active /\ r # 0
          /\ x.preg = s.m.preg
      <3>1. r \in Regs
        BY <1>1, <1>8, AllocregExact DEF r
      <3> QED BY <1>1, <1>8, <3>1, AllocregExact, AllocBeside, AllocregAround DEF x, r, Regs
    <2>2. Taken(x, p) = Taken(s.m, p)
      BY <2>1 DEF Taken
    <2>3. /\ Exact(b) /\ Beside(b, a, p) /\ i \in Slots /\ i \notin Taken(s.m, p)
          /\ b.preg[p][i].reg = r /\ Taken(b, p) = Taken(s.m, p) \union {i}
      BY <1>2, <1>8, <2>1, <2>2, AttachBeside DEF b, i
    <2>4. Packed(b, p)
      BY <1>1, <1>8, <2>2, <2>3, PackedMore DEF i
    <2>5. Exact(c) /\ OneSlot(c, b, p, i, r)
      <3>1. CASE seg.file = 0
        BY <2>3, <3>1, OneSlotSelf DEF c
      <3>2. CASE seg.file # 0
        BY <1>2, <1>8, <2>1, <2>3, <3>2, LoadregExact, LoadregAround DEF c
      <3> QED BY <3>1, <3>2
    <2>6. c.preg[p][i].reg = r
      BY <2>5 DEF OneSlot
    <2>7. t \in Loading /\ t.m = c /\ t.added = Append(s.added, i)
      <3>1. TRUE \in BOOLEAN
        OBVIOUS
      <3>2. t \in Loading
        BY <1>1, <2>3, <2>5, <3>1, LoadStep DEF t
      <3> QED BY <1>1, <3>2, LoadFields DEF t
    <2>8. OneSlot(z.m, c, p, i, r) /\ z.added = t.added
      <3>1. CASE z = [t EXCEPT !.ok = FALSE]
        BY <2>6, <2>7, <3>1, OneSlotSelf, LoadFields
      <3>2. CASE z = ZeroTail(t, p, i, seg)
        BY <2>1, <2>3, <2>6, <2>7, <3>2, ZeroTailAround
      <3> QED BY <1>8, <3>1, <3>2
    <2>9. OneSlot(z.m, b, p, i, r)
      BY <2>5, <2>8, OneSlotTrans
    <2>10. i \notin Taken(a, p)
      BY <1>1, <2>3
    <2>11. Beside(z.m, a, p) /\ Taken(z.m, p) = Taken(b, p)
      BY <2>1, <2>3, <2>9, <2>10, SlotBeside
    <2>12. Packed(z.m, p)
      BY <2>4, <2>11 DEF Packed
    <2>13. /\ Range(z.added) = Range(s.added) \union {i}
           /\ \A k \in DOMAIN z.added : z.added[k] \notin Taken(a, p)
      BY <1>1, <2>3, <2>7, <2>8, <2>10, AddedOne
    <2>14. Taken(z.m, p) = Taken(a, p) \union Range(z.added)
      BY <1>1, <2>3, <2>11, <2>13
    <2> QED BY <1>4, <1>5, <2>11, <2>12, <2>13, <2>14 DEF LoadingFrom
  <1>9. \/ z = s \/ z = [s EXCEPT !.ok = FALSE]
        \/ s.m.free # <<>> /\ Taken(x, p) = Slots /\ z = [s EXCEPT !.m = x, !.ok = FALSE]
        \/ /\ s.m.free # <<>> /\ Taken(x, p) # Slots /\ ~(seg.good < 0)
           /\ z = [t EXCEPT !.ok = FALSE] \/ z = ZeroTail(t, p, i, seg)
    BY <1>3, <1>5
  <1>10. /\ [s EXCEPT !.ok = FALSE].m = s.m /\ [s EXCEPT !.ok = FALSE].added = s.added
         /\ [s EXCEPT !.m = x, !.ok = FALSE].m = x
         /\ [s EXCEPT !.m = x, !.ok = FALSE].added = s.added
    BY <1>1, LoadFields
  <1>11. \/ z.m = s.m /\ z.added = s.added
         \/ s.m.free # <<>> /\ Taken(x, p) = Slots /\ z.m = x /\ z.added = s.added
         \/ /\ s.m.free # <<>> /\ Taken(x, p) # Slots /\ ~(seg.good < 0)
            /\ z = [t EXCEPT !.ok = FALSE] \/ z = ZeroTail(t, p, i, seg)
    BY <1>9, <1>10
  <1> QED BY <1>6, <1>7, <1>8, <1>11

(* load_segments.                                                          *)
LEMMA LoadSegmentsBeside ==
    ASSUME NEW a, Exact(a), NEW p \in Procs, Packed(a, p), NEW image \in Seq(Segments)
    PROVE  LoadSegments(a, p, image) \in LoadingFrom(a, p)
  <1>1. PICK F : LoadRun(F, a, p, image)
    BY LoadSegmentsRun
  <1>2. PICK L : L = Len(image)
    OBVIOUS
  <1>3. L \in Nat /\ \A k \in 1 .. L : image[k] \in Segments
    BY <1>2
  <1> DEFINE I == [k \in 0 .. L |-> LoadingFrom(a, p)]
  <1>4. F[0] \in I[0]
    <2>1. F[0] = [m |-> a, added |-> <<>>, ok |-> TRUE] /\ F[0] \in Loading
      BY <1>1, <1>2, <1>3 DEF LoadRun
    <2>2. F[0].m = a /\ F[0].added = <<>>
      BY <2>1
    <2>3. Range(<<>>) = {} /\ DOMAIN <<>> = {}
      BY DEF Range
    <2>4. F[0] \in LoadingFrom(a, p)
      BY <2>1, <2>2, <2>3, BesideSelf DEF LoadingFrom
    <2> QED BY <1>3, <2>4
  <1>5. \A k \in 1 .. L : F[k - 1] \in I[k - 1] => F[k] \in I[k]
    <2>1. \A k \in 1 .. L : F[k] = NextSegment(F[k - 1], p, image[k])
      BY <1>1, <1>2 DEF LoadRun
    <2>2. \A k \in 1 .. L : F[k - 1] \in LoadingFrom(a, p) => F[k] \in LoadingFrom(a, p)
      BY <1>3, <2>1, LoadSegmentBeside DEF NextSegment
    <2> QED BY <1>3, <2>2
  <1>6. \A k \in 0 .. L : F[k] \in I[k]
    <2> HIDE DEF I
    <2> QED BY <1>3, <1>4, <1>5, LoopUpTo
  <1>7. F[L] \in LoadingFrom(a, p)
    BY <1>3, <1>6
  <1> QED BY <1>1, <1>2, <1>7 DEF LoadRun

(* detachreg of a slot that this call has taken.                           *)
LEMMA DetachBeside ==
    ASSUME NEW a, NEW m, Exact(m), NEW p \in Procs, Beside(m, a, p), 0 \notin a.active,
           NEW i \in Slots, i \notin Taken(a, p), NEW b, b = Detachreg(m, p, i)
    PROVE  Beside(b, a, p) /\ Exact(b) /\ Taken(b, p) = Taken(m, p) \ {i}
  <1>1. PICK r : r = m.preg[p][i].reg
    OBVIOUS
  <1>2. Around(b, m, m.active \ {r}, p, Slots \ {i}) /\ b.preg[p][i].reg = 0
    <2>1. Emptied(b, m, p, i, r)
      BY <1>1, DetachregAround
    <2> QED BY <2>1 DEF Emptied
  <1>3. r \notin a.active
    BY <1>1 DEF Beside
  <1>4. Beside(b, a, p)
    BY <1>2, <1>3, BesideStep
  <1>5. \A j \in Slots : j # i => b.preg[p][j] = m.preg[p][j]
    BY <1>2 DEF Around, SameSlots
  <1>6. Taken(b, p) = Taken(m, p) \ {i}
    BY <1>2, <1>5 DEF Taken
  <1> QED BY <1>4, <1>6, DetachregExact

(* attach_failed leaves p the slots it had.                                *)
LEMMA AttachFailedBeside ==
    ASSUME NEW a, Exact(a), NEW p \in Procs, NEW m, Exact(m), Beside(m, a, p),
           NEW l \in Seq(Slots), \A k \in DOMAIN l : l[k] \notin Taken(a, p),
           Taken(m, p) = Taken(a, p) \union Range(l), NEW b, b = AttachFailed(m, p, l)
    PROVE  Beside(b, a, p) /\ Taken(b, p) = Taken(a, p)
  <1>1. PICK F : DetachRun(F, m, p, l)
    BY AttachFailedRun
  <1>2. PICK L : L = Len(l)
    OBVIOUS
  <1>3. L \in Nat /\ DOMAIN l = 1 .. L /\ \A k \in 1 .. L : l[k] \in Slots
    BY <1>2
  <1> DEFINE Left(k) == {l[x] : x \in 1 .. (L - k)}
             I == [k \in 0 .. L |->
                      {x \in Kept : /\ Beside(x, a, p)
                                    /\ Taken(x, p) \subseteq Taken(a, p) \union Left(k)}]
  <1>4. F[0] \in I[0]
    <2>1. F[0] = m /\ F[0] \in Kept
      BY <1>1, <1>2, <1>3 DEF DetachRun
    <2>2. Range(l) = Left(0)
      BY <1>3 DEF Range
    <2> QED BY <1>3, <2>1, <2>2
  <1>5. \A k \in 1 .. L : F[k - 1] \in I[k - 1] => F[k] \in I[k]
    <2> SUFFICES ASSUME NEW k \in 1 .. L, F[k - 1] \in I[k - 1] PROVE F[k] \in I[k]
      OBVIOUS
    <2>1. k - 1 \in 0 .. L /\ L - k + 1 \in 1 .. L /\ k \in 0 .. L
      BY <1>3
    <2>2. PICK x, y, i : x = F[k - 1] /\ y = F[k] /\ i = l[L - k + 1]
      OBVIOUS
    <2>3. /\ Exact(x) /\ Beside(x, a, p)
          /\ Taken(x, p) \subseteq Taken(a, p) \union Left(k - 1)
      BY <2>1, <2>2, KeptIs
    <2>4. y = Detachreg(x, p, i) /\ y \in Kept
      BY <1>1, <1>2, <2>1, <2>2 DEF DetachRun
    <2>5. i \in Slots /\ i \notin Taken(a, p)
      BY <1>3, <2>1, <2>2
    <2>6. 0 \notin a.active
      BY MemFields DEF Exact, PoolExact, Regs
    <2>7. Beside(y, a, p) /\ Taken(y, p) = Taken(x, p) \ {i}
      BY <2>3, <2>4, <2>5, <2>6, DetachBeside
    <2>8. Left(k - 1) = Left(k) \union {i}
      <3>1. 1 .. (L - (k - 1)) = 1 .. (L - k) \union {L - k + 1}
        BY <1>3
      <3> QED BY <2>2, <3>1
    <2> HIDE DEF Left
    <2>9. Taken(y, p) \subseteq Taken(a, p) \union Left(k)
      BY <2>3, <2>7, <2>8
    <2> QED BY <2>1, <2>2, <2>4, <2>7, <2>9
  <1>6. \A k \in 0 .. L : F[k] \in I[k]
    <2> HIDE DEF I
    <2> QED BY <1>3, <1>4, <1>5, LoopUpTo
  <1>7. b = F[L]
    BY <1>1, <1>2 DEF DetachRun
  <1>8. Beside(b, a, p) /\ Taken(b, p) \subseteq Taken(a, p) \union Left(L)
    BY <1>3, <1>6, <1>7
  <1>9. Left(L) = {}
    BY <1>3
  <1>10. Taken(a, p) \subseteq Taken(b, p)
    BY <1>8 DEF Beside, Around, SameSlots, Taken
  <1> QED BY <1>8, <1>9, <1>10

----------------------------------------------------------------------------
(* The calls, one by one. The mem before is a.                             *)
AllPacked(m) == \A p \in Procs : Packed(m, p)

(* The slots of the other processes are theirs.                            *)
LEMMA BesideOthers ==
    ASSUME NEW a, NEW b, NEW x \in Procs, Beside(b, a, x)
    PROVE  \A q \in Procs : q # x => Taken(b, q) = Taken(a, q)
  <1>1. \A q \in Procs, j \in Slots : q # x => b.preg[q][j] = a.preg[q][j]
    BY DEF Beside, Around, SameSlots
  <1> QED BY <1>1 DEF Taken

(* So no process has a gap if the caller has none.                         *)
LEMMA BesidePacked ==
    ASSUME NEW a, AllPacked(a), NEW b, NEW x \in Procs, Beside(b, a, x), Packed(b, x)
    PROVE  AllPacked(b)
  BY BesideOthers DEF AllPacked, Packed

(* execve: the caller maps what it did if it fails.                        *)
LEMMA ExecBeside ==
    ASSUME Exact(mem), AllPacked(mem), NEW p \in Procs, NEW image \in Images,
           Exec(p, image)
    PROVE  /\ Beside(mem', mem, p) /\ Packed(mem, p)'
           /\ last'.op = "exec" /\ last'.p = p /\ last'.child = 0
           /\ ~last'.ok => Taken(mem', p) = Taken(mem, p)
  <1>1. PICK a, b, s : a = mem /\ b = mem' /\ s = LoadSegments(mem, p, image)
    OBVIOUS
  <1>2. Exact(a) /\ Packed(a, p)
    BY <1>1 DEF AllPacked
  <1>3. s \in LoadingFrom(a, p)
    <2>1. image \in Seq(Segments)
      BY RegionAssumption
    <2> QED BY <1>1, <1>2, <2>1, LoadSegmentsBeside
  <1>4. /\ b = IF s.ok THEN s.m ELSE AttachFailed(s.m, p, s.added)
        /\ last' = [op |-> "exec", p |-> p, child |-> 0, ok |-> s.ok]
    BY <1>1 DEF Exec, Made
  <1>5. /\ Exact(s.m) /\ Beside(s.m, a, p) /\ Packed(s.m, p) /\ s.added \in Seq(Slots)
        /\ \A k \in DOMAIN s.added : s.added[k] \notin Taken(a, p)
        /\ Taken(s.m, p) = Taken(a, p) \union Range(s.added)
    BY <1>3 DEF LoadingFrom, Loading, LoadState
  <1>6. CASE s.ok
    BY <1>1, <1>4, <1>5, <1>6
  <1>7. CASE ~s.ok
    <2>1. Beside(b, a, p) /\ Taken(b, p) = Taken(a, p)
      BY <1>2, <1>4, <1>5, <1>7, AttachFailedBeside
    <2>2. Packed(b, p)
      BY <1>2, <2>1 DEF Packed
    <2> QED BY <1>1, <1>4, <1>7, <2>1, <2>2
  <1> QED BY <1>6, <1>7

----------------------------------------------------------------------------
(* fork. The regions that p has attached.                                  *)
Owned(m, p) == {m.preg[p][j].reg : j \in Taken(m, p)}

(* Slot j of the child is slot j of the parent p, the region apart.        *)
Twin(b, a, p, child, j) ==
    /\ b.preg[child][j].type = a.preg[p][j].type
    /\ b.preg[child][j].size = a.preg[p][j].size
    /\ \A pg \in Pages : FrameAt(b, child, j, pg) = FrameAt(a, p, j, pg)

(* A page of a slot is a page of its region.                               *)
LEMMA FrameIsPage ==
    ASSUME NEW m, NEW p, NEW i, NEW j
    PROVE  FrameAt(m, p, i, j) = PageOf(m, m.preg[p][i].reg, j)
  BY DEF FrameAt, PageOf

(* Region r has the pages it had.                                          *)
SamePages(b, a, r) ==
    /\ b.region[r].table = a.region[r].table /\ b.region[r].size = a.region[r].size
    /\ a.region[r].table # 0 => b.table[a.region[r].table] = a.table[a.region[r].table]

(* A region with the row it had has the pages it had.                      *)
LEMMA PageSame ==
    ASSUME NEW a, NEW b, NEW r, SamePages(b, a, r)
    PROVE  \A j \in Pages : PageOf(b, r, j) = PageOf(a, r, j)
  BY DEF PageOf, SamePages

(* A fork in progress, seen from a where the child has taken no slot.      *)
ForkingFrom(a, p, child, k) ==
    {s \in Forking(child, k) :
         /\ Beside(s.m, a, child)
         /\ s.m.active = a.active \union Owned(s.m, child)
         /\ s.ok => /\ Taken(s.m, child) = {j \in Taken(a, p) : j <= k}
                    /\ \A j \in Taken(s.m, child) : Twin(s.m, a, p, child, j)}

(* dupreg and attachreg of the next region.                                *)
Duplicated(b, m, child, i, r, new, t) ==
    /\ SameOn(b, m, m.active) /\ b.active = m.active \union {new}
    /\ Taken(b, child) = Taken(m, child) \union {i}
    /\ b.preg[child][i] = [reg |-> new, type |-> t, size |-> m.region[r].size]
    /\ \A j \in Slots : j # i => b.preg[child][j] = m.preg[child][j]
    /\ \A j \in Pages : PageOf(b, new, j) = PageOf(m, r, j)

(* dupreg, and attachreg to the child, in the course of a fork.            *)
LEMMA DupBeside ==
    ASSUME NEW a, Exact(a), NEW m, Exact(m), NEW child \in Procs, Beside(m, a, child),
           NEW r \in m.active, m.free # <<>>, NEW t \in Types, Taken(m, child) # Slots,
           NEW new, new = Head(m.free), NEW d, d = Dupreg(m, r),
           NEW i, i = Least(Slots \ Taken(m, child)), NEW b, b = Attachreg(d, child, new, t)
    PROVE  Beside(b, a, child) /\ Duplicated(b, m, child, i, r, new, t)
  <1>1. /\ Exact(d) /\ Fresh(d, new) /\ d.preg = m.preg
        /\ d.active = m.active \union {new} /\ new \notin m.active
        /\ SameOn(d, m, m.active) /\ Copied(d, new, m, r)
    BY DupregExact
  <1>2. a.active \subseteq m.active
    BY DEF Beside, Around, SameOn
  <1>3. m.active \ {new} = m.active
    BY <1>1
  <1>4. Beside(d, a, child)
    BY <1>1, <1>2, <1>3, BesideQuiet
  <1>5. Taken(d, child) = Taken(m, child)
    BY <1>1 DEF Taken
  <1>6. /\ Beside(b, a, child) /\ Taken(b, child) = Taken(m, child) \union {i}
    BY <1>1, <1>2, <1>4, <1>5, AttachBeside
  <1>7. /\ Around(b, d, d.active \ {new}, child, Slots \ {i})
        /\ b.active = d.active /\ b.table = d.table
        /\ b.preg[child][i] = [reg |-> new, type |-> t, size |-> d.region[new].size]
        /\ b.region[new].table = d.region[new].table
        /\ b.region[new].size = d.region[new].size
    <2>1. i = Least(Slots \ Taken(d, child)) /\ Taken(d, child) # Slots
      BY <1>5
    <2>2. Attached(b, d, child, i, new, t)
      BY <1>1, <2>1, AttachregAround
    <2> QED BY <2>2 DEF Attached
  <1>8. SameOn(b, m, m.active)
    <2>1. m.active = d.active \ {new}
      BY <1>1
    <2>2. SameOn(b, d, m.active) /\ SameOn(d, m, m.active)
      BY <1>1, <1>7, <2>1 DEF Around
    <2> QED BY <2>2 DEF SameOn
  <1>9. \A j \in Slots : j # i => b.preg[child][j] = m.preg[child][j]
    <2>1. SameSlots(b, d, child, Slots \ {i}) /\ d.preg = m.preg
      BY <1>1, <1>7 DEF Around
    <2> QED BY <2>1 DEF SameSlots
  <1>10. \A j \in Pages : PageOf(b, new, j) = PageOf(m, r, j)
    <2>1. SamePages(b, d, new)
      BY <1>7 DEF SamePages
    <2>2. \A j \in Pages : PageOf(b, new, j) = PageOf(d, new, j)
      BY <2>1, PageSame
    <2> QED BY <1>1, <2>2 DEF Copied
  <1> QED BY <1>1, <1>6, <1>7, <1>8, <1>9, <1>10 DEF Copied, Duplicated

(* fork_regions, one slot of the parent.                                   *)
LEMMA ForkRegionBeside ==
    ASSUME NEW a, Exact(a), NEW p \in Procs, Packed(a, p), NEW child \in Procs, p # child,
           Taken(a, child) = {}, NEW k \in Slots, NEW s \in ForkingFrom(a, p, child, k - 1)
    PROVE  ForkRegion(s, p, child, k) \in ForkingFrom(a, p, child, k)
  <1>1. PICK z, m, r, t, new : /\ z = ForkRegion(s, p, child, k) /\ m = s.m
                               /\ r = m.preg[p][k].reg /\ t = m.preg[p][k].type
                               /\ new = Head(m.free)
    OBVIOUS
  <1>2. PICK d : d = Dupreg(m, r)
    OBVIOUS
  <1>3. PICK b : b = Attachreg(d, child, new, t)
    OBVIOUS
  <1>4. z = IF ~s.ok \/ r = 0 THEN s
            ELSE IF m.free = <<>> THEN [s EXCEPT !.ok = FALSE]
            ELSE [s EXCEPT !.m = b]
    BY <1>1, <1>2, <1>3, Zenon DEF ForkRegion
  <1>5. /\ s \in Forking(child, k - 1) /\ s \in ForkState /\ Exact(m) /\ m \in Memory
        /\ Beside(m, a, child) /\ m.active = a.active \union Owned(m, child)
        /\ s.ok => /\ Taken(m, child) = {j \in Taken(a, p) : j <= k - 1}
                   /\ \A j \in Taken(m, child) : Twin(m, a, p, child, j)
    BY <1>1 DEF ForkingFrom, Forking, Exact, PoolExact
  <1>6. z \in Forking(child, k)
    BY <1>1, <1>5, ForkRegionExact
  <1>7. m.preg[p][k] = a.preg[p][k] /\ k \in Nat /\ Taken(a, p) \subseteq Nat
    BY <1>5 DEF Beside, Around, SameSlots, Slots, Taken
  <1>8. CASE ~s.ok
    BY <1>1, <1>4, <1>5, <1>6, <1>8 DEF ForkingFrom
  <1>9. CASE s.ok /\ r = 0
    <2>1. k \notin Taken(a, p)
      BY <1>1, <1>7, <1>9 DEF Taken
    <2>2. {j \in Taken(a, p) : j <= k} = {j \in Taken(a, p) : j <= k - 1}
      BY <1>7, <2>1
    <2>3. z = s
      BY <1>4, <1>9
    <2> QED BY <1>1, <1>5, <1>6, <1>9, <2>2, <2>3 DEF ForkingFrom
  <1>10. CASE s.ok /\ r # 0 /\ m.free = <<>>
    <2>1. z = [s EXCEPT !.ok = FALSE]
      BY <1>4, <1>10
    <2>2. z.m = m /\ ~z.ok
      BY <1>1, <1>5, <2>1 DEF ForkState
    <2> QED BY <1>1, <1>5, <1>6, <2>2 DEF ForkingFrom
  <1>11. CASE s.ok /\ r # 0 /\ m.free # <<>>
    <2>1. z = [s EXCEPT !.m = b]
      BY <1>4, <1>11
    <2>2. z.m = b /\ z.ok = s.ok
      BY <1>1, <1>5, <2>1 DEF ForkState
    <2>3. k \in Taken(a, p) /\ r \in a.active /\ r \in m.active /\ t \in Types
      <3>1. k \in Taken(a, p) /\ r \in a.active
        BY <1>1, <1>7, <1>11 DEF Taken, Exact, AttachExact
      <3>2. r \in m.active
        BY <1>1, <1>5, <1>11 DEF Exact, AttachExact
      <3>3. m.preg[p][k] \in Preg
        BY <1>5, MemFields
      <3> QED BY <1>1, <3>1, <3>2, <3>3 DEF Preg
    <2>4. Taken(m, child) = 1 .. (k - 1) /\ {j \in Taken(a, p) : j <= k} = 1 .. k
      <3>1. PICK n \in 0 .. MAX_REG_PER_PROC : Taken(a, p) = 1 .. n
        BY DEF Packed
      <3>2. k \in 1 .. n /\ n \in Nat
        BY <2>3, <3>1, RegionAssumption
      <3>3. {j \in 1 .. n : j <= k - 1} = 1 .. (k - 1) /\ {j \in 1 .. n : j <= k} = 1 .. k
        BY <3>2
      <3> QED BY <1>5, <1>11, <3>1, <3>3
    <2>5. k = Least(Slots \ Taken(m, child)) /\ Taken(m, child) # Slots
      <3>1. k \notin Taken(m, child)
        BY <1>7, <2>4
      <3>2. Taken(m, child) # Slots /\ k - 1 \in 0 .. MAX_REG_PER_PROC
        BY <3>1, RegionAssumption DEF Slots
      <3>3. PICK i, n : i = Least(Slots \ Taken(m, child)) /\ n = k - 1
        OBVIOUS
      <3>4. i = n + 1
        BY <2>4, <3>2, <3>3, NextSlot
      <3> QED BY <1>7, <3>2, <3>3, <3>4
    <2>6. /\ Beside(b, a, child) /\ SameOn(b, m, m.active)
          /\ Taken(b, child) = Taken(m, child) \union {k}
          /\ b.preg[child][k] = [reg |-> new, type |-> t, size |-> m.region[r].size]
          /\ \A j \in Slots : j # k => b.preg[child][j] = m.preg[child][j]
          /\ b.active = m.active \union {new}
          /\ \A j \in Pages : PageOf(b, new, j) = PageOf(m, r, j)
      <3>1. Beside(b, a, child) /\ Duplicated(b, m, child, k, r, new, t)
        BY <1>1, <1>2, <1>3, <1>5, <1>11, <2>3, <2>5, DupBeside
      <3> QED BY <3>1 DEF Duplicated
    <2>7. Taken(b, child) = {j \in Taken(a, p) : j <= k}
      BY <1>5, <1>7, <1>11, <2>3, <2>6
    <2>8. b.active = a.active \union Owned(b, child)
      <3>1. \A j \in Taken(m, child) : j \in Slots /\ j # k
        BY <1>7, <2>4 DEF Taken
      <3>2. Owned(b, child) = Owned(m, child) \union {new}
        BY <2>6, <3>1 DEF Owned
      <3> QED BY <1>5, <2>6, <3>2
    <2>9. Twin(b, a, p, child, k)
      <3>1. a.region[r] = m.region[r] /\ \A j \in Pages : PageOf(m, r, j) = PageOf(a, r, j)
        <4>1. m.region[r] = a.region[r] /\ SamePages(m, a, r)
          BY <1>5, <2>3 DEF Beside, Around, SameOn, SamePages
        <4> QED BY <4>1, PageSame
      <3>2. a.region[r].size = a.preg[p][k].size
        BY <1>1, <1>7, <1>11 DEF Exact, AttachExact
      <3>3. \A j \in Pages : FrameAt(b, child, k, j) = FrameAt(a, p, k, j)
        <4>1. b.preg[child][k].reg = new /\ a.preg[p][k].reg = r
          BY <1>1, <1>7, <2>6
        <4> QED BY <2>6, <3>1, <4>1, FrameIsPage
      <3> QED BY <1>1, <1>7, <2>6, <3>1, <3>2, <3>3 DEF Twin
    <2>10. ASSUME NEW j \in Taken(m, child) PROVE Twin(b, a, p, child, j)
      <3>1. Twin(m, a, p, child, j) /\ j \in Slots /\ j # k
        BY <1>5, <1>7, <1>11, <2>4 DEF Taken
      <3>2. PICK x : x = m.preg[child][j].reg
        OBVIOUS
      <3>3. b.preg[child][j] = m.preg[child][j] /\ x \in m.active
        BY <1>5, <2>6, <3>1, <3>2 DEF Exact, AttachExact, Taken
      <3>4. SamePages(b, m, x)
        BY <2>6, <3>3 DEF SameOn, SamePages
      <3>5. \A pg \in Pages : FrameAt(b, child, j, pg) = FrameAt(m, child, j, pg)
        BY <3>2, <3>3, <3>4, PageSame, FrameIsPage
      <3> QED BY <3>1, <3>3, <3>5 DEF Twin
    <2>11. \A j \in Taken(b, child) : Twin(b, a, p, child, j)
      BY <2>6, <2>9, <2>10
    <2> QED BY <1>1, <1>6, <2>2, <2>6, <2>7, <2>8, <2>11 DEF ForkingFrom
  <1> QED BY <1>8, <1>9, <1>10, <1>11

(* fork_regions.                                                           *)
LEMMA ForkRegionsBeside ==
    ASSUME NEW a, Exact(a), NEW p \in Procs, Packed(a, p), NEW child \in Procs, p # child,
           Taken(a, child) = {}
    PROVE  ForkRegions(a, p, child) \in ForkingFrom(a, p, child, MAX_REG_PER_PROC)
  <1>1. PICK F : ForkRun(F, a, p, child)
    BY ForkRegionsRun
  <1>2. PICK L : L = MAX_REG_PER_PROC
    OBVIOUS
  <1>3. L \in Nat /\ \A k \in 1 .. L : k \in Slots
    BY <1>2, RegionAssumption DEF Slots
  <1> DEFINE I == [k \in 0 .. L |-> ForkingFrom(a, p, child, k)]
  <1>4. F[0] \in I[0]
    <2>1. F[0] = [m |-> a, ok |-> TRUE] /\ F[0] \in Forking(child, 0)
      BY <1>1, <1>2, <1>3 DEF ForkRun
    <2>2. F[0].m = a
      BY <2>1
    <2>3. Owned(a, child) = {}
      BY DEF Owned
    <2>4. {j \in Taken(a, p) : j <= 0} = {}
      BY <1>2, <1>3 DEF Taken, Slots
    <2>5. F[0] \in ForkingFrom(a, p, child, 0)
      BY <2>1, <2>2, <2>3, <2>4, BesideSelf DEF ForkingFrom
    <2> QED BY <1>3, <2>5
  <1>5. \A k \in 1 .. L : F[k - 1] \in I[k - 1] => F[k] \in I[k]
    <2>1. \A k \in 1 .. L : F[k] = ForkRegion(F[k - 1], p, child, k)
      BY <1>1, <1>2 DEF ForkRun
    <2>2. \A k \in 1 .. L : F[k - 1] \in ForkingFrom(a, p, child, k - 1)
                            => F[k] \in ForkingFrom(a, p, child, k)
      BY <1>3, <2>1, ForkRegionBeside
    <2>3. \A k \in 1 .. L : k - 1 \in 0 .. L /\ k \in 0 .. L
      BY <1>3
    <2> QED BY <2>2, <2>3
  <1>6. \A k \in 0 .. L : F[k] \in I[k]
    <2> HIDE DEF I
    <2> QED BY <1>3, <1>4, <1>5, LoopUpTo
  <1>7. L \in 0 .. L
    BY <1>3
  <1>8. F[L] \in ForkingFrom(a, p, child, L)
    BY <1>6, <1>7
  <1>9. ForkRegions(a, p, child) = F[L]
    BY <1>1, <1>2 DEF ForkRun
  <1> QED BY <1>2, <1>8, <1>9

(* A memory from which the regions of the child are detached.              *)
Undoing(a, child, k) ==
    {m \in Kept : /\ Beside(m, a, child)
                  /\ m.active = a.active \union Owned(m, child)
                  /\ Taken(m, child) \intersect 1 .. k = {}}

(* One slot of the unwinding.                                              *)
LEMMA UndoOne ==
    ASSUME NEW a, Exact(a), NEW child \in Procs, Taken(a, child) = {},
           NEW k \in Slots, NEW m \in Undoing(a, child, k - 1)
    PROVE  Detachreg(m, child, k) \in Undoing(a, child, k)
  <1>1. /\ m \in Kept /\ Exact(m) /\ Beside(m, a, child)
        /\ m.active = a.active \union Owned(m, child)
        /\ Taken(m, child) \intersect 1 .. (k - 1) = {}
    BY KeptIs DEF Undoing
  <1>2. PICK r, b : r = m.preg[child][k].reg /\ b = Detachreg(m, child, k)
    OBVIOUS
  <1>3. 0 \notin a.active
    BY MemFields DEF Exact, PoolExact, Regs
  <1>4. Beside(b, a, child) /\ Exact(b) /\ Taken(b, child) = Taken(m, child) \ {k}
    BY <1>1, <1>2, <1>3, DetachBeside
  <1>5. /\ Around(b, m, m.active \ {r}, child, Slots \ {k})
        /\ b.active = m.active \ {r}
    <2>1. Emptied(b, m, child, k, r)
      BY <1>1, <1>2, DetachregAround
    <2> QED BY <2>1 DEF Emptied
  <1>6. \A j \in Taken(b, child) : b.preg[child][j] = m.preg[child][j]
    BY <1>4, <1>5 DEF Around, SameSlots, Taken
  <1>7. \A j \in Taken(m, child) : m.preg[child][j].reg # r \/ j = k
    BY <1>1, <1>2 DEF Exact, AttachExact, Taken
  <1>8. r \notin a.active
    BY <1>1, <1>2 DEF Beside
  <1>9. Owned(b, child) = Owned(m, child) \ {r}
    <2>1. \A j \in Taken(b, child) : j \in Taken(m, child) /\ j # k
      BY <1>4
    <2>2. \A x \in Owned(b, child) : x \in Owned(m, child) /\ x # r
      BY <1>6, <1>7, <2>1 DEF Owned
    <2>3. \A x \in Owned(m, child) : x # r => x \in Owned(b, child)
      <3>1. ASSUME NEW x \in Owned(m, child), x # r PROVE x \in Owned(b, child)
        <4>1. PICK j \in Taken(m, child) : x = m.preg[child][j].reg
          BY DEF Owned
        <4>2. j \in Taken(b, child)
          BY <1>2, <1>4, <3>1, <4>1
        <4> QED BY <1>6, <4>1, <4>2 DEF Owned
      <3> QED BY <3>1
    <2> QED BY <2>2, <2>3
  <1>10. b.active = a.active \union Owned(b, child)
    BY <1>1, <1>5, <1>8, <1>9
  <1>11. Taken(b, child) \intersect 1 .. k = {}
    <2>1. k \in Nat
      BY DEF Slots
    <2>2. 1 .. k \subseteq 1 .. (k - 1) \union {k}
      BY <2>1
    <2> QED BY <1>1, <1>4, <2>2
  <1>12. b \in Kept
    BY <1>4, KeptIs
  <1> QED BY <1>2, <1>4, <1>10, <1>11, <1>12 DEF Undoing

(* The unwinding leaves the child no slot, and no region active more.      *)
LEMMA ForkUndoBeside ==
    ASSUME NEW a, Exact(a), NEW child \in Procs, Taken(a, child) = {},
           NEW m, Exact(m), Beside(m, a, child), m.active = a.active \union Owned(m, child),
           NEW b, b = ForkUndo(m, child)
    PROVE  /\ Beside(b, a, child) /\ Exact(b)
           /\ Taken(b, child) = {} /\ b.active = a.active
  <1>1. PICK F : UndoRun(F, m, child)
    BY ForkUndoRun
  <1>2. PICK L : L = MAX_REG_PER_PROC
    OBVIOUS
  <1>3. L \in Nat /\ Slots = 1 .. L
    BY <1>2, RegionAssumption DEF Slots
  <1> DEFINE I == [k \in 0 .. L |-> Undoing(a, child, k)]
  <1>4. F[0] \in I[0]
    <2>1. F[0] = m /\ F[0] \in Kept
      BY <1>1, <1>2, <1>3 DEF UndoRun
    <2>2. 1 .. 0 = {}
      OBVIOUS
    <2>3. F[0] \in Undoing(a, child, 0)
      BY <2>1, <2>2 DEF Undoing
    <2> QED BY <1>3, <2>3
  <1>5. \A k \in 1 .. L : F[k - 1] \in I[k - 1] => F[k] \in I[k]
    <2>1. \A k \in 1 .. L : F[k] = Detachreg(F[k - 1], child, k)
      BY <1>1, <1>2 DEF UndoRun
    <2>2. \A k \in 1 .. L : F[k - 1] \in Undoing(a, child, k - 1)
                            => F[k] \in Undoing(a, child, k)
      BY <1>3, <2>1, UndoOne
    <2>3. \A k \in 1 .. L : k - 1 \in 0 .. L /\ k \in 0 .. L
      BY <1>3
    <2> QED BY <2>2, <2>3
  <1>6. \A k \in 0 .. L : F[k] \in I[k]
    <2> HIDE DEF I
    <2> QED BY <1>3, <1>4, <1>5, LoopUpTo
  <1>7. L \in 0 .. L
    BY <1>3
  <1>8. F[L] \in Undoing(a, child, L) /\ b = F[L]
    BY <1>1, <1>2, <1>6, <1>7 DEF UndoRun
  <1>9. b \in Kept /\ Beside(b, a, child) /\ b.active = a.active \union Owned(b, child)
        /\ Taken(b, child) \intersect 1 .. L = {}
    BY <1>8 DEF Undoing
  <1>10. Taken(b, child) = {}
    BY <1>3, <1>9 DEF Taken
  <1>11. Owned(b, child) = {}
    BY <1>10 DEF Owned
  <1> QED BY <1>9, <1>10, <1>11, KeptIs

(* The rows in use are those of the active regions.                        *)
LEMMA UsedSame ==
    ASSUME NEW a, Exact(a), NEW b, Exact(b), b.active = a.active, SameOn(b, a, a.active)
    PROVE  b.used = a.used
  <1>1. \A x \in a.active : b.region[x].table = a.region[x].table
    BY DEF SameOn
  <1>2. /\ a.used = {a.region[r].table : r \in {x \in a.active : a.region[x].table # 0}}
        /\ b.used = {b.region[r].table : r \in {x \in b.active : b.region[x].table # 0}}
    BY DEF Exact, PoolExact, RowsExact
  <1> QED BY <1>1, <1>2

(* The segments of two processes are the same, in the order of their slots.*)
LEMMA LayoutSame ==
    ASSUME NEW a, NEW b, NEW p, NEW q, Taken(b, q) = Taken(a, p), Space(b, q) = Space(a, p)
    PROVE  Layout(b, q) = Layout(a, p)
  <1>1. Layout(b, q) = LET slots == SetToSortSeq(Taken(a, p), <)
                       IN  [k \in DOMAIN slots |-> Space(a, p)[slots[k]]]
    BY Zenon DEF Layout
  <1> QED BY <1>1, Zenon DEF Layout

(* A twin in every slot is the same address space.                         *)
LEMMA TwinsSpace ==
    ASSUME NEW a, NEW b, NEW p, NEW child, Taken(b, child) = Taken(a, p),
           \A j \in Taken(b, child) : Twin(b, a, p, child, j)
    PROVE  Space(b, child) = Space(a, p)
  <1>1. \A j \in Taken(a, p) :
            /\ b.preg[child][j].type = a.preg[p][j].type
            /\ b.preg[child][j].size = a.preg[p][j].size
            /\ [pg \in Pages |-> FrameAt(b, child, j, pg)]
                   = [pg \in Pages |-> FrameAt(a, p, j, pg)]
    BY DEF Twin
  <1>2. \A j \in Taken(a, p) :
            [type |-> b.preg[child][j].type, size |-> b.preg[child][j].size,
             frames |-> [pg \in Pages |-> FrameAt(b, child, j, pg)]]
          = [type |-> a.preg[p][j].type, size |-> a.preg[p][j].size,
             frames |-> [pg \in Pages |-> FrameAt(a, p, j, pg)]]
    BY <1>1, Zenon
  <1>3. [j \in Taken(b, child) |->
            [type |-> b.preg[child][j].type, size |-> b.preg[child][j].size,
             frames |-> [pg \in Pages |-> FrameAt(b, child, j, pg)]]]
        = [j \in Taken(a, p) |->
            [type |-> a.preg[p][j].type, size |-> a.preg[p][j].size,
             frames |-> [pg \in Pages |-> FrameAt(a, p, j, pg)]]]
    BY <1>2, Zenon
  <1> QED BY <1>3, Zenon DEF Space

----------------------------------------------------------------------------
(* The slot of the child, cleared.                                         *)
LEMMA ClearedAround ==
    ASSUME NEW m, m \in Memory, NEW child \in Procs, NEW b, b = [m EXCEPT !.preg[child] = Blank]
    PROVE  /\ SameOn(b, m, m.active) /\ SameSlots(b, m, child, {})
           /\ b.active = m.active /\ b.used = m.used
  <1> DEFINE P == [m.preg EXCEPT ![child] = Blank]
  <1>1. b = SetPreg(m, P)
    BY Zenon DEF SetPreg
  <1>2. \A q \in Procs : q # child => P[q] = m.preg[q]
    BY MemFields
  <1> HIDE DEF P
  <1>3. /\ b.preg = P /\ b.region = m.region /\ b.active = m.active
        /\ b.table = m.table /\ b.used = m.used
    BY <1>1 DEF SetPreg, Memory
  <1> QED BY <1>2, <1>3 DEF SameOn, SameSlots

(* A fork seen from the memory before it: a call on the slots of the child.*)
Forked(b, a, p, child, ok) ==
    /\ \A q \in Procs : q # child => Space(b, q) = Space(a, q)
    /\ ok => Layout(b, child) = Layout(a, p)
    /\ ~ok => b.active = a.active /\ b.used = a.used /\ Taken(b, child) = {}

(* fork: the child has the space of its parent, or nothing at all.         *)
LEMMA ForkBeside ==
    ASSUME Exact(mem), AllPacked(mem), NEW p \in Live, Fork(p)
    PROVE  \E a, b : \E child \in Procs, ok \in BOOLEAN :
               /\ a = mem /\ b = mem' /\ child # p
               /\ last' = [op |-> "fork", p |-> p, child |-> child, ok |-> ok]
               /\ Forked(b, a, p, child, ok) /\ AllPacked(b)
  <1> DEFINE unused == {c \in Procs : pstate[c] = "unused"}
  <1>1. PICK child : child = Least(unused)
    OBVIOUS
  <1>2. child \in Procs /\ child # p /\ p \in Procs
    <2>1. unused \in SUBSET Nat /\ unused # {}
      BY DEF Fork, Procs
    <2> HIDE DEF unused
    <2>2. child \in unused
      BY <1>1, <2>1, LeastIn
    <2> QED BY <2>2 DEF unused, Live
  <1>3. PICK a, b, c, s : /\ a = mem /\ b = mem' /\ c = [mem EXCEPT !.preg[child] = Blank]
                          /\ s = ForkRegions([mem EXCEPT !.preg[child] = Blank], p, child)
    OBVIOUS
  <1>4. /\ b = IF s.ok THEN s.m ELSE ForkUndo(s.m, child)
        /\ last' = [op |-> "fork", p |-> p, child |-> child, ok |-> s.ok]
    BY <1>1, <1>3 DEF Fork, Made
  <1> HIDE DEF unused
  <1>5. Exact(a) /\ AllPacked(a) /\ c = [a EXCEPT !.preg[child] = Blank] /\ a \in Memory
    BY <1>3 DEF Exact, PoolExact
  <1>6. Exact(c) /\ Taken(c, child) = {}
    BY <1>2, <1>5, ClearedExact
  <1>7. /\ SameOn(c, a, a.active) /\ SameSlots(c, a, child, {})
        /\ c.active = a.active /\ c.used = a.used
    BY <1>2, <1>5, ClearedAround
  <1>8. \A q \in Procs : q # child => Taken(c, q) = Taken(a, q)
    BY <1>7 DEF SameSlots, Taken
  <1>9. \A q \in Procs : q # child => Space(c, q) = Space(a, q)
    <2>1. Around(c, a, a.active, child, {})
      BY <1>7 DEF Around
    <2>2. \A q \in Procs : \A j \in Taken(a, q) : a.preg[q][j].reg \in a.active
      BY <1>5 DEF Exact, AttachExact, Taken
    <2> QED BY <1>8, <2>1, <2>2, SpaceSame
  <1>10. Packed(c, p)
    BY <1>2, <1>5, <1>8 DEF AllPacked, Packed
  <1>11. s \in ForkingFrom(c, p, child, MAX_REG_PER_PROC)
    BY <1>2, <1>3, <1>6, <1>10, ForkRegionsBeside
  <1>12. /\ Exact(s.m) /\ s.ok \in BOOLEAN /\ Beside(s.m, c, child)
         /\ s.m.active = c.active \union Owned(s.m, child)
         /\ s.ok => /\ Taken(s.m, child) = {j \in Taken(c, p) : j <= MAX_REG_PER_PROC}
                    /\ \A j \in Taken(s.m, child) : Twin(s.m, c, p, child, j)
    BY <1>11 DEF ForkingFrom, Forking, ForkState
  <1>13. {j \in Taken(c, p) : j <= MAX_REG_PER_PROC} = Taken(c, p)
    BY RegionAssumption DEF Taken, Slots
  <1>14. Packed(a, p)
    BY <1>2, <1>5 DEF AllPacked
  <1>15. Beside(b, c, child) => \A q \in Procs : q # child => Space(b, q) = Space(a, q)
    BY <1>2, <1>6, <1>9, BesideSpace
  <1>16. Beside(b, c, child) => \A q \in Procs : q # child => Taken(b, q) = Taken(a, q)
    BY <1>2, <1>8, BesideOthers
  <1>17. CASE s.ok
    <2>1. b = s.m /\ Beside(b, c, child) /\ Taken(b, child) = Taken(c, p)
      BY <1>4, <1>12, <1>13, <1>17
    <2>2. Space(b, child) = Space(c, p) /\ Space(c, p) = Space(a, p)
      BY <1>2, <1>9, <1>12, <1>17, <2>1, TwinsSpace
    <2>3. Taken(b, child) = Taken(a, p)
      BY <1>2, <1>8, <2>1
    <2>4. Layout(b, child) = Layout(a, p)
      BY <2>2, <2>3, LayoutSame
    <2>5. AllPacked(b)
      BY <1>5, <1>14, <1>16, <2>1, <2>3 DEF AllPacked, Packed
    <2>6. Forked(b, a, p, child, s.ok)
      BY <1>15, <1>17, <2>1, <2>4 DEF Forked
    <2> QED BY <1>2, <1>3, <1>4, <1>12, <2>5, <2>6
  <1>18. CASE ~s.ok
    <2>1. /\ Beside(b, c, child) /\ Exact(b) /\ Taken(b, child) = {} /\ b.active = c.active
      <3>1. b = ForkUndo(s.m, child)
        BY <1>4, <1>18
      <3> QED BY <1>2, <1>6, <1>12, <3>1, ForkUndoBeside
    <2>2. b.used = c.used
      <3>1. SameOn(b, c, c.active)
        BY <2>1 DEF Beside, Around
      <3> QED BY <1>6, <2>1, <3>1, UsedSame
    <2>3. Packed(b, child)
      <3>1. Taken(b, child) = 1 .. 0 /\ 0 \in 0 .. MAX_REG_PER_PROC
        BY <2>1, RegionAssumption
      <3> QED BY <3>1 DEF Packed
    <2>4. AllPacked(b)
      BY <1>5, <1>16, <2>1, <2>3 DEF AllPacked, Packed
    <2>5. Forked(b, a, p, child, s.ok)
      BY <1>7, <1>15, <1>18, <2>1, <2>2 DEF Forked
    <2> QED BY <1>2, <1>3, <1>4, <1>12, <2>4, <2>5
  <1> QED BY <1>17, <1>18

(* A call on the slots of its process p: the others map what they did, and *)
(* so does p if the call fails.                                            *)
Called(b, a, p, ok) ==
    \A q \in Procs : q # p \/ ~ok => Space(b, q) = Space(a, q)

(* brk works on one slot.                                                  *)
LEMMA OneSlotSpace ==
    ASSUME NEW a, Exact(a), AllPacked(a), NEW p \in Procs, NEW i \in Slots,
           NEW r, r = a.preg[p][i].reg, r # 0, NEW b, OneSlot(b, a, p, i, r)
    PROVE  AllPacked(b) /\ \A q \in Procs : q # p => Space(b, q) = Space(a, q)
  <1>1. \A q \in Procs : Taken(b, q) = Taken(a, q)
    BY OneSlotTaken
  <1>2. AllPacked(b)
    BY <1>1 DEF AllPacked, Packed
  <1>3. \A q \in Procs : \A j \in Taken(a, q) : q # p => a.preg[q][j].reg \in a.active \ {r}
    BY DEF Exact, AttachExact, Taken
  <1>4. \A q \in Procs : \A j \in Taken(a, q) : q # p => (q # p \/ j \in Slots \ {i})
    OBVIOUS
  <1>5. Around(b, a, a.active \ {r}, p, Slots \ {i})
    BY DEF OneSlot
  <1> QED BY <1>1, <1>2, <1>3, <1>4, <1>5, SpaceSame

(* brk resizes one slot of its caller.                                     *)
LEMMA BrkBeside ==
    ASSUME Exact(mem), AllPacked(mem), NEW p \in Procs, NEW n \in 0 .. MAX_PAGES + 1, Brk(p, n)
    PROVE  \E a, b : /\ a = mem /\ b = mem' /\ AllPacked(b) /\ Called(b, a, p, TRUE)
                     /\ last' = [op |-> "brk", p |-> p, child |-> 0, ok |-> TRUE]
  <1> DEFINE data == {i \in Taken(mem, p) : mem.preg[p][i].type = "data"}
  <1>1. PICK i, a, b, r : /\ i = Least(data) /\ a = mem /\ b = mem' /\ r = mem.preg[p][i].reg
    OBVIOUS
  <1>2. /\ data # {} /\ b = Growreg(a, p, i, n)
        /\ last' = [op |-> "brk", p |-> p, child |-> 0, ok |-> TRUE]
    BY <1>1 DEF Brk, Made
  <1>3. i \in Slots /\ r # 0
    <2>1. data \in SUBSET Nat
      BY DEF Taken, Slots
    <2> HIDE DEF data
    <2>2. i \in data
      BY <1>1, <1>2, <2>1, LeastIn
    <2> QED BY <1>1, <2>2 DEF data, Taken
  <1> HIDE DEF data
  <1>4. n \in Int
    BY RegionAssumption
  <1>5. Exact(a) /\ AllPacked(a) /\ r = a.preg[p][i].reg
    BY <1>1
  <1>6. OneSlot(b, a, p, i, r)
    BY <1>2, <1>3, <1>4, <1>5, GrowregAround
  <1>7. AllPacked(b) /\ \A q \in Procs : q # p => Space(b, q) = Space(a, q)
    BY <1>3, <1>5, <1>6, OneSlotSpace
  <1> QED BY <1>1, <1>2, <1>7 DEF Called

(* mmap attaches one region, or gives it back.                             *)
LEMMA MmapBeside ==
    ASSUME Exact(mem), AllPacked(mem), NEW p \in Procs, NEW map \in Maps, Mmap(p, map)
    PROVE  \E a, b : \E ok \in BOOLEAN :
               /\ a = mem /\ b = mem' /\ AllPacked(b) /\ Called(b, a, p, ok)
               /\ last' = [op |-> "mmap", p |-> p, child |-> 0, ok |-> ok]
  <1>1. PICK a, b, c, r : a = mem /\ b = mem' /\ c = Allocreg(mem) /\ r = Head(mem.free)
    OBVIOUS
  <1>2. PICK i : i = Least(Slots \ Taken(c, p))
    OBVIOUS
  <1>3. PICK d : d = Attachreg(c, p, r, map.type)
    OBVIOUS
  <1>4. PICK ok : ok = ~(Taken(mem, p) = Slots)
    OBVIOUS
  <1>5. /\ a.free # <<>> /\ c = Allocreg(a) /\ r = Head(a.free)
        /\ b = IF ~ok THEN Freereg(c, r)
               ELSE IF map.load THEN Loadreg(d, p, i, map.pages, map.good)
               ELSE d
        /\ last' = [op |-> "mmap", p |-> p, child |-> 0, ok |-> ok]
        /\ ok \in BOOLEAN /\ ok = ~(Taken(a, p) = Slots)
    BY <1>1, <1>2, <1>3, <1>4 DEF Mmap, Made
  <1>6. map.type \in Types /\ map.pages \in Nat /\ map.good \in Nat
    BY RegionAssumption DEF Mappings, Types
  <1>7. Exact(a) /\ AllPacked(a) /\ Packed(a, p)
    BY <1>1 DEF AllPacked
  <1>8. /\ Exact(c) /\ Fresh(c, r) /\ r \in Regs /\ r # 0 /\ c.preg = a.preg
        /\ r \notin a.active /\ c.active = a.active \union {r}
    <2>1. Exact(c) /\ Fresh(c, r) /\ r \in Regs /\ c.preg = a.preg
          /\ r \notin a.active /\ c.active = a.active \union {r}
      BY <1>5, <1>7, AllocregExact
    <2> QED BY <2>1 DEF Regs
  <1>9. Taken(c, p) = Taken(a, p)
    BY <1>8 DEF Taken
  <1>10. Beside(c, a, p)
    BY <1>5, <1>7, BesideSelf, AllocBeside
  <1>11. CASE ~ok
    <2>1. PoolExact(c) /\ r \in c.active /\ c.region[r].ref = 0
      BY <1>8 DEF Exact, Fresh
    <2>2. SameOn(b, c, c.active \ {r}) /\ b.preg = c.preg
      <3>1. b = Freereg(c, r)
        BY <1>5, <1>11
      <3> QED BY <2>1, <3>1, FreeregAround
    <2>3. Beside(b, a, p)
      BY <1>8, <1>10, <2>2, BesideQuiet
    <2>4. Taken(b, p) = Taken(a, p)
      BY <1>9, <2>2 DEF Taken
    <2>5. Packed(b, p)
      BY <1>7, <2>4 DEF Packed
    <2>6. AllPacked(b)
      BY <1>7, <2>3, <2>5, BesidePacked
    <2>7. \A q \in Procs : Space(b, q) = Space(a, q)
      BY <1>7, <2>3, <2>4, BesideSpace
    <2> QED BY <1>1, <1>5, <2>6, <2>7 DEF Called
  <1>12. CASE ok
    <2>0. Taken(a, p) # Slots /\ Taken(c, p) # Slots
      BY <1>5, <1>9, <1>12
    <2>1. /\ Exact(d) /\ Beside(d, a, p) /\ i \in Slots /\ i \notin Taken(c, p)
          /\ d.preg[p][i].reg = r /\ Taken(d, p) = Taken(c, p) \union {i}
      BY <1>2, <1>3, <1>6, <1>7, <1>8, <1>10, <2>0, AttachBeside
    <2>2. Packed(d, p)
      <3>1. Packed(c, p) /\ Taken(c, p) # Slots
        BY <1>7, <1>9, <2>0 DEF Packed
      <3> QED BY <1>2, <2>1, <3>1, PackedMore
    <2>3. OneSlot(b, d, p, i, r)
      <3>1. CASE map.load
        <4>1. b = Loadreg(d, p, i, map.pages, map.good)
          BY <1>5, <1>12, <3>1
        <4> QED BY <1>6, <1>8, <2>1, <4>1, LoadregAround
      <3>2. CASE ~map.load
        <4>1. b = d
          BY <1>5, <1>12, <3>2
        <4> QED BY <2>1, <4>1, OneSlotSelf
      <3> QED BY <3>1, <3>2
    <2>4. Beside(b, a, p) /\ Taken(b, p) = Taken(d, p)
      <3>1. i \notin Taken(a, p) /\ r = d.preg[p][i].reg /\ r \notin a.active
        BY <1>8, <1>9, <2>1
      <3> QED BY <2>1, <2>3, <3>1, SlotBeside
    <2>5. Packed(b, p)
      BY <2>2, <2>4 DEF Packed
    <2>6. AllPacked(b)
      BY <1>7, <2>4, <2>5, BesidePacked
    <2>7. \A q \in Procs : q # p => Space(b, q) = Space(a, q)
      BY <1>7, <2>4, BesideSpace
    <2> QED BY <1>1, <1>5, <1>12, <2>6, <2>7 DEF Called
  <1> QED BY <1>5, <1>11, <1>12

----------------------------------------------------------------------------
(* What the action properties rest on: the lists, tables and rings are     *)
(* exact, and attachreg has left no slot out.                              *)
SpacesInv == IInv /\ AllPacked(mem)

(* At the start nobody has taken a slot.                                   *)
LEMMA InitPacked ==
    Init => SpacesInv
  <1> SUFFICES ASSUME Init PROVE SpacesInv
    OBVIOUS
  <1>1. mem.preg = [p \in Procs |-> Blank]
    BY DEF Init
  <1>2. \A p \in Procs : Taken(mem, p) = {}
    BY <1>1 DEF Taken, Blank, Empty
  <1>3. 0 \in 0 .. MAX_REG_PER_PROC /\ 1 .. 0 = {}
    BY RegionAssumption
  <1>4. \A p \in Procs : Taken(mem, p) = 1 .. 0
    BY <1>2, <1>3
  <1> QED BY <1>3, <1>4, InitExact DEF SpacesInv, AllPacked, Packed

(* A call by p, fork or not, on the memory before and after it.            *)
CallOf(b, a, p, op, child, ok) ==
    IF op = "fork"
    THEN child \in Procs /\ child # p /\ Forked(b, a, p, child, ok)
    ELSE Called(b, a, p, ok)

(* Each action is such a call.                                             *)
LEMMA CallIs ==
    ASSUME SpacesInv, Next
    PROVE  \E a, b, op, child, ok : \E p \in Procs :
               /\ a = mem /\ b = mem' /\ AllPacked(b)
               /\ last' = [op |-> op, p |-> p, child |-> child, ok |-> ok]
               /\ CallOf(b, a, p, op, child, ok)
  <1>1. PICK p \in Live :
            \/ \E image \in Images : Exec(p, image)
            \/ Fork(p)
            \/ Exit(p)
            \/ Wait(p)
            \/ \E n \in 0 .. MAX_PAGES + 1 : Brk(p, n)
            \/ \E map \in Maps : Mmap(p, map)
    BY DEF Next
  <1>2. p \in Procs /\ Exact(mem) /\ AllPacked(mem)
    BY DEF Live, SpacesInv, IInv
  <1>3. CASE \E image \in Images : Exec(p, image)
    <2>1. PICK image \in Images : Exec(p, image)
      BY <1>3
    <2>2. PICK a, b, ok : a = mem /\ b = mem' /\ ok = last'.ok
      OBVIOUS
    <2>3. last' = [op |-> "exec", p |-> p, child |-> 0, ok |-> ok]
      BY <2>1, <2>2 DEF Exec, Made
    <2>4. Beside(b, a, p) /\ Packed(b, p) /\ (~ok => Taken(b, p) = Taken(a, p))
      <3>1. Beside(mem', mem, p) /\ Packed(mem, p)' /\ (~last'.ok => Taken(mem', p) = Taken(mem, p))
        BY <1>2, <2>1, ExecBeside
      <3>2. Packed(mem', p)
        BY <3>1 DEF Packed
      <3> QED BY <2>2, <3>1, <3>2
    <2>5. Exact(a) /\ AllPacked(a)
      BY <1>2, <2>2
    <2>6. AllPacked(b)
      BY <1>2, <2>4, <2>5, BesidePacked
    <2>7. Called(b, a, p, ok)
      BY <1>2, <2>4, <2>5, BesideSpace DEF Called
    <2> QED BY <1>2, <2>2, <2>3, <2>6, <2>7 DEF CallOf
  <1>4. CASE Fork(p)
    <2>1. PICK a, b : \E child \in Procs, ok \in BOOLEAN :
              /\ a = mem /\ b = mem' /\ child # p
              /\ last' = [op |-> "fork", p |-> p, child |-> child, ok |-> ok]
              /\ Forked(b, a, p, child, ok) /\ AllPacked(b)
      BY <1>2, <1>4, ForkBeside
    <2> QED BY <1>2, <2>1 DEF CallOf
  <1>5. CASE Exit(p) \/ Wait(p)
    <2>1. PICK a, b : a = mem /\ b = mem'
      OBVIOUS
    <2>2. \E op, child : op # "fork" /\ last' = [op |-> op, p |-> p, child |-> child, ok |-> TRUE]
      BY <1>5 DEF Exit, Wait, Made
    <2>3. b = a /\ AllPacked(b)
      BY <1>2, <1>5, <2>1 DEF Exit, Wait
    <2>4. Called(b, a, p, TRUE)
      BY <2>3 DEF Called
    <2> QED BY <1>2, <2>1, <2>2, <2>3, <2>4 DEF CallOf
  <1>6. CASE \E n \in 0 .. MAX_PAGES + 1 : Brk(p, n)
    <2>1. PICK a, b : /\ a = mem /\ b = mem' /\ AllPacked(b) /\ Called(b, a, p, TRUE)
                      /\ last' = [op |-> "brk", p |-> p, child |-> 0, ok |-> TRUE]
      BY <1>2, <1>6, BrkBeside
    <2> QED BY <1>2, <2>1 DEF CallOf
  <1>7. CASE \E map \in Maps : Mmap(p, map)
    <2>1. PICK a, b : \E ok \in BOOLEAN :
              /\ a = mem /\ b = mem' /\ AllPacked(b) /\ Called(b, a, p, ok)
              /\ last' = [op |-> "mmap", p |-> p, child |-> 0, ok |-> ok]
      BY <1>2, <1>7, MmapBeside
    <2> QED BY <1>2, <2>1 DEF CallOf
  <1> QED BY <1>1, <1>3, <1>4, <1>5, <1>6, <1>7

(* The invariant behind the action properties is inductive.                *)
LEMMA SpacesStep ==
    SpacesInv /\ [Next]_vars => SpacesInv'
  <1> SUFFICES ASSUME SpacesInv, [Next]_vars PROVE SpacesInv'
    OBVIOUS
  <1>1. IInv'
    BY StepKeeps DEF SpacesInv
  <1>2. CASE UNCHANGED vars
    <2>1. mem' = mem
      BY <1>2 DEF vars
    <2>2. AllPacked(mem)'
      BY <2>1 DEF SpacesInv, AllPacked, Packed, Taken
    <2> QED BY <1>1, <2>2 DEF SpacesInv
  <1>3. CASE Next
    <2>1. PICK b : b = mem' /\ AllPacked(b)
      BY <1>3, CallIs
    <2>2. AllPacked(mem)'
      BY <2>1 DEF AllPacked, Packed, Taken
    <2> QED BY <1>1, <2>2 DEF SpacesInv
  <1> QED BY <1>2, <1>3

(* No slot is left out between two that are taken, in any process.         *)
THEOREM SlotsPacked ==
    Spec => []AllPacked(mem)
  <1>1. Init => SpacesInv
    BY InitPacked
  <1>2. SpacesInv /\ [Next]_vars => SpacesInv'
    BY SpacesStep
  <1>3. SpacesInv => AllPacked(mem)
    BY DEF SpacesInv
  <1> QED BY <1>1, <1>2, <1>3, PTL DEF Spec

(* A call changes what no other live process maps, the child of a fork     *)
(* aside.                                                                  *)
THEOREM SpacesIsolated ==
    Spec => Isolated
  <1>1. Init => SpacesInv
    BY InitPacked
  <1>2. SpacesInv /\ [Next]_vars => SpacesInv'
    BY SpacesStep
  <1>3. SpacesInv /\ [Next]_vars =>
            [\A p \in Procs : (pstate[p] = "live" /\ p \notin {last'.p, last'.child})
                 => Space(mem', p) = Space(mem, p)]_vars
    <2> SUFFICES ASSUME SpacesInv, Next
                 PROVE  \A p \in Procs : (pstate[p] = "live" /\ p \notin {last'.p, last'.child})
                            => Space(mem', p) = Space(mem, p)
      OBVIOUS
    <2>1. PICK a, b, op, child, ok : \E p \in Procs :
              /\ a = mem /\ b = mem' /\ AllPacked(b)
              /\ last' = [op |-> op, p |-> p, child |-> child, ok |-> ok]
              /\ CallOf(b, a, p, op, child, ok)
      BY CallIs
    <2>2. \A q \in Procs : q \notin {last'.p, last'.child} => Space(b, q) = Space(a, q)
      BY <2>1 DEF CallOf, Forked, Called
    <2> QED BY <2>1, <2>2
  <1> QED BY <1>1, <1>2, <1>3, PTL DEF Spec, Isolated

(* A call that fails leaves its caller mapping what it did, and a fork that*)
(* fails leaves no region, page table or slot behind.                      *)
THEOREM FailuresUndone ==
    Spec => FailureUndone
  <1>1. Init => SpacesInv
    BY InitPacked
  <1>2. SpacesInv /\ [Next]_vars => SpacesInv'
    BY SpacesStep
  <1>3. SpacesInv /\ [Next]_vars =>
            [calls' # calls /\ ~last'.ok =>
                 /\ Space(mem', last'.p) = Space(mem, last'.p)
                 /\ last'.op = "fork" =>
                        /\ mem'.active = mem.active /\ mem'.used = mem.used
                        /\ Taken(mem', last'.child) = {}]_vars
    <2> SUFFICES ASSUME SpacesInv, Next, ~last'.ok
                 PROVE  /\ Space(mem', last'.p) = Space(mem, last'.p)
                        /\ last'.op = "fork" =>
                               /\ mem'.active = mem.active /\ mem'.used = mem.used
                               /\ Taken(mem', last'.child) = {}
      OBVIOUS
    <2>1. PICK a, b, op, child, ok : \E p \in Procs :
              /\ a = mem /\ b = mem' /\ AllPacked(b)
              /\ last' = [op |-> op, p |-> p, child |-> child, ok |-> ok]
              /\ CallOf(b, a, p, op, child, ok)
      BY CallIs
    <2>2. PICK p \in Procs : /\ last' = [op |-> op, p |-> p, child |-> child, ok |-> ok]
                             /\ CallOf(b, a, p, op, child, ok)
      BY <2>1
    <2>3. last'.p = p /\ last'.op = op /\ last'.child = child /\ ~ok
      BY <2>2
    <2>4. /\ Space(b, p) = Space(a, p)
          /\ op = "fork" => b.active = a.active /\ b.used = a.used /\ Taken(b, child) = {}
      BY <2>2, <2>3 DEF CallOf, Forked, Called
    <2> QED BY <2>1, <2>3, <2>4
  <1> QED BY <1>1, <1>2, <1>3, PTL DEF Spec, FailureUndone

(* After a fork the child maps the segments of its parent, in their order  *)
(* and over the same frames, and the parent what it did.                   *)
THEOREM ForksCopy ==
    Spec => ForkCopies
  <1>1. Init => SpacesInv
    BY InitPacked
  <1>2. SpacesInv /\ [Next]_vars => SpacesInv'
    BY SpacesStep
  <1>3. SpacesInv /\ [Next]_vars =>
            [last'.op = "fork" /\ last'.ok /\ calls' # calls =>
                 /\ Layout(mem', last'.child) = Layout(mem, last'.p)
                 /\ Space(mem', last'.p) = Space(mem, last'.p)]_vars
    <2> SUFFICES ASSUME SpacesInv, Next, last'.op = "fork", last'.ok
                 PROVE  /\ Layout(mem', last'.child) = Layout(mem, last'.p)
                        /\ Space(mem', last'.p) = Space(mem, last'.p)
      OBVIOUS
    <2>1. PICK a, b, op, child, ok : \E p \in Procs :
              /\ a = mem /\ b = mem' /\ AllPacked(b)
              /\ last' = [op |-> op, p |-> p, child |-> child, ok |-> ok]
              /\ CallOf(b, a, p, op, child, ok)
      BY CallIs
    <2>2. PICK p \in Procs : /\ last' = [op |-> op, p |-> p, child |-> child, ok |-> ok]
                             /\ CallOf(b, a, p, op, child, ok)
      BY <2>1
    <2>3. last'.p = p /\ last'.child = child /\ op = "fork" /\ ok
      BY <2>2
    <2>4. Layout(b, child) = Layout(a, p) /\ Space(b, p) = Space(a, p)
      BY <2>2, <2>3 DEF CallOf, Forked
    <2> QED BY <2>1, <2>3, <2>4
  <1> QED BY <1>1, <1>2, <1>3, PTL DEF Spec, ForkCopies
=============================================================================
