-------------------------- MODULE FileCalls_proofs --------------------------
(***************************************************************************)
(* Proofs about FileCalls, for every set of paths, absolute or relative,   *)
(* every image and every size of the cache and the tables: the type        *)
(* invariant, that no call returns with an inode locked, and that the file *)
(* table counts its descriptors.                                           *)
(*                                                                         *)
(* The invariant is TypeInv. Its part about the layer is Good(c, U, L): the*)
(* state c is one of the layer, the slots in U hold an inode, and no slot  *)
(* outside L is locked. Each routine of InodeCache is shown to take U and L*)
(* to what it returns: iget adds the slot it returns to both (Got), iput   *)
(* takes it out. A call then is a chain of such steps that starts with     *)
(* L = {} and, on every path, ends with it.                                *)
(***************************************************************************)
EXTENDS FileCalls, ListLemmas

Slot  == [ino : {0} \union Inodes, ref : Nat, locked : BOOLEAN, mode : Modes, nlink : Nat]
Info  == [mode : Modes, nlink : Nat]
Slotted == [Slots -> Slot]
Disks == [Inodes -> Info]
Trees == [Inodes -> [Names -> {0} \union Inodes]]
Spins == {"no", "iget", "ialloc"}
Layer == [slot : Slotted, list : Seq(Slots), disk : Disks, dirs : Trees,
          win : Seq(Inodes), seen : Inodes, ip : Slots \union {Null}, spin : Spins]

(* A state of the layer from its fields. *)
Rec(slot, list, disk, dirs, win, seen, ip, spin) ==
    [slot |-> slot, list |-> list, disk |-> disk, dirs |-> dirs, win |-> win,
     seen |-> seen, ip |-> ip, spin |-> spin]

Good(c, U, L) ==
    /\ c \in Layer
    /\ Len(c.win) <= SB_FREE_INODE_MAX
    /\ \A s \in U : c.slot[s].ino # 0
    /\ c.spin = "no" => \A s \in Slots \ L : ~c.slot[s].locked

(* The slots and the window as Good wants them. *)
Sound(slot, win, spin, U, L) ==
    /\ Len(win) <= SB_FREE_INODE_MAX
    /\ \A s \in U : slot[s].ino # 0
    /\ spin = "no" => \A s \in Slots \ L : ~slot[s].locked

(* A state put together from good fields is good.                          *)
LEMMA RecGood ==
    ASSUME NEW slot \in Slotted, NEW list \in Seq(Slots), NEW disk \in Disks, NEW dirs \in Trees,
           NEW win \in Seq(Inodes), NEW seen \in Inodes, NEW ip \in Slots \union {Null},
           NEW spin \in Spins, NEW U, NEW L, Sound(slot, win, spin, U, L)
    PROVE  Good(Rec(slot, list, disk, dirs, win, seen, ip, spin), U, L)
BY DEF Good, Sound, Rec, Layer

Typed(c) ==
    /\ c.slot \in Slotted /\ c.list \in Seq(Slots) /\ c.disk \in Disks /\ c.dirs \in Trees
    /\ c.win \in Seq(Inodes) /\ c.seen \in Inodes /\ c.ip \in Slots \union {Null}
    /\ c.spin \in Spins

(* The fields of a good state.                                             *)
LEMMA GoodFields ==
    ASSUME NEW U, NEW L, NEW c, Good(c, U, L)
    PROVE  c \in Layer /\ Typed(c) /\ Sound(c.slot, c.win, c.spin, U, L)
BY DEF Good, Sound, Rec, Layer, Typed

(* The end of iput: the slot is unlocked.                                  *)
LEMMA LetGoGood ==
    ASSUME NEW U \in SUBSET Slots, NEW L, NEW c, Good(c, U, L), NEW s \in U, NEW left \in Nat
    PROVE  Good(LetGo(c, s, left), U, L \ {s})
<1> DEFINE f == [c.slot EXCEPT ![s].ref = left, ![s].locked = FALSE]
           q == IF left = 0 /\ s \notin ToSet(c.list) THEN Append(c.list, s) ELSE c.list
<1>1. c \in Layer /\ Typed(c) /\ Sound(c.slot, c.win, c.spin, U, L)
  BY GoodFields
<1>2. q \in Seq(Slots)
  BY <1>1, AppendProperties DEF Typed
<1>3. f \in Slotted
  BY <1>1 DEF Slotted, Slot, Typed
<1>4. Sound(f, c.win, c.spin, U, L \ {s})
  BY <1>1 DEF Sound, Slotted, Slot, Typed
<1>5. LetGo(c, s, left) = Rec(f, q, c.disk, c.dirs, c.win, c.seen, c.ip, c.spin)
  <2> HIDE DEF f, q
  <2>1. LetGo(c, s, left) = [c EXCEPT !.slot = f, !.list = q]
    BY <1>1 DEF LetGo, Layer, Slotted, Slot, f, q
  <2> QED
    BY <2>1, <1>1 DEF Rec, Layer
<1> HIDE DEF f, q
<1>6. Good(Rec(f, q, c.disk, c.dirs, c.win, c.seen, c.ip, c.spin), U, L \ {s})
  <2>1. /\ c.disk \in Disks /\ c.dirs \in Trees
        /\ c.win \in Seq(Inodes) /\ c.seen \in Inodes /\ c.ip \in Slots \union {Null}
        /\ c.spin \in Spins
    BY <1>1 DEF Typed
  <2> QED
    BY <1>2, <1>3, <1>4, <2>1, RecGood
<1> QED
  BY <1>5, <1>6

(* ifree keeps the window within its size.                                 *)
LEMMA IfreeGood ==
    ASSUME NEW U \in SUBSET Slots, NEW L, NEW c, Good(c, U, L), NEW i \in Inodes
    PROVE  Good(Ifree(c, i), U, L)
<1>1. c \in Layer /\ Typed(c) /\ Sound(c.slot, c.win, c.spin, U, L)
  BY GoodFields
<1>2. /\ c.slot \in Slotted /\ c.list \in Seq(Slots) /\ c.disk \in Disks /\ c.dirs \in Trees
      /\ c.win \in Seq(Inodes) /\ c.seen \in Inodes /\ c.ip \in Slots \union {Null}
      /\ c.spin \in Spins
  BY <1>1 DEF Typed
<1>3. SB_FREE_INODE_MAX \in Nat
  BY CacheAssumption
<1>4. CASE Len(c.win) >= SB_FREE_INODE_MAX
  <2> DEFINE m == Min({c.seen, i})
  <2>1. m \in Inodes
    <3>1. c.seen \in Nat /\ i \in Nat
      BY <1>2, CacheAssumption DEF Inodes
    <3>2. \E x \in {c.seen, i} : \A y \in {c.seen, i} : x <= y
      BY <3>1
    <3>3. m \in {c.seen, i}
      BY <3>2 DEF Min
    <3> QED
      BY <1>2, <3>3
  <2> HIDE DEF m
  <2>2. Ifree(c, i) = Rec(c.slot, c.list, c.disk, c.dirs, c.win, m, c.ip, c.spin)
    BY <1>1, <1>4 DEF Ifree, Rec, Layer, m
  <2> QED
    BY <1>1, <1>2, <2>1, <2>2, RecGood
<1>5. CASE ~(Len(c.win) >= SB_FREE_INODE_MAX)
  <2> DEFINE w == Append(c.win, i)
  <2>1. w \in Seq(Inodes) /\ Len(w) <= SB_FREE_INODE_MAX
    BY <1>2, <1>3, <1>5, AppendProperties
  <2>2. Sound(c.slot, w, c.spin, U, L)
    BY <1>1, <2>1 DEF Sound
  <2> HIDE DEF w
  <2>3. Ifree(c, i) = Rec(c.slot, c.list, c.disk, c.dirs, w, c.seen, c.ip, c.spin)
    BY <1>1, <1>5 DEF Ifree, Rec, Layer, w
  <2> QED
    BY <1>1, <1>2, <2>1, <2>2, <2>3, RecGood
<1> QED
  BY <1>4, <1>5

(* Changes of one field. *)
LEMMA SlotGood ==
    ASSUME NEW U, NEW L, NEW c, Good(c, U, L), NEW f \in Slotted,
           NEW U2, NEW L2, Sound(f, c.win, c.spin, U2, L2)
    PROVE  Good([c EXCEPT !.slot = f], U2, L2)
BY DEF Good, Sound, Layer

(* The directories change.                                                 *)
LEMMA DirsGood ==
    ASSUME NEW U, NEW L, NEW c, Good(c, U, L), NEW t \in Trees
    PROVE  Good([c EXCEPT !.dirs = t], U, L)
BY DEF Good, Layer

(* The inodes on the disk change.                                          *)
LEMMA DiskGood ==
    ASSUME NEW U, NEW L, NEW c, Good(c, U, L), NEW t \in Disks
    PROVE  Good([c EXCEPT !.disk = t], U, L)
BY DEF Good, Layer

(* The slot returned changes.                                              *)
LEMMA IpGood ==
    ASSUME NEW U, NEW L, NEW c, Good(c, U, L), NEW p \in Slots \union {Null}
    PROVE  Good([c EXCEPT !.ip = p], U, L)
BY DEF Good, Layer

(* The window of free numbers changes.                                     *)
LEMMA WinGood ==
    ASSUME NEW U, NEW L, NEW c, Good(c, U, L), NEW w \in Seq(Inodes), Len(w) <= SB_FREE_INODE_MAX
    PROVE  Good([c EXCEPT !.win = w], U, L)
BY DEF Good, Layer

(* Each slot names an inode or none. *)
LEMMA InoType ==
    ASSUME NEW U \in SUBSET Slots, NEW L, NEW c, Good(c, U, L), NEW s \in U
    PROVE  Ino(c, s) \in Inodes
<1>1. c.slot[s] \in Slot /\ c.slot[s].ino # 0
  BY DEF Good, Layer, Slotted
<1> QED
  BY <1>1 DEF Ino, Slot

(* iput unlocks the slot, whatever becomes of the inode.                   *)
LEMMA IputGood ==
    ASSUME NEW U \in SUBSET Slots, NEW L, NEW c, Good(c, U, L), NEW s \in U
    PROVE  Good(Iput(c, s), U, L \ {s})
<1> DEFINE left == IF c.slot[s].ref > 0 THEN c.slot[s].ref - 1 ELSE 0
           dead == [c EXCEPT !.slot[s].mode = "free", !.dirs[Ino(c, s)] = NoNames]
           freed == IF IsDead(c, s, left) THEN Ifree(dead, Ino(c, s)) ELSE c
<1>1. c \in Layer /\ Typed(c) /\ Sound(c.slot, c.win, c.spin, U, L)
  BY GoodFields
<1>2. Ino(c, s) \in Inodes
  BY InoType
<1>3. left \in Nat
  BY <1>1 DEF Typed, Slotted, Slot
<1>4. Good(dead, U, L)
  <2> DEFINE f == [c.slot EXCEPT ![s].mode = "free"]
             t == [c.dirs EXCEPT ![Ino(c, s)] = NoNames]
  <2>1. f \in Slotted
    BY <1>1 DEF Typed, Slotted, Slot, Modes
  <2>2. Sound(f, c.win, c.spin, U, L)
    BY <1>1 DEF Sound, Slotted, Slot, Typed
  <2>3. t \in Trees
    BY <1>1, <1>2 DEF Typed, Trees, NoNames
  <2>4. dead = [[c EXCEPT !.slot = f] EXCEPT !.dirs = t]
    BY <1>1 DEF Layer, Slotted, Slot
  <2> HIDE DEF f, t, dead
  <2>5. Good([c EXCEPT !.slot = f], U, L)
    BY <2>1, <2>2, SlotGood
  <2> QED
    BY <2>3, <2>4, <2>5, DirsGood
<1>5. Good(freed, U, L)
  <2> HIDE DEF dead, left
  <2> QED
    BY <1>2, <1>4, IfreeGood
<1>6. Iput(c, s) = IF c.spin # "no" THEN c ELSE LetGo(freed, s, left)
  BY DEF Iput
<1> HIDE DEF freed, left
<1>7. CASE c.spin = "no"
  BY <1>3, <1>5, <1>6, <1>7, LetGoGood
<1>8. CASE c.spin # "no"
  BY <1>6, <1>8 DEF Good
<1> QED
  BY <1>7, <1>8

(* iupdate writes the inode to the disk.                                   *)
LEMMA IupdateGood ==
    ASSUME NEW U \in SUBSET Slots, NEW L, NEW c, Good(c, U, L), NEW s \in U
    PROVE  Good(Iupdate(c, s), U, L)
<1> DEFINE t == [c.disk EXCEPT ![Ino(c, s)] = [mode |-> c.slot[s].mode, nlink |-> c.slot[s].nlink]]
<1>1. c \in Layer /\ Typed(c)
  BY GoodFields
<1>2. Ino(c, s) \in Inodes
  BY InoType
<1>3. t \in Disks
  BY <1>1, <1>2 DEF Typed, Disks, Info, Slotted, Slot
<1>4. Iupdate(c, s) = IF c.spin # "no" THEN c ELSE [c EXCEPT !.disk = t]
  BY <1>1 DEF Iupdate, Layer
<1> HIDE DEF t
<1> QED
  BY <1>3, <1>4, DiskGood

(* dir_add enters a name.                                                  *)
LEMMA AddEntryGood ==
    ASSUME NEW U \in SUBSET Slots, NEW L, NEW c, Good(c, U, L), NEW s \in U,
           NEW n, NEW i \in {0} \union Inodes
    PROVE  Good(AddEntry(c, s, n, i), U, L)
<1> DEFINE t == [c.dirs EXCEPT ![Ino(c, s)][n] = i]
<1>1. c \in Layer /\ Typed(c)
  BY GoodFields
<1>2. Ino(c, s) \in Inodes
  BY InoType
<1>3. t \in Trees
  BY <1>1, <1>2 DEF Typed, Trees
<1>4. AddEntry(c, s, n, i) = IF c.spin # "no" THEN c ELSE [c EXCEPT !.dirs = t]
  BY <1>1 DEF AddEntry, Layer
<1> HIDE DEF t
<1> QED
  BY <1>3, <1>4, DirsGood

(* dir_remove clears a name.                                               *)
LEMMA RemoveEntryGood ==
    ASSUME NEW U \in SUBSET Slots, NEW L, NEW c, Good(c, U, L), NEW s \in U, NEW n
    PROVE  Good(RemoveEntry(c, s, n), U, L)
BY AddEntryGood DEF RemoveEntry

(* Changes of one slot that leave its inode and its lock alone. *)
LEMMA CountGood ==
    ASSUME NEW U \in SUBSET Slots, NEW L, NEW c, Good(c, U, L), NEW s \in U,
           NEW k \in Nat
    PROVE  /\ Good([c EXCEPT !.slot[s].nlink = k], U, L)
           /\ Good([c EXCEPT !.slot[s].ref = k], U, L)
<1>1. c \in Layer /\ Typed(c) /\ Sound(c.slot, c.win, c.spin, U, L)
  BY GoodFields
<1>2. Good([c EXCEPT !.slot[s].nlink = k], U, L)
  <2> DEFINE f == [c.slot EXCEPT ![s].nlink = k]
  <2>1. f \in Slotted /\ Sound(f, c.win, c.spin, U, L)
    BY <1>1 DEF Typed, Slotted, Slot, Sound
  <2>2. [c EXCEPT !.slot[s].nlink = k] = [c EXCEPT !.slot = f]
    BY <1>1 DEF Layer
  <2> HIDE DEF f
  <2> QED
    BY <2>1, <2>2, SlotGood
<1>3. Good([c EXCEPT !.slot[s].ref = k], U, L)
  <2> DEFINE f == [c.slot EXCEPT ![s].ref = k]
  <2>1. f \in Slotted /\ Sound(f, c.win, c.spin, U, L)
    BY <1>1 DEF Typed, Slotted, Slot, Sound
  <2>2. [c EXCEPT !.slot[s].ref = k] = [c EXCEPT !.slot = f]
    BY <1>1 DEF Layer
  <2> HIDE DEF f
  <2> QED
    BY <2>1, <2>2, SlotGood
<1> QED
  BY <1>2, <1>3

(* A link count changes and is written to the disk; it never falls below   *)
(* 0.                                                                      *)
LEMMA RelinkGood ==
    ASSUME NEW U \in SUBSET Slots, NEW L, NEW c, Good(c, U, L), NEW s \in U, NEW d \in Int
    PROVE  Good(Relink(c, s, d), U, L)
<1> DEFINE k == IF c.slot[s].nlink + d < 0 THEN 0 ELSE c.slot[s].nlink + d
           e == [c EXCEPT !.slot[s].nlink = k]
<1>1. c \in Layer /\ Typed(c)
  BY GoodFields
<1>2. k \in Nat
  BY <1>1 DEF Typed, Slotted, Slot
<1>3. Relink(c, s, d) = IF c.spin # "no" THEN c ELSE Iupdate(e, s)
  BY <1>1 DEF Relink, Layer, Slotted, Slot
<1>4. Good(e, U, L)
  <2> HIDE DEF k
  <2> QED
    BY <1>2, CountGood
<1> HIDE DEF e
<1> QED
  BY <1>3, <1>4, IupdateGood

(* A slot is unlocked.                                                     *)
LEMMA UnlockGood ==
    ASSUME NEW U \in SUBSET Slots, NEW L, NEW c, Good(c, U, L), NEW s \in U
    PROVE  Good(Unlock(c, s), U, L \ {s})
<1> DEFINE f == [c.slot EXCEPT ![s].locked = FALSE]
<1>1. c \in Layer /\ Typed(c) /\ Sound(c.slot, c.win, c.spin, U, L)
  BY GoodFields
<1>2. f \in Slotted /\ Sound(f, c.win, c.spin, U, L \ {s})
  BY <1>1 DEF Typed, Slotted, Slot, Sound
<1>3. Unlock(c, s) = IF c.spin # "no" THEN c ELSE [c EXCEPT !.slot = f]
  BY <1>1 DEF Unlock, Layer
<1> HIDE DEF f
<1>4. CASE c.spin = "no"
  BY <1>2, <1>3, <1>4, SlotGood
<1>5. CASE c.spin # "no"
  BY <1>3, <1>5 DEF Good
<1> QED
  BY <1>4, <1>5

(* The file table takes a reference.                                       *)
LEMMA HoldGood ==
    ASSUME NEW U \in SUBSET Slots, NEW L, NEW c, Good(c, U, L), NEW s \in U
    PROVE  Good(Hold(c, s), U, L)
<1>1. c \in Layer /\ Typed(c)
  BY GoodFields
<1>2. c.slot[s].ref + 1 \in Nat
  BY <1>1 DEF Typed, Slotted, Slot
<1>3. Hold(c, s) = IF c.spin # "no" THEN c ELSE [c EXCEPT !.slot[s].ref = c.slot[s].ref + 1]
  BY <1>1 DEF Hold, Layer, Slotted, Slot
<1>4. Good([c EXCEPT !.slot[s].ref = c.slot[s].ref + 1], U, L)
  <2> DEFINE k == c.slot[s].ref + 1
  <2> HIDE DEF k
  <2>1. k \in Nat
    BY <1>2 DEF k
  <2>2. Good([c EXCEPT !.slot[s].ref = k], U, L)
    BY <2>1, CountGood
  <2> QED
    BY <2>2 DEF k
<1> QED
  BY <1>3, <1>4

(* The slot that leaves the list is found in it.                           *)
LEMMA FoundIndex ==
    ASSUME NEW T, NEW q \in Seq(T), NEW s, s \in ToSet(q)
    PROVE  \E k \in 1..Len(q) : q[k] = s /\ IfreeRemove(q, s) = RemoveAt(q, k)
<1> DEFINE k == CHOOSE i \in DOMAIN q : q[i] = s
<1>1. DOMAIN q = 1..Len(q)
  BY LenProperties
<1>2. k \in DOMAIN q /\ q[k] = s
  BY DEF ToSet
<1>3. IfreeRemove(q, s) = RemoveAt(q, k)
  BY DEF IfreeRemove
<1> QED
  BY <1>1, <1>2, <1>3

(* A sequence without its k-th element.                                    *)
LEMMA RemoveAtIs ==
    ASSUME NEW T, NEW q \in Seq(T), NEW k \in 1..Len(q)
    PROVE  /\ RemoveAt(q, k) \in Seq(T)
           /\ Len(RemoveAt(q, k)) = Len(q) - 1
           /\ \A i \in 1..(Len(q) - 1) : RemoveAt(q, k)[i] = IF i < k THEN q[i] ELSE q[i + 1]
<1> DEFINE a == SubSeq(q, 1, k - 1)
           b == SubSeq(q, k + 1, Len(q))
<1>1. Len(q) \in Nat /\ \A i \in 1..Len(q) : q[i] \in T
  BY LenProperties, ElementOfSeq
<1>2. /\ a \in Seq(T) /\ Len(a) = k - 1
      /\ \A i \in 1..(k - 1) : a[i] = q[i]
  <2>1. k - 1 \in Int /\ 1 \in Int /\ \A i \in 1..(k - 1) : q[i] \in T
    BY <1>1
  <2>2. a \in Seq(T) /\ Len(a) = IF 1 <= k - 1 THEN (k - 1) - 1 + 1 ELSE 0
    BY <2>1, SubSeqProperties
  <2>3. \A i \in 1..(k - 1) : a[i] = q[i]
    BY <1>1
  <2> QED
    BY <2>2, <2>3
<1>3. /\ b \in Seq(T) /\ Len(b) = Len(q) - k
      /\ \A i \in 1..(Len(q) - k) : b[i] = q[k + i]
  <2>1. k + 1 \in Int /\ Len(q) \in Int /\ \A i \in (k + 1)..Len(q) : q[i] \in T
    BY <1>1
  <2>2. b \in Seq(T) /\ Len(b) = IF k + 1 <= Len(q) THEN Len(q) - (k + 1) + 1 ELSE 0
    BY <2>1, SubSeqProperties
  <2>3. \A i \in 1..(Len(q) - k) : b[i] = q[k + i]
    BY <1>1
  <2> QED
    BY <2>2, <2>3, <1>1
<1>4. RemoveAt(q, k) = a \o b
  BY DEF RemoveAt
<1> HIDE DEF a, b
<1>5. /\ a \o b \in Seq(T)
      /\ Len(a \o b) = Len(a) + Len(b)
      /\ \A i \in 1..(Len(a) + Len(b)) : (a \o b)[i] = IF i <= Len(a) THEN a[i] ELSE b[i - Len(a)]
  <2>1. a \in Seq(T) /\ b \in Seq(T)
    BY <1>2, <1>3
  <2> HIDE DEF a, b
  <2> QED
    BY <2>1, ConcatProperties
<1>6. ASSUME NEW i \in 1..(Len(q) - 1)
      PROVE  (a \o b)[i] = IF i < k THEN q[i] ELSE q[i + 1]
  <2>1. (a \o b)[i] = IF i <= k - 1 THEN a[i] ELSE b[i - (k - 1)]
    BY <1>1, <1>2, <1>3, <1>5
  <2>2. CASE i < k
    BY <1>2, <2>1, <2>2
  <2>3. CASE ~(i < k)
    <3>1. i - (k - 1) \in 1..(Len(q) - k) /\ k + (i - (k - 1)) = i + 1
      BY <1>1, <2>3
    <3> QED
      BY <1>3, <2>1, <2>3, <3>1
  <2> QED
    BY <2>2, <2>3
<1> QED
  BY <1>1, <1>2, <1>3, <1>4, <1>5, <1>6

(* Removing an element leaves a sequence over the same set.                *)
LEMMA IfreeRemoveType ==
    ASSUME NEW T, NEW q \in Seq(T), NEW s
    PROVE  IfreeRemove(q, s) \in Seq(T)
<1>1. CASE s \in ToSet(q)
  BY <1>1, FoundIndex, RemoveAtIs
<1>2. CASE s \notin ToSet(q)
  BY <1>2 DEF IfreeRemove
<1> QED
  BY <1>1, <1>2

(* The slot a routine returned. *)
Hand(c) == {c.ip} \ {Null}
Got(c, U, L) == Good(c, U \union Hand(c), L \union Hand(c))

(* A routine that returns no inode.                                        *)
LEMMA NoneGood ==
    ASSUME NEW U, NEW L, NEW c, Good(c, U, L)
    PROVE  Got([c EXCEPT !.ip = Null], U, L)
<1> DEFINE d == [c EXCEPT !.ip = Null]
<1>1. Good(d, U, L)
  BY IpGood
<1>2. d.ip = Null
  BY DEF Good, Layer
<1> HIDE DEF d
<1>3. U \union Hand(d) = U /\ L \union Hand(d) = L
  BY <1>2 DEF Hand
<1>4. Got(d, U, L)
  BY <1>1, <1>3 DEF Got
<1> QED
  BY <1>4 DEF d

(* iget of a cached inode that is not locked: it is locked now.            *)
LEMMA HitGood ==
    ASSUME NEW U \in SUBSET Slots, NEW L, NEW c, Good(c, U, L), NEW s \in Slots, Ino(c, s) # 0
    PROVE  Got(Hit(c, s), U, L)
<1> DEFINE r == c.slot[s].ref + 1
           f == [c.slot EXCEPT ![s].ref = r, ![s].locked = TRUE]
           q == IfreeRemove(c.list, s)
<1>1. c \in Layer /\ Typed(c) /\ Sound(c.slot, c.win, c.spin, U, L)
  BY GoodFields
<1>2. f \in Slotted /\ Sound(f, c.win, c.spin, U \union {s}, L \union {s})
  <2>1. c.slot \in Slotted
    BY <1>1 DEF Typed
  <2>2. r \in Nat
    BY <2>1 DEF Slotted, Slot
  <2> HIDE DEF r
  <2>3. f \in Slotted
    BY <2>1, <2>2 DEF Slotted, Slot
  <2>4. \A t \in Slots : f[t].ino = c.slot[t].ino /\ (t # s => f[t].locked = c.slot[t].locked)
    BY <2>1 DEF Slotted, Slot
  <2> HIDE DEF f
  <2> QED
    BY <1>1, <2>1, <2>3, <2>4 DEF Sound, Ino, Slotted, Slot
<1>3. q \in Seq(Slots)
  BY <1>1, IfreeRemoveType DEF Typed
<1>4. Hit(c, s) = Rec(f, q, c.disk, c.dirs, c.win, c.seen, s, c.spin)
  <2>1. Hit(c, s) = [c EXCEPT !.slot = f, !.list = q, !.ip = s]
    BY <1>1 DEF Hit, Layer, Slotted, Slot
  <2> HIDE DEF f, q
  <2> QED
    BY <2>1, <1>1 DEF Rec, Layer
<1> HIDE DEF f, q
<1>5. Good(Hit(c, s), U \union {s}, L \union {s})
  <2>1. /\ c.disk \in Disks /\ c.dirs \in Trees
        /\ c.win \in Seq(Inodes) /\ c.seen \in Inodes /\ c.spin \in Spins
    BY <1>1 DEF Typed
  <2>2. s \in Slots \union {Null}
    OBVIOUS
  <2> QED
    BY <1>2, <1>3, <1>4, <2>1, <2>2, RecGood
<1>6. Hand(Hit(c, s)) = {s}
  BY <1>4, CacheAssumption DEF Hand, Rec, Slots
<1> QED
  BY <1>5, <1>6 DEF Got

(* The head of the free list takes an inode in. *)
Loaded(c, s, i) == [c EXCEPT !.slot[s] = [ino |-> i, ref |-> 1, locked |-> TRUE,
                                          mode |-> c.disk[i].mode, nlink |-> c.disk[i].nlink],
                             !.list = Tail(@), !.ip = s]

(* The slot that takes an inode in is locked.                              *)
LEMMA LoadedGood ==
    ASSUME NEW U \in SUBSET Slots, NEW L, NEW c, Good(c, U, L), NEW i \in Inodes,
           c.list # <<>>
    PROVE  Got(Loaded(c, Head(c.list), i), U, L)
<1> DEFINE s == Head(c.list)
           e == [ino |-> i, ref |-> 1, locked |-> TRUE,
                 mode |-> c.disk[i].mode, nlink |-> c.disk[i].nlink]
           f == [c.slot EXCEPT ![s] = e]
           q == Tail(c.list)
<1>1. c \in Layer /\ Typed(c) /\ Sound(c.slot, c.win, c.spin, U, L)
  BY GoodFields
<1>2. s \in Slots /\ q \in Seq(Slots)
  BY <1>1, HeadTailProperties DEF Typed
<1>3. e \in Slot /\ e.ino # 0
  BY <1>1, CacheAssumption DEF Typed, Disks, Info, Slot, Inodes
<1>4. Loaded(c, s, i) = Rec(f, q, c.disk, c.dirs, c.win, c.seen, s, c.spin)
  <2>1. Loaded(c, s, i) = [c EXCEPT !.slot = f, !.list = q, !.ip = s]
    BY <1>1 DEF Loaded, Layer
  <2> HIDE DEF f, q, s
  <2> QED
    BY <2>1, <1>1 DEF Rec, Layer
<1> HIDE DEF e, s, q
<1>5. f \in Slotted /\ Sound(f, c.win, c.spin, U \union {s}, L \union {s})
  BY <1>1, <1>2, <1>3 DEF Typed, Slotted, Sound
<1> HIDE DEF f
<1>6. Good(Loaded(c, s, i), U \union {s}, L \union {s})
  <2>1. /\ c.disk \in Disks /\ c.dirs \in Trees
        /\ c.win \in Seq(Inodes) /\ c.seen \in Inodes /\ c.spin \in Spins
    BY <1>1 DEF Typed
  <2>2. s \in Slots \union {Null}
    BY <1>2
  <2> QED
    BY <1>2, <1>4, <1>5, <2>1, <2>2, RecGood
<1>7. Hand(Loaded(c, s, i)) = {s}
  BY <1>2, <1>4, CacheAssumption DEF Hand, Rec, Slots
<1>8. Got(Loaded(c, s, i), U, L)
  BY <1>6, <1>7 DEF Got
<1> QED
  BY <1>8 DEF s

(* iget returns a slot that is locked, or none; what was locked stays.     *)
LEMMA IgetGood ==
    ASSUME NEW U \in SUBSET Slots, NEW L, NEW c, Good(c, U, L), NEW i \in Inodes
    PROVE  Got(Iget(c, i), U, L)
<1>1. c \in Layer /\ Typed(c) /\ Sound(c.slot, c.win, c.spin, U, L)
  BY GoodFields
<1>2. CASE c.spin # "no"
  <2>1. Iget(c, i) = [c EXCEPT !.ip = Null]
    BY <1>2 DEF Iget
  <2> QED
    BY <2>1, NoneGood
<1>3. CASE c.spin = "no" /\ \E s \in Slots : Ino(c, s) = i
  <2> DEFINE s == CHOOSE t \in Slots : Ino(c, t) = i
  <2>1. s \in Slots /\ Ino(c, s) = i
    BY <1>3
  <2>2. i # 0
    BY CacheAssumption DEF Inodes
  <2>3. Iget(c, i) = IF c.slot[s].locked THEN [c EXCEPT !.spin = "iget", !.ip = Null] ELSE Hit(c, s)
    BY <1>3 DEF Iget
  <2> HIDE DEF s
  <2>4. CASE c.slot[s].locked
    <3> DEFINE d == [c EXCEPT !.spin = "iget"]
    <3>1. Good(d, U, L)
      BY <1>1 DEF Good, Layer, Spins
    <3>2. [c EXCEPT !.spin = "iget", !.ip = Null] = [d EXCEPT !.ip = Null]
      BY <1>1 DEF Layer
    <3> HIDE DEF d
    <3> QED
      BY <2>3, <2>4, <3>1, <3>2, NoneGood
  <2>5. CASE ~c.slot[s].locked
    BY <2>1, <2>2, <2>3, <2>5, HitGood
  <2> QED
    BY <2>4, <2>5
<1>4. CASE c.spin = "no" /\ ~(\E s \in Slots : Ino(c, s) = i) /\ c.list = <<>>
  <2>1. Iget(c, i) = [c EXCEPT !.ip = Null]
    BY <1>4 DEF Iget
  <2> QED
    BY <2>1, NoneGood
<1>5. CASE c.spin = "no" /\ ~(\E s \in Slots : Ino(c, s) = i) /\ c.list # <<>>
  <2>1. Iget(c, i) = Loaded(c, Head(c.list), i)
    BY <1>5 DEF Iget, Loaded
  <2> QED
    BY <1>5, <2>1, LoadedGood
<1> QED
  BY <1>2, <1>3, <1>4, <1>5

(* A call may forget slots it holds and allow more locks.                  *)
LEMMA GoodMono ==
    ASSUME NEW U, NEW L, NEW c, Good(c, U, L), NEW U2 \in SUBSET U, NEW L2, L \subseteq L2
    PROVE  Good(c, U2, L2)
BY DEF Good

(* IputAll is a run of iputs.                                              *)
LEMMA IputAllTwo ==
    ASSUME NEW c, NEW p, NEW q
    PROVE  IputAll(c, <<p, q>>) = Iput(Iput(c, p), q)
<1> DEFINE ss == <<p, q>>
           F == CHOOSE f : f = [k \in 1..Len(ss) + 1 |-> IF k = 1 THEN c ELSE Iput(f[k - 1], ss[k - 1])]
           g == [k \in 1..3 |-> IF k = 1 THEN c ELSE IF k = 2 THEN Iput(c, p) ELSE Iput(Iput(c, p), q)]
<1>1. Len(ss) = 2 /\ ss[1] = p /\ ss[2] = q
  OBVIOUS
<1>2. g = [k \in 1..Len(ss) + 1 |-> IF k = 1 THEN c ELSE Iput(g[k - 1], ss[k - 1])]
  BY <1>1
<1>3. F = [k \in 1..Len(ss) + 1 |-> IF k = 1 THEN c ELSE Iput(F[k - 1], ss[k - 1])]
  <2> HIDE DEF g
  <2> QED
    BY <1>2
<1>4. IputAll(c, ss) = F[3]
  BY <1>1 DEF IputAll
<1> HIDE DEF F
<1>5. F[1] = c /\ F[2] = Iput(F[1], ss[1]) /\ F[3] = Iput(F[2], ss[2])
  BY <1>1, <1>3
<1> QED
  BY <1>1, <1>4, <1>5

(* iput of three inodes.                                                   *)
LEMMA IputAllThree ==
    ASSUME NEW c, NEW p, NEW q, NEW r
    PROVE  IputAll(c, <<p, q, r>>) = Iput(Iput(Iput(c, p), q), r)
<1> DEFINE ss == <<p, q, r>>
           F == CHOOSE f : f = [k \in 1..Len(ss) + 1 |-> IF k = 1 THEN c ELSE Iput(f[k - 1], ss[k - 1])]
           g == [k \in 1..4 |-> IF k = 1 THEN c ELSE IF k = 2 THEN Iput(c, p)
                                ELSE IF k = 3 THEN Iput(Iput(c, p), q)
                                ELSE Iput(Iput(Iput(c, p), q), r)]
<1>1. Len(ss) = 3 /\ ss[1] = p /\ ss[2] = q /\ ss[3] = r
  OBVIOUS
<1>2. g = [k \in 1..Len(ss) + 1 |-> IF k = 1 THEN c ELSE Iput(g[k - 1], ss[k - 1])]
  BY <1>1
<1>3. F = [k \in 1..Len(ss) + 1 |-> IF k = 1 THEN c ELSE Iput(F[k - 1], ss[k - 1])]
  <2> HIDE DEF g
  <2> QED
    BY <1>2
<1>4. IputAll(c, ss) = F[4]
  BY <1>1 DEF IputAll
<1> HIDE DEF F
<1>5. F[1] = c /\ F[2] = Iput(F[1], ss[1]) /\ F[3] = Iput(F[2], ss[2]) /\ F[4] = Iput(F[3], ss[3])
  BY <1>1, <1>3
<1> QED
  BY <1>1, <1>4, <1>5

(* iput of four inodes.                                                    *)
LEMMA IputAllFour ==
    ASSUME NEW c, NEW p, NEW q, NEW r, NEW t
    PROVE  IputAll(c, <<p, q, r, t>>) = Iput(Iput(Iput(Iput(c, p), q), r), t)
<1> DEFINE ss == <<p, q, r, t>>
           F == CHOOSE f : f = [k \in 1..Len(ss) + 1 |-> IF k = 1 THEN c ELSE Iput(f[k - 1], ss[k - 1])]
           g == [k \in 1..5 |-> IF k = 1 THEN c ELSE IF k = 2 THEN Iput(c, p)
                                ELSE IF k = 3 THEN Iput(Iput(c, p), q)
                                ELSE IF k = 4 THEN Iput(Iput(Iput(c, p), q), r)
                                ELSE Iput(Iput(Iput(Iput(c, p), q), r), t)]
<1>1. Len(ss) = 4 /\ ss[1] = p /\ ss[2] = q /\ ss[3] = r /\ ss[4] = t
  OBVIOUS
<1>2. g = [k \in 1..Len(ss) + 1 |-> IF k = 1 THEN c ELSE Iput(g[k - 1], ss[k - 1])]
  BY <1>1
<1>3. F = [k \in 1..Len(ss) + 1 |-> IF k = 1 THEN c ELSE Iput(F[k - 1], ss[k - 1])]
  <2> HIDE DEF g
  <2> QED
    BY <1>2
<1>4. IputAll(c, ss) = F[5]
  BY <1>1 DEF IputAll
<1> HIDE DEF F
<1>5. F[1] = c /\ F[2] = Iput(F[1], ss[1]) /\ F[3] = Iput(F[2], ss[2]) /\ F[4] = Iput(F[3], ss[3])
      /\ F[5] = Iput(F[4], ss[4])
  BY <1>1, <1>3
<1> QED
  BY <1>1, <1>4, <1>5

(* The window is a list of inode numbers that fits.                        *)
Wins == {w \in Seq(Inodes) : Len(w) <= SB_FREE_INODE_MAX}
AddFree(c, w, i) == IF IsFree(c, i) /\ Len(w) < SB_FREE_INODE_MAX THEN Append(w, i) ELSE w
Fills(c, f) == f = [i \in 0..MaxIno |-> IF i < c.seen THEN <<>> ELSE AddFree(c, f[i - 1], i)]

(* sb_refill_inodes collects a window that fits.                           *)
LEMMA FillsTyped ==
    ASSUME NEW c \in Layer
    PROVE  /\ \E f : Fills(c, f)
           /\ \A f : Fills(c, f) => f[MaxIno] \in Wins
<1>1. MaxIno \in Nat /\ SB_FREE_INODE_MAX \in Nat /\ c.seen \in 1..MaxIno
  BY CacheAssumption DEF Layer, Inodes
<1>2. <<>> \in Wins
  BY <1>1, EmptySeq DEF Wins
<1>3. ASSUME NEW w \in Wins, NEW i \in 1..MaxIno
      PROVE  AddFree(c, w, i) \in Wins
  BY <1>1, AppendProperties DEF Wins, AddFree, Inodes
<1>4. \E f : Fills(c, f)
  <2> DEFINE step == [i \in 1..MaxIno |-> [w \in Wins |-> IF i < c.seen THEN <<>> ELSE AddFree(c, w, i)]]
             I == [i \in 0..MaxIno |-> Wins]
  <2>1. ASSUME NEW i \in 1..MaxIno, NEW x \in I[i - 1]
        PROVE  step[i][x] \in I[i]
    <3>1. i - 1 \in 0..MaxIno /\ i \in 0..MaxIno
      BY <1>1
    <3>2. x \in Wins
      BY <3>1
    <3>3. step[i][x] = IF i < c.seen THEN <<>> ELSE AddFree(c, x, i)
      BY <3>2
    <3>4. step[i][x] \in Wins
      BY <1>2, <1>3, <3>2, <3>3
    <3> QED
      BY <3>1, <3>4
  <2>2. I \in [0..MaxIno -> SUBSET Wins] /\ <<>> \in I[0]
    BY <1>1, <1>2
  <2> HIDE DEF step, I
  <2>3. PICK f : Loop(f, MaxIno, I, <<>>, step)
    BY <1>1, <2>1, <2>2, LoopExists
  <2>4. /\ f = [i \in 0..MaxIno |-> f[i]] /\ f[0] = <<>>
        /\ \A i \in 1..MaxIno : f[i] = step[i][f[i - 1]]
        /\ \A i \in 0..MaxIno : f[i] \in Wins
    BY <2>3 DEF Loop, I
  <2>5. ASSUME NEW i \in 0..MaxIno
        PROVE  f[i] = IF i < c.seen THEN <<>> ELSE AddFree(c, f[i - 1], i)
    <3>1. CASE i = 0
      BY <1>1, <2>4, <3>1
    <3>2. CASE i # 0
      <4>1. i \in 1..MaxIno /\ i - 1 \in 0..MaxIno
        BY <1>1, <3>2
      <4> QED
        BY <2>4, <4>1 DEF step
    <3> QED
      BY <3>1, <3>2
  <2>6. Fills(c, f)
    BY <2>4, <2>5 DEF Fills
  <2> QED
    BY <2>6
<1>5. ASSUME NEW f, Fills(c, f)
      PROVE  f[MaxIno] \in Wins
  <2> DEFINE I == [i \in 0..MaxIno |-> Wins]
  <2>1. \A i \in 0..MaxIno : f[i] = IF i < c.seen THEN <<>> ELSE AddFree(c, f[i - 1], i)
    BY <1>5 DEF Fills
  <2>2. f[0] \in I[0]
    BY <1>1, <1>2, <2>1
  <2>3. \A i \in 1..MaxIno : f[i - 1] \in I[i - 1] => f[i] \in I[i]
    BY <1>1, <1>2, <1>3, <2>1
  <2> HIDE DEF I
  <2>4. \A i \in 0..MaxIno : f[i] \in I[i]
    BY <1>1, <2>2, <2>3, LoopUpTo
  <2> QED
    BY <1>1, <2>4 DEF I
<1> QED
  BY <1>4, <1>5

(* sb_refill_inodes by the windows it collects.                            *)
LEMMA RefillIs ==
    ASSUME NEW c
    PROVE  LET w == (CHOOSE f : Fills(c, f))[MaxIno]
           IN  Refill(c) = [c EXCEPT !.win = w, !.seen = IF w = <<>> THEN @ ELSE Last(w)]
BY DEF Refill, Fills, AddFree

(* sb_refill_inodes replaces the window.                                   *)
LEMMA RefillGood ==
    ASSUME NEW U \in SUBSET Slots, NEW L, NEW c, Good(c, U, L)
    PROVE  Good(Refill(c), U, L)
<1> DEFINE w == (CHOOSE f : Fills(c, f))[MaxIno]
           n == IF w = <<>> THEN c.seen ELSE Last(w)
<1>1. c \in Layer /\ Typed(c) /\ Sound(c.slot, c.win, c.spin, U, L)
  BY GoodFields
<1>2. w \in Wins
  BY <1>1, FillsTyped
<1>3. Refill(c) = [c EXCEPT !.win = w, !.seen = IF w = <<>> THEN @ ELSE Last(w)]
  BY RefillIs
<1> HIDE DEF w
<1>4. w \in Seq(Inodes) /\ Len(w) <= SB_FREE_INODE_MAX
  BY <1>2 DEF Wins
<1>5. n \in Inodes
  <2>1. CASE w # <<>>
    <3>1. Len(w) \in 1..Len(w)
      BY <1>4, <2>1, EmptySeq, LenProperties
    <3> QED
      BY <1>4, <2>1, <3>1, ElementOfSeq DEF Last
  <2>2. CASE w = <<>>
    BY <1>1, <2>2 DEF Typed
  <2> QED
    BY <2>1, <2>2
<1>6. Refill(c) = Rec(c.slot, c.list, c.disk, c.dirs, w, n, c.ip, c.spin)
  BY <1>1, <1>3 DEF Rec, Layer
<1> HIDE DEF n
<1>7. /\ c.slot \in Slotted /\ c.list \in Seq(Slots) /\ c.disk \in Disks /\ c.dirs \in Trees
      /\ c.ip \in Slots \union {Null} /\ c.spin \in Spins
  BY <1>1 DEF Typed
<1>8. Sound(c.slot, w, c.spin, U, L)
  BY <1>1, <1>4 DEF Sound
<1> QED
  BY <1>4, <1>5, <1>6, <1>7, <1>8, RecGood

(* The number the window offers is fetched.                                *)
LEMMA OfferedGood ==
    ASSUME NEW U \in SUBSET Slots, NEW L, NEW c, Good(c, U, L), c.win # <<>>
    PROVE  Got(Offered(c), U, L)
<1> DEFINE w == Front(c.win)
           i == Last(c.win)
<1>1. c \in Layer /\ Typed(c) /\ Sound(c.slot, c.win, c.spin, U, L)
  BY GoodFields
<1>2. c.win \in Seq(Inodes) /\ Len(c.win) <= SB_FREE_INODE_MAX
  BY <1>1 DEF Typed, Sound
<1>3. Len(c.win) \in Nat /\ Len(c.win) # 0 /\ \A k \in 1..Len(c.win) : c.win[k] \in Inodes
  BY <1>2, EmptySeq, LenProperties, ElementOfSeq
<1>4. i \in Inodes
  BY <1>3 DEF Last
<1>5. w \in Seq(Inodes) /\ Len(w) <= SB_FREE_INODE_MAX
  <2>1. \A k \in 1..(Len(c.win) - 1) : c.win[k] \in Inodes
    BY <1>3
  <2>2. Len(c.win) - 1 \in Int /\ 1 \in Int
    BY <1>3
  <2>3. w \in Seq(Inodes) /\ Len(w) = IF 1 <= Len(c.win) - 1 THEN (Len(c.win) - 1) - 1 + 1 ELSE 0
    BY <2>1, <2>2, SubSeqProperties DEF Front
  <2> QED
    BY <1>2, <1>3, <2>3, CacheAssumption
<1>6. Offered(c) = Iget([c EXCEPT !.win = w], i)
  BY <1>1 DEF Offered, Layer
<1> HIDE DEF w, i
<1>7. Good([c EXCEPT !.win = w], U, L)
  BY <1>5, WinGood
<1> QED
  BY <1>4, <1>6, <1>7, IgetGood

(* A routine that changes other fields returns the slot it was given.      *)
LEMMA IupdateIp ==
    ASSUME NEW U, NEW L, NEW c, Good(c, U, L), NEW s
    PROVE  Iupdate(c, s).ip = c.ip /\ Iupdate(c, s).spin = c.spin
BY DEF Good, Layer, Iupdate

(* What is owed at the end of a turn of ialloc's loop.                     *)
Turned(r, U, L) == IF r.over THEN Got(r.c, U, L) ELSE Good(r.c, U, L)
Rounds(U, L) == {r \in [c : Layer, over : BOOLEAN] : Turned(r, U, L)}

(* A turn from its two parts.                                              *)
LEMMA RoundIs ==
    ASSUME NEW U, NEW L, NEW x, NEW b \in BOOLEAN, IF b THEN Got(x, U, L) ELSE Good(x, U, L)
    PROVE  [c |-> x, over |-> b] \in Rounds(U, L)
<1>1. x \in Layer
  BY DEF Got, Good
<1> QED
  BY <1>1 DEF Rounds, Turned

(* ialloc_dev returns the inode it fetched, or lets it go and turns again. *)
LEMMA ClaimGood ==
    ASSUME NEW U \in SUBSET Slots, NEW L, NEW c, Got(c, U, L), NEW kind \in Modes
    PROVE  Claim(c, kind) \in Rounds(U, L)
<1>1. CASE c.ip = Null
  <2>1. Hand(c) = {} /\ U \union {} = U /\ L \union {} = L
    BY <1>1 DEF Hand
  <2>2. Good(c, U, L)
    BY <2>1 DEF Got
  <2>3. Claim(c, kind) = [c |-> c, over |-> c.spin # "no"]
    BY <1>1 DEF Claim
  <2>4. Got(c, U, L)
    BY <2>1, <2>2 DEF Got
  <2> DEFINE b == c.spin # "no"
  <2>5. b \in BOOLEAN
    OBVIOUS
  <2> HIDE DEF b
  <2>6. [c |-> c, over |-> b] \in Rounds(U, L)
    BY <2>2, <2>4, <2>5, RoundIs
  <2> QED
    BY <2>3, <2>6 DEF b
<1>2. CASE c.ip # Null
  <2> DEFINE V == U \union {c.ip}
             M == L \union {c.ip}
  <2>1. Hand(c) = {c.ip} /\ Good(c, V, M)
    BY <1>2 DEF Hand, Got
  <2>2. c.ip \in V /\ V \in SUBSET Slots
    <3>1. c.ip \in Slots \union {Null}
      BY <2>1 DEF Good, Layer
    <3> QED
      BY <1>2, <3>1
  <2> HIDE DEF V, M
  <2>3. CASE ~IsFree(c, Ino(c, c.ip))
    <3>1. Claim(c, kind) = [c |-> Iput(c, c.ip), over |-> FALSE]
      BY <1>2, <2>3 DEF Claim
    <3>2. Good(Iput(c, c.ip), V, M \ {c.ip})
      BY <2>1, <2>2, IputGood
    <3>3. U \in SUBSET V /\ M \ {c.ip} \subseteq L
      BY DEF V, M
    <3>4. Good(Iput(c, c.ip), U, L)
      BY <3>2, <3>3, GoodMono
    <3> QED
      BY <3>1, <3>4, RoundIs
  <2>4. CASE IsFree(c, Ino(c, c.ip))
    <3> DEFINE f == [c.slot EXCEPT ![c.ip].mode = kind, ![c.ip].nlink = 0]
               e == [c EXCEPT !.slot = f]
               d == Iupdate(e, c.ip)
    <3>1. c \in Layer /\ Typed(c) /\ Sound(c.slot, c.win, c.spin, V, M)
      BY <2>1, GoodFields
    <3>2. f \in Slotted /\ Sound(f, c.win, c.spin, V, M)
      <4>1. c.slot \in Slotted
        BY <3>1 DEF Typed
      <4>2. f \in Slotted
        BY <4>1 DEF Slotted, Slot
      <4>3. \A t \in Slots : f[t].ino = c.slot[t].ino /\ f[t].locked = c.slot[t].locked
        BY <4>1 DEF Slotted, Slot
      <4> HIDE DEF f
      <4> QED
        BY <2>2, <3>1, <4>1, <4>2, <4>3 DEF Sound, Slotted, Slot
    <3>3. Claim(c, kind) = [c |-> d, over |-> TRUE]
      <4>1. [c EXCEPT !.slot[c.ip].mode = kind, !.slot[c.ip].nlink = 0] = e
        BY <3>1 DEF Layer, Slotted, Slot
      <4> QED
        BY <1>2, <2>4, <4>1 DEF Claim
    <3>4. e.ip = c.ip
      BY <3>1 DEF Layer
    <3> HIDE DEF f
    <3>5. Good(e, V, M)
      BY <2>1, <3>2, SlotGood
    <3> HIDE DEF e
    <3>6. Good(d, V, M)
      BY <2>2, <3>5, IupdateGood
    <3>7. d.ip = c.ip
      BY <3>4, <3>5, IupdateIp
    <3> HIDE DEF d
    <3>8. Hand(d) = {c.ip}
      BY <1>2, <3>7 DEF Hand
    <3>9. Got(d, U, L)
      BY <3>6, <3>8 DEF Got, V, M
    <3> QED
      BY <3>3, <3>9, RoundIs
  <2> QED
    BY <2>3, <2>4
<1> QED
  BY <1>1, <1>2

(* The window is refilled if it is empty.                                  *)
LEMMA StockedGood ==
    ASSUME NEW U \in SUBSET Slots, NEW L, NEW c, Good(c, U, L)
    PROVE  Good(Stocked(c), U, L)
BY RefillGood DEF Stocked

(* A turn of ialloc_dev's loop.                                            *)
LEMMA TurnGood ==
    ASSUME NEW U \in SUBSET Slots, NEW L, NEW c, Good(c, U, L), NEW kind \in Modes
    PROVE  IallocTurn(c, kind) \in Rounds(U, L)
<1>1. CASE c.win = <<>>
  <2>1. IallocTurn(c, kind) = [c |-> [c EXCEPT !.ip = Null], over |-> TRUE]
    BY <1>1 DEF IallocTurn
  <2>2. Got([c EXCEPT !.ip = Null], U, L)
    BY NoneGood
  <2> QED
    BY <2>1, <2>2, RoundIs
<1>2. CASE c.win # <<>>
  <2>1. Got(Offered(c), U, L)
    BY <1>2, OfferedGood
  <2>2. IallocTurn(c, kind) = Claim(Offered(c), kind)
    BY <1>2 DEF IallocTurn
  <2> QED
    BY <2>1, <2>2, ClaimGood
<1> QED
  BY <1>1, <1>2

(* The loop of ialloc, one turn at a time.                                 *)
NextTurn(r, kind) == IF r.over THEN r ELSE IallocTurn(Stocked(r.c), kind)
Turns(c, kind, f) == f = [n \in 0..MaxTurns |-> IF n = 0 THEN [c |-> c, over |-> FALSE]
                                                ELSE NextTurn(f[n - 1], kind)]
IallocEnd(c, r) == IF r.over THEN r.c ELSE [c EXCEPT !.spin = "ialloc", !.ip = Null]

(* ialloc_dev by the turns of its loop.                                    *)
LEMMA IallocIs ==
    ASSUME NEW c, NEW kind
    PROVE  Ialloc(c, kind) = IF c.spin # "no" THEN [c EXCEPT !.ip = Null]
                             ELSE IallocEnd(c, (CHOOSE f : Turns(c, kind, f))[MaxTurns])
BY DEF Ialloc, Turns, NextTurn, IallocEnd

(* The loop of ialloc ends with what every turn keeps.                      *)
LEMMA TurnsKeep ==
    ASSUME NEW c, NEW kind, NEW R, [c |-> c, over |-> FALSE] \in R,
           \A r \in R : NextTurn(r, kind) \in R
    PROVE  \E r \in R : Ialloc(c, kind) = IF c.spin # "no" THEN [c EXCEPT !.ip = Null]
                                          ELSE IallocEnd(c, r)
<1> DEFINE base == [c |-> c, over |-> FALSE]
<1>1. MaxTurns \in Nat
  BY CacheAssumption
<1>2. base \in R
  OBVIOUS
<1> DEFINE I == [n \in 0..MaxTurns |-> R]
<1> HIDE DEF base
<1>3. \E f : Turns(c, kind, f)
  <2> DEFINE step == [n \in 1..MaxTurns |-> [r \in R |-> NextTurn(r, kind)]]
  <2>1. ASSUME NEW n \in 1..MaxTurns, NEW r \in I[n - 1]
        PROVE  step[n][r] \in I[n]
    <3>1. n - 1 \in 0..MaxTurns /\ n \in 0..MaxTurns
      BY <1>1
    <3>2. r \in R
      BY <3>1
    <3> QED
      BY <3>1, <3>2
  <2>2. I \in [0..MaxTurns -> SUBSET R] /\ base \in I[0]
    BY <1>1, <1>2
  <2> HIDE DEF step, I
  <2>3. PICK f : Loop(f, MaxTurns, I, base, step)
    BY <1>1, <2>1, <2>2, LoopExists
  <2>4. /\ f = [n \in 0..MaxTurns |-> f[n]] /\ f[0] = base
        /\ \A n \in 1..MaxTurns : f[n] = step[n][f[n - 1]]
        /\ \A n \in 0..MaxTurns : f[n] \in R
    BY <2>3 DEF Loop, I
  <2>5. ASSUME NEW n \in 0..MaxTurns
        PROVE  f[n] = IF n = 0 THEN base ELSE NextTurn(f[n - 1], kind)
    <3>1. CASE n = 0
      BY <2>4, <3>1
    <3>2. CASE n # 0
      <4>1. n \in 1..MaxTurns /\ n - 1 \in 0..MaxTurns
        BY <1>1, <3>2
      <4> QED
        BY <2>4, <3>2, <4>1 DEF step
    <3> QED
      BY <3>1, <3>2
  <2>6. Turns(c, kind, f)
    BY <2>4, <2>5 DEF Turns, base
  <2> QED
    BY <2>6
<1> DEFINE F == CHOOSE f : Turns(c, kind, f)
<1>4. Turns(c, kind, F)
  BY <1>3
<1> HIDE DEF F
<1>5. F[MaxTurns] \in R
  <2>1. F[0] = base /\ \A n \in 1..MaxTurns : F[n] = NextTurn(F[n - 1], kind)
    <3>1. F = [n \in 0..MaxTurns |-> IF n = 0 THEN base ELSE NextTurn(F[n - 1], kind)]
      BY <1>4 DEF Turns, base
    <3> QED
      BY <1>1, <3>1
  <2>2. F[0] \in I[0]
    BY <1>1, <1>2, <2>1
  <2>3. ASSUME NEW n \in 1..MaxTurns, F[n - 1] \in I[n - 1]
        PROVE  F[n] \in I[n]
    <3>1. n - 1 \in 0..MaxTurns /\ n \in 0..MaxTurns
      BY <1>1
    <3> QED
      BY <2>1, <2>3, <3>1
  <2> HIDE DEF I
  <2>4. \A n \in 0..MaxTurns : F[n] \in I[n]
    BY <1>1, <2>2, <2>3, LoopUpTo
  <2> QED
    BY <1>1, <2>4 DEF I
<1> QED
  BY <1>5, IallocIs DEF F

(* ialloc_dev returns a locked inode or none, however many turns it takes. *)
LEMMA IallocGood ==
    ASSUME NEW U \in SUBSET Slots, NEW L, NEW c, Good(c, U, L), NEW kind \in Modes
    PROVE  Got(Ialloc(c, kind), U, L)
<1> DEFINE R == Rounds(U, L)
           base == [c |-> c, over |-> FALSE]
<1>1. MaxTurns \in Nat
  BY CacheAssumption
<1>2. base \in R
  BY RoundIs
<1>3. ASSUME NEW r \in R
      PROVE  NextTurn(r, kind) \in R
  <2>1. CASE r.over
    BY <2>1 DEF NextTurn
  <2>2. CASE ~r.over
    <3>1. Good(r.c, U, L)
      BY <2>2 DEF Rounds, Turned
    <3>2. IallocTurn(Stocked(r.c), kind) \in R
      BY <3>1, StockedGood, TurnGood
    <3> QED
      BY <2>2, <3>2 DEF NextTurn
  <2> QED
    BY <2>1, <2>2
<1> HIDE DEF base
<1>4. PICK r \in R : Ialloc(c, kind) = IF c.spin # "no" THEN [c EXCEPT !.ip = Null] ELSE IallocEnd(c, r)
  BY <1>2, <1>3, TurnsKeep DEF base
<1>5. Got(IallocEnd(c, r), U, L)
  <2>1. r \in Rounds(U, L) /\ r.over \in BOOLEAN
    BY <1>4 DEF Rounds
  <2>2. CASE r.over
    <3>1. Got(r.c, U, L)
      BY <2>1, <2>2 DEF Rounds, Turned
    <3>2. IallocEnd(c, r) = r.c
      BY <2>2 DEF IallocEnd
    <3> QED
      BY <3>1, <3>2
  <2>3. CASE ~r.over
    <3> DEFINE d == [c EXCEPT !.spin = "ialloc"]
    <3>1. c \in Layer
      BY DEF Good
    <3>2. Good(d, U, L)
      BY <3>1 DEF Good, Layer, Spins
    <3>3. IallocEnd(c, r) = [d EXCEPT !.ip = Null]
      BY <2>3, <3>1 DEF IallocEnd, Layer
    <3> HIDE DEF d
    <3>4. Got([d EXCEPT !.ip = Null], U, L)
      BY <3>2, NoneGood
    <3> QED
      BY <3>3, <3>4
  <2> QED
    BY <2>1, <2>2, <2>3
<1>6. CASE c.spin # "no"
  BY <1>4, <1>6, NoneGood
<1>7. CASE c.spin = "no"
  BY <1>4, <1>5, <1>7
<1> QED
  BY <1>6, <1>7

(* One component of a walk.                                                *)
LEMMA WalkStepGood ==
    ASSUME NEW U \in SUBSET Slots, NEW L, NEW c, Got(c, U, L), NEW n \in Names
    PROVE  Got(WalkStep(c, n), U, L)
<1>1. CASE c.ip = Null
  BY <1>1 DEF WalkStep
<1>2. CASE c.ip # Null
  <2> DEFINE V == U \union {c.ip}
             M == L \union {c.ip}
             i == Lookup(c, c.ip, n)
             left == Iput(c, c.ip)
  <2>1. Hand(c) = {c.ip} /\ Good(c, V, M)
    BY <1>2 DEF Hand, Got
  <2>2. c \in Layer /\ Typed(c) /\ c.ip \in Slots
    <3>1. c \in Layer /\ Typed(c)
      BY <2>1, GoodFields
    <3> QED
      BY <1>2, <3>1 DEF Typed
  <2>3. i \in {0} \union Inodes
    <3>1. Ino(c, c.ip) \in Inodes
      <4>1. V \in SUBSET Slots /\ c.ip \in V
        BY <2>2
      <4> HIDE DEF V, M
      <4> QED
        BY <2>1, <4>1, InoType
    <3> QED
      BY <2>2, <3>1 DEF Lookup, Typed, Trees
  <2>4. Good(left, U, L)
    <3>1. V \in SUBSET Slots /\ c.ip \in V /\ U \in SUBSET V /\ M \ {c.ip} \subseteq L
      BY <2>2
    <3> HIDE DEF V, M
    <3>2. Good(left, V, M \ {c.ip})
      BY <2>1, <3>1, IputGood
    <3> QED
      BY <3>1, <3>2, GoodMono
  <2>5. WalkStep(c, n) = IF i = 0 THEN [left EXCEPT !.ip = Null] ELSE Iget(left, i)
    BY <1>2 DEF WalkStep
  <2> HIDE DEF left, i
  <2>6. CASE i = 0
    BY <2>4, <2>5, <2>6, NoneGood
  <2>7. CASE i # 0
    BY <2>3, <2>4, <2>5, <2>7, IgetGood
  <2> QED
    BY <2>6, <2>7
<1> QED
  BY <1>1, <1>2

(* A walk, one component at a time.                                        *)
PathSet == [abs : BOOLEAN, at : Seq(Names)]
Start(c, path, w) == IF path.abs THEN Root ELSE Ino(c, w)
Walked(c, path, w, f) ==
    f = [k \in 0..Len(path.at) |-> IF k = 0 THEN Iget(c, Start(c, path, w))
                                   ELSE WalkStep(f[k - 1], path.at[k])]

(* namei by the states along its walk.                                     *)
LEMMA NameiIs ==
    ASSUME NEW c, NEW path, NEW w
    PROVE  Namei(c, path, w) = IF ~path.abs /\ w = Null THEN [c EXCEPT !.ip = Null]
                               ELSE (CHOOSE f : Walked(c, path, w, f))[Len(path.at)]
BY DEF Namei, Walked, Start

CanStart(path, w, U) == path.abs \/ w \in U

(* Where a walk starts, and what each component makes of it.               *)
LEMMA WalkedGood ==
    ASSUME NEW U \in SUBSET Slots, NEW L, NEW path \in PathSet
    PROVE  /\ \A c, w : Good(c, U, L) /\ CanStart(path, w, U) => Got(Iget(c, Start(c, path, w)), U, L)
           /\ \A d : Got(d, U, L) => d \in Layer /\ \A n \in Names : Got(WalkStep(d, n), U, L)
<1>1. ASSUME NEW c, NEW w, Good(c, U, L), CanStart(path, w, U)
      PROVE  Got(Iget(c, Start(c, path, w)), U, L)
  <2>1. Start(c, path, w) \in Inodes
    <3>1. CASE path.abs
      BY <3>1, CacheAssumption DEF Start, Root, Inodes
    <3>2. CASE ~path.abs
      <4>1. w \in U
        BY <1>1, <3>2 DEF CanStart
      <4>2. Ino(c, w) \in Inodes
        BY <1>1, <4>1, InoType
      <4> QED
        BY <3>2, <4>2 DEF Start
    <3> QED
      BY <3>1, <3>2
  <2> QED
    BY <1>1, <2>1, IgetGood
<1>2. ASSUME NEW d, Got(d, U, L)
      PROVE  d \in Layer /\ \A n \in Names : Got(WalkStep(d, n), U, L)
  <2>1. d \in Layer
    BY <1>2 DEF Got, Good
  <2> QED
    BY <1>2, <2>1, WalkStepGood
<1> QED
  BY <1>1, <1>2

(* F holds the states along the walk of namei. *)
WalkOf(c, path, w, F) ==
    /\ Namei(c, path, w) = F[Len(path.at)]
    /\ F[0] = Iget(c, Start(c, path, w))
    /\ \A k \in 1..Len(path.at) : F[k] = WalkStep(F[k - 1], path.at[k])

(* namei has such states.                                                  *)
LEMMA NameiWalk ==
    ASSUME NEW U \in SUBSET Slots, NEW L, NEW c, Good(c, U, L), NEW path \in PathSet,
           NEW w, CanStart(path, w, U)
    PROVE  \E F : WalkOf(c, path, w, F)
<1> DEFINE R == {d \in Layer : Got(d, U, L)}
           m == Len(path.at)
           base == Iget(c, Start(c, path, w))
<1>1. m \in Nat /\ \A k \in 1..m : path.at[k] \in Names
  BY LenProperties, ElementOfSeq DEF PathSet
<1>2. base \in R
  BY WalkedGood
<1>3. ASSUME NEW d \in R, NEW n \in Names
      PROVE  WalkStep(d, n) \in R
  <2>1. Got(WalkStep(d, n), U, L)
    BY WalkStepGood
  <2> QED
    BY <2>1, WalkedGood
<1> DEFINE I == [k \in 0..m |-> R]
<1> HIDE DEF R, base, m
<1>4. \E f : Walked(c, path, w, f)
  <2> DEFINE step == [k \in 1..m |-> [d \in R |-> WalkStep(d, path.at[k])]]
  <2>1. ASSUME NEW k \in 1..m, NEW d \in I[k - 1]
        PROVE  step[k][d] \in I[k]
    <3>1. k - 1 \in 0..m /\ k \in 0..m
      BY <1>1
    <3>2. d \in R
      BY <3>1
    <3> QED
      BY <1>1, <1>3, <3>1, <3>2
  <2>2. I \in [0..m -> SUBSET R] /\ base \in I[0]
    BY <1>1, <1>2
  <2> HIDE DEF step, I
  <2>3. PICK f : Loop(f, m, I, base, step)
    BY <1>1, <2>1, <2>2, LoopExists
  <2>4. /\ f = [k \in 0..m |-> f[k]] /\ f[0] = base
        /\ \A k \in 1..m : f[k] = step[k][f[k - 1]]
        /\ \A k \in 0..m : f[k] \in R
    BY <2>3 DEF Loop, I
  <2>5. ASSUME NEW k \in 0..m
        PROVE  f[k] = IF k = 0 THEN base ELSE WalkStep(f[k - 1], path.at[k])
    <3>1. CASE k = 0
      BY <2>4, <3>1
    <3>2. CASE k # 0
      <4>1. k \in 1..m /\ k - 1 \in 0..m
        BY <1>1, <3>2
      <4> QED
        BY <2>4, <3>2, <4>1 DEF step
    <3> QED
      BY <3>1, <3>2
  <2>6. Walked(c, path, w, f)
    BY <2>4, <2>5 DEF Walked, base, m
  <2> QED
    BY <2>6
<1> DEFINE F == CHOOSE f : Walked(c, path, w, f)
<1>5. Walked(c, path, w, F)
  BY <1>4
<1>6. ~(~path.abs /\ w = Null)
  BY CacheAssumption DEF Slots, CanStart
<1>7. Namei(c, path, w) = F[m]
  BY <1>6, NameiIs DEF m
<1> HIDE DEF F
<1>8. F[0] = base /\ \A k \in 1..m : F[k] = WalkStep(F[k - 1], path.at[k])
  BY <1>1, <1>5 DEF Walked, base, m
<1> QED
  BY <1>7, <1>8 DEF m, base, WalkOf

(* namei returns a locked inode or none; every other inode it met is       *)
(* unlocked.                                                               *)
LEMMA NameiGood ==
    ASSUME NEW U \in SUBSET Slots, NEW L, NEW c, Good(c, U, L), NEW path \in PathSet,
           NEW w \in U \union {Null}
    PROVE  Got(Namei(c, path, w), U, L)
<1> DEFINE m == Len(path.at)
           I == [k \in 0..m |-> {d \in Layer : Got(d, U, L)}]
<1>1. CASE ~path.abs /\ w = Null
  <2>1. Namei(c, path, w) = [c EXCEPT !.ip = Null]
    BY <1>1, NameiIs
  <2> QED
    BY <2>1, NoneGood
<1>2. CASE path.abs \/ w # Null
  <2>1. m \in Nat /\ \A k \in 1..m : path.at[k] \in Names
    BY LenProperties, ElementOfSeq DEF PathSet
  <2>2. CanStart(path, w, U)
    BY <1>2 DEF CanStart
  <2> HIDE DEF I, m
  <2>3. PICK F : /\ Namei(c, path, w) = F[m]
                 /\ F[0] = Iget(c, Start(c, path, w))
                 /\ \A k \in 1..m : F[k] = WalkStep(F[k - 1], path.at[k])
    <3>1. \E F : WalkOf(c, path, w, F)
      BY <2>2, NameiWalk
    <3> QED
      BY <3>1 DEF m, WalkOf
  <2>4. F[0] \in I[0]
    <3>1. Got(F[0], U, L)
      BY <2>2, <2>3, WalkedGood
    <3>2. F[0] \in Layer
      BY <3>1 DEF Got, Good
    <3>3. 0 \in 0..m
      BY <2>1
    <3> QED
      BY <3>1, <3>2, <3>3 DEF I
  <2>5. ASSUME NEW k \in 1..m, F[k - 1] \in I[k - 1]
        PROVE  F[k] \in I[k]
    <3>1. k - 1 \in 0..m /\ k \in 0..m
      BY <2>1
    <3>2. Got(WalkStep(F[k - 1], path.at[k]), U, L)
      BY <2>1, <2>5, <3>1, WalkedGood DEF I
    <3> QED
      BY <2>3, <3>1, <3>2, WalkedGood DEF I
  <2>6. \A k \in 0..m : F[k] \in I[k]
    BY <2>1, <2>4, <2>5, LoopUpTo
  <2>7. F[m] \in I[m] /\ m \in 0..m
    BY <2>1, <2>6
  <2> QED
    BY <2>3, <2>7 DEF I
<1> QED
  BY <1>1, <1>2

(* A routine returned no inode, or one that is locked.                     *)
LEMMA GotCases ==
    ASSUME NEW U \in SUBSET Slots, NEW L, NEW c, Got(c, U, L)
    PROVE  /\ c \in Layer /\ Good(c, U, L \union Hand(c))
           /\ c.ip = Null => Good(c, U, L)
           /\ c.ip # Null => c.ip \in Slots /\ Good(c, U \union {c.ip}, L \union {c.ip})
<1>1. c \in Layer /\ c.ip \in Slots \union {Null}
  BY DEF Got, Good, Layer
<1>2. Good(c, U, L \union Hand(c))
  BY DEF Got, Good
<1>3. ASSUME c.ip = Null PROVE Good(c, U, L)
  <2>1. Hand(c) = {} /\ U \union {} = U /\ L \union {} = L
    BY <1>3 DEF Hand
  <2> QED
    BY <2>1 DEF Got
<1>4. ASSUME c.ip # Null PROVE c.ip \in Slots /\ Good(c, U \union {c.ip}, L \union {c.ip})
  <2>1. Hand(c) = {c.ip} /\ c.ip \in Slots
    BY <1>1, <1>4 DEF Hand
  <2> QED
    BY <2>1 DEF Got
<1> QED
  BY <1>1, <1>2, <1>3, <1>4

(* A slot that is held is returned.                                        *)
LEMMA GaveGood ==
    ASSUME NEW U \in SUBSET Slots, NEW L, NEW p \in Slots, NEW c, Good(c, U \union {p}, L \union {p})
    PROVE  Got([c EXCEPT !.ip = p], U, L)
<1> DEFINE d == [c EXCEPT !.ip = p]
<1>1. p # Null /\ p \in Slots \union {Null}
  BY CacheAssumption DEF Slots
<1>2. Good(d, U \union {p}, L \union {p})
  BY <1>1, IpGood
<1>3. d.ip = p
  BY DEF Good, Layer
<1> HIDE DEF d
<1>4. Hand(d) = {p}
  BY <1>1, <1>3 DEF Hand
<1>5. Got(d, U, L)
  BY <1>2, <1>4 DEF Got
<1> QED
  BY <1>5 DEF d

(* An iput after which the call holds less. *)
LEMMA PutGood ==
    ASSUME NEW V \in SUBSET Slots, NEW M, NEW c, Good(c, V, M), NEW s \in V,
           NEW U \in SUBSET V, NEW L, M \ {s} \subseteq L
    PROVE  Good(Iput(c, s), U, L)
<1>1. Good(Iput(c, s), V, M \ {s})
  BY IputGood
<1> QED
  BY <1>1, GoodMono

(* A path without its last component is a path.                            *)
LEMMA ParentType ==
    ASSUME NEW path \in PathSet
    PROVE  Parent(path) \in PathSet
<1>1. path.at \in Seq(Names) /\ Len(path.at) \in Nat
  BY LenProperties DEF PathSet
<1>2. CASE Len(path.at) <= 1
  <2>1. <<>> \in Seq(Names)
    BY EmptySeq
  <2> QED
    BY <1>2, <2>1 DEF Parent, PathSet
<1>3. CASE ~(Len(path.at) <= 1)
  <2>1. \A k \in 1..(Len(path.at) - 1) : path.at[k] \in Names
    BY <1>1, ElementOfSeq
  <2>2. Len(path.at) - 1 \in Int /\ 1 \in Int
    BY <1>1
  <2>3. Front(path.at) \in Seq(Names)
    BY <2>1, <2>2, SubSeqProperties DEF Front
  <2>4. Parent(path) = [path EXCEPT !.at = Front(path.at)]
    BY <1>3 DEF Parent, PathSet
  <2> QED
    BY <2>3, <2>4 DEF PathSet
<1> QED
  BY <1>2, <1>3

(* scfs_create_node returns the new inode locked, or holds nothing.        *)
LEMMA CreateNodeGood ==
    ASSUME NEW U \in SUBSET Slots, NEW c, Good(c, U, {}), NEW path \in PathSet,
           NEW kind \in Modes, NEW room, cwd \in U \union {Null}
    PROVE  Got(CreateNode(c, path, kind, room), U, {})
<1> DEFINE d    == Namei(c, Parent(path), cwd)
           dir  == d.ip
           a    == Ialloc(d, kind)
           ip   == a.ip
           one  == [a EXCEPT !.slot[ip].nlink = 1]
           done == Iupdate(AddEntry(one, dir, Base(path), Ino(one, ip)), ip)
<1>1. CreateNode(c, path, kind, room) =
         IF dir = Null THEN d
         ELSE IF ~IsDir(d, dir) \/ Lookup(d, dir, Base(path)) # 0
         THEN [Iput(d, dir) EXCEPT !.ip = Null]
         ELSE IF ip = Null THEN [Iput(a, dir) EXCEPT !.ip = Null]
         ELSE IF ~CanAdd(one, dir, room) THEN [Iput(Iput(one, ip), dir) EXCEPT !.ip = Null]
         ELSE [Iput(done, dir) EXCEPT !.ip = ip]
  BY IputAllTwo DEF CreateNode
<1>2. Got(d, U, {})
  BY ParentType, NameiGood
<1> HIDE DEF d
<1>3. CASE dir = Null
  BY <1>1, <1>2, <1>3
<1>4. CASE dir # Null
  <2>1. dir \in Slots /\ Good(d, U \union {dir}, {dir})
    <3>1. {} \union {dir} = {dir}
      OBVIOUS
    <3>2. dir \in Slots /\ Good(d, U \union {dir}, {} \union {dir})
      BY <1>2, <1>4, GotCases
    <3> QED
      BY <3>1, <3>2
  <2> HIDE DEF dir
  <2> DEFINE V == U \union {dir}
  <2>2. V \in SUBSET Slots /\ U \in SUBSET V /\ dir \in V /\ {dir} \ {dir} \subseteq {}
    BY <2>1
  <2>3. Good(d, V, {dir})
    BY <2>1
  <2>4. Got([Iput(d, dir) EXCEPT !.ip = Null], U, {})
    <3> HIDE DEF V
    <3>1. Good(Iput(d, dir), U, {})
      BY <2>2, <2>3, PutGood
    <3> QED
      BY <3>1, NoneGood
  <2>5. Got(a, V, {dir})
    <3> HIDE DEF V
    <3> QED
      BY <2>2, <2>3, IallocGood
  <2> HIDE DEF a
  <2>6. CASE ip = Null
    <3> HIDE DEF V
    <3>1. Good(a, V, {dir})
      BY <2>2, <2>5, <2>6, GotCases
    <3>2. Good(Iput(a, dir), U, {})
      BY <2>2, <3>1, PutGood
    <3>3. Got([Iput(a, dir) EXCEPT !.ip = Null], U, {})
      BY <3>2, NoneGood
    <3> QED
      BY <1>1, <1>4, <2>4, <2>6, <3>3
  <2>7. CASE ip # Null
    <3> HIDE DEF V
    <3>1. ip \in Slots /\ Good(a, V \union {ip}, {dir} \union {ip})
      BY <2>2, <2>5, <2>7, GotCases
    <3> HIDE DEF ip
    <3> DEFINE W == V \union {ip}
    <3>2. W \in SUBSET Slots /\ V \in SUBSET W /\ U \in SUBSET W /\ ip \in W /\ dir \in W
      BY <2>2, <3>1
    <3>3. Good(a, W, {dir, ip})
      <4>1. {dir} \union {ip} = {dir, ip}
        OBVIOUS
      <4> QED
        BY <3>1, <4>1
    <3> HIDE DEF W
    <3>4. Good(one, W, {dir, ip})
      <4>1. 1 \in Nat
        OBVIOUS
      <4> QED
        BY <3>2, <3>3, <4>1, CountGood
    <3> HIDE DEF one
    <3>5. Got([Iput(Iput(one, ip), dir) EXCEPT !.ip = Null], U, {})
      <4>1. {dir, ip} \ {ip} \subseteq {dir}
        OBVIOUS
      <4>2. Good(Iput(one, ip), V, {dir})
        BY <3>2, <3>4, <4>1, PutGood
      <4>3. Good(Iput(Iput(one, ip), dir), U, {})
        BY <2>2, <4>2, PutGood
      <4> QED
        BY <4>3, NoneGood
    <3>6. Got([Iput(done, dir) EXCEPT !.ip = ip], U, {})
      <4>1. Ino(one, ip) \in {0} \union Inodes
        BY <3>2, <3>4, InoType
      <4>2. Good(AddEntry(one, dir, Base(path), Ino(one, ip)), W, {dir, ip})
        BY <3>2, <3>4, <4>1, AddEntryGood
      <4>3. Good(done, W, {dir, ip})
        BY <3>2, <4>2, IupdateGood
      <4> HIDE DEF done
      <4>4. U \union {ip} \in SUBSET W /\ {dir, ip} \ {dir} \subseteq {} \union {ip}
        BY <3>2
      <4>5. Good(Iput(done, dir), U \union {ip}, {} \union {ip})
        BY <3>2, <4>3, <4>4, PutGood
      <4> QED
        BY <3>1, <4>5, GaveGood
    <3> QED
      BY <1>1, <1>4, <2>4, <2>7, <3>5, <3>6
  <2> QED
    BY <2>6, <2>7
<1> QED
  BY <1>3, <1>4

-----------------------------------------------------------------------------
(* The tables: an entry is in use while descriptors name it, and counts    *)
(* them.                                                                   *)
Entries == [ip : Slots \union {Null}, count : Nat]
FdSet(u, k) == {d \in Fds : u[d] = k}
Tables(f, u, w) ==
    /\ f \in [Files -> Entries] /\ u \in [Fds -> {0} \union Files] /\ w \in Slots \union {Null}
    /\ \A k \in Files : f[k].count = Cardinality(FdSet(u, k))
                        /\ (f[k].ip # Null <=> FdSet(u, k) # {})

(* The slots the tables name. *)
Live(f, w) == {s \in Slots : w = s \/ \E k \in Files : f[k].ip = s}

TypeInv ==
    /\ Good(fs, Live(file, cwd), {})
    /\ fs.ip = Null /\ fs.spin = "no"
    /\ \A s \in Slots : fs.slot[s].ref <= MaxRef
    /\ Tables(file, ufd, cwd)
    /\ hung = NoCall \/ hung.op \in Ops
    /\ calls \in 0..MaxCalls

(* The descriptors of an entry can be counted.                             *)
LEMMA FdsFinite ==
    ASSUME NEW u, NEW k
    PROVE  IsFiniteSet(FdSet(u, k)) /\ Cardinality(FdSet(u, k)) \in Nat
<1>1. IsFiniteSet(Fds)
  BY FS_Interval, CallAssumption DEF Fds
<1>2. FdSet(u, k) \subseteq Fds
  BY DEF FdSet
<1>3. IsFiniteSet(FdSet(u, k))
  BY <1>1, <1>2, FS_Subset
<1> QED
  BY <1>3, FS_CardinalityType

(* v has one descriptor more, or one less, for the entry k than u.         *)
Gained(u, v, k) ==
    /\ v \in [Fds -> {0} \union Files]
    /\ Cardinality(FdSet(v, k)) = Cardinality(FdSet(u, k)) + 1
    /\ FdSet(v, k) # {}
    /\ \A j \in Files \ {k} : FdSet(v, j) = FdSet(u, j)
Lost(u, v, k) ==
    /\ v \in [Fds -> {0} \union Files]
    /\ Cardinality(FdSet(v, k)) = Cardinality(FdSet(u, k)) - 1
    /\ \A j \in Files \ {k} : FdSet(v, j) = FdSet(u, j)

(* A descriptor that named nothing names an entry.                         *)
LEMMA FdAdded ==
    ASSUME NEW u \in [Fds -> {0} \union Files], NEW d \in Fds, u[d] = 0, NEW k \in Files,
           NEW v, v = [u EXCEPT ![d] = k]
    PROVE  Gained(u, v, k)
<1>1. k # 0 /\ 0 \notin Files
  BY CallAssumption DEF Files
<1>2. FdSet(v, k) = FdSet(u, k) \union {d} /\ d \notin FdSet(u, k)
  BY <1>1 DEF FdSet
<1>3. \A j \in Files \ {k} : FdSet(v, j) = FdSet(u, j)
  BY <1>1 DEF FdSet
<1>4. Cardinality(FdSet(v, k)) = Cardinality(FdSet(u, k)) + 1
  BY <1>2, FdsFinite, FS_AddElement
<1> QED
  BY <1>2, <1>3, <1>4 DEF Gained

(* A descriptor that named an entry names nothing.                         *)
LEMMA FdRemoved ==
    ASSUME NEW u \in [Fds -> {0} \union Files], NEW d \in Fds, u[d] # 0,
           NEW v, v = [u EXCEPT ![d] = 0]
    PROVE  Lost(u, v, u[d])
<1> DEFINE k == u[d]
<1>1. k \in Files /\ 0 \notin Files
  BY CallAssumption DEF Files
<1>2. FdSet(v, k) = FdSet(u, k) \ {d} /\ d \in FdSet(u, k)
  BY <1>1 DEF FdSet
<1>3. \A j \in Files \ {k} : FdSet(v, j) = FdSet(u, j)
  BY <1>1 DEF FdSet
<1>4. Cardinality(FdSet(v, k)) = Cardinality(FdSet(u, k)) - 1
  BY <1>2, FdsFinite, FS_RemoveElement
<1>5. v \in [Fds -> {0} \union Files]
  OBVIOUS
<1> QED
  BY <1>3, <1>4, <1>5 DEF Lost

(* An entry counts no descriptor if and only if it has none.               *)
LEMMA EmptyCount ==
    ASSUME NEW u, NEW k
    PROVE  Cardinality(FdSet(u, k)) = 0 <=> FdSet(u, k) = {}
BY FdsFinite, FS_EmptySet

(* A free entry takes an inode and gets a descriptor.                      *)
LEMMA TablesOpen ==
    ASSUME NEW f, NEW u, NEW w, Tables(f, u, w), NEW k \in Files, f[k].ip = Null,
           NEW d \in Fds, u[d] = 0, NEW s \in Slots
    PROVE  Tables([f EXCEPT ![k] = [ip |-> s, count |-> 1]], [u EXCEPT ![d] = k], w)
<1> DEFINE g == [f EXCEPT ![k] = [ip |-> s, count |-> 1]]
           v == [u EXCEPT ![d] = k]
<1>1. /\ f \in [Files -> Entries] /\ u \in [Fds -> {0} \union Files] /\ w \in Slots \union {Null}
      /\ \A j \in Files : f[j].count = Cardinality(FdSet(u, j))
                          /\ (f[j].ip # Null <=> FdSet(u, j) # {})
  BY DEF Tables
<1>2. /\ v \in [Fds -> {0} \union Files]
      /\ Cardinality(FdSet(v, k)) = Cardinality(FdSet(u, k)) + 1
      /\ FdSet(v, k) # {}
      /\ \A j \in Files \ {k} : FdSet(v, j) = FdSet(u, j)
  <2> HIDE DEF v
  <2>1. v = [u EXCEPT ![d] = k]
    BY DEF v
  <2>2. u \in [Fds -> {0} \union Files]
    BY <1>1
  <2>3. Gained(u, v, k)
    BY <2>1, <2>2, FdAdded
  <2> QED
    BY <2>3 DEF Gained
<1>3. Cardinality(FdSet(u, k)) = 0
  BY <1>1, EmptyCount
<1>4. s # Null /\ g \in [Files -> Entries]
  BY <1>1, CacheAssumption DEF Entries, Slots
<1>5. g[k].ip = s /\ g[k].count = 1 /\ \A j \in Files \ {k} : g[j] = f[j]
  BY <1>1
<1> HIDE DEF g, v
<1>6. \A j \in Files : g[j].count = Cardinality(FdSet(v, j)) /\ (g[j].ip # Null <=> FdSet(v, j) # {})
  <2> TAKE j \in Files
  <2>1. CASE j = k
    BY <1>2, <1>3, <1>4, <1>5, <2>1
  <2>2. CASE j # k
    BY <1>1, <1>2, <1>5, <2>2
  <2> QED
    BY <2>1, <2>2
<1>7. Tables(g, v, w)
  BY <1>1, <1>2, <1>4, <1>6 DEF Tables
<1> QED
  BY <1>7 DEF g, v

(* An entry in use gets one more descriptor.                               *)
LEMMA TablesDup ==
    ASSUME NEW f, NEW u, NEW w, Tables(f, u, w), NEW k \in Files, f[k].ip # Null,
           NEW d \in Fds, u[d] = 0
    PROVE  Tables([f EXCEPT ![k].count = @ + 1], [u EXCEPT ![d] = k], w)
<1> DEFINE g == [f EXCEPT ![k].count = @ + 1]
           v == [u EXCEPT ![d] = k]
<1>1. /\ f \in [Files -> Entries] /\ u \in [Fds -> {0} \union Files] /\ w \in Slots \union {Null}
      /\ \A j \in Files : f[j].count = Cardinality(FdSet(u, j))
                          /\ (f[j].ip # Null <=> FdSet(u, j) # {})
  BY DEF Tables
<1>2. /\ v \in [Fds -> {0} \union Files]
      /\ Cardinality(FdSet(v, k)) = Cardinality(FdSet(u, k)) + 1
      /\ FdSet(v, k) # {}
      /\ \A j \in Files \ {k} : FdSet(v, j) = FdSet(u, j)
  <2> HIDE DEF v
  <2>1. v = [u EXCEPT ![d] = k]
    BY DEF v
  <2>2. u \in [Fds -> {0} \union Files]
    BY <1>1
  <2>3. Gained(u, v, k)
    BY <2>1, <2>2, FdAdded
  <2> QED
    BY <2>3 DEF Gained
<1>3. g \in [Files -> Entries]
  BY <1>1 DEF Entries
<1>4. g[k].ip = f[k].ip /\ g[k].count = f[k].count + 1 /\ \A j \in Files \ {k} : g[j] = f[j]
  BY <1>1 DEF Entries
<1> HIDE DEF g, v
<1>5. \A j \in Files : g[j].count = Cardinality(FdSet(v, j)) /\ (g[j].ip # Null <=> FdSet(v, j) # {})
  <2> TAKE j \in Files
  <2>1. CASE j = k
    BY <1>1, <1>2, <1>4, <2>1
  <2>2. CASE j # k
    BY <1>1, <1>2, <1>4, <2>2
  <2> QED
    BY <2>1, <2>2
<1>6. Tables(g, v, w)
  BY <1>1, <1>2, <1>3, <1>5 DEF Tables
<1> QED
  BY <1>6 DEF g, v

(* A descriptor goes, and with the last of them the entry.                 *)
Shrunk(f, k) == IF f[k].count > 1 THEN [f EXCEPT ![k].count = @ - 1] ELSE [f EXCEPT ![k] = Closed]

(* A close: the entry counts one less, and the last one frees it.          *)
LEMMA TablesClose ==
    ASSUME NEW f, NEW u, NEW w, Tables(f, u, w), NEW d \in Fds, u[d] # 0
    PROVE  Tables(Shrunk(f, u[d]), [u EXCEPT ![d] = 0], w)
<1> DEFINE k == u[d]
           g == Shrunk(f, k)
           v == [u EXCEPT ![d] = 0]
<1>1. /\ f \in [Files -> Entries] /\ u \in [Fds -> {0} \union Files] /\ w \in Slots \union {Null}
      /\ \A j \in Files : f[j].count = Cardinality(FdSet(u, j))
                          /\ (f[j].ip # Null <=> FdSet(u, j) # {})
  BY DEF Tables
<1>2. k \in Files /\ FdSet(u, k) # {}
  BY <1>1 DEF FdSet
<1>3. /\ v \in [Fds -> {0} \union Files]
      /\ Cardinality(FdSet(v, k)) = Cardinality(FdSet(u, k)) - 1
      /\ \A j \in Files \ {k} : FdSet(v, j) = FdSet(u, j)
  <2> HIDE DEF v
  <2>1. v = [u EXCEPT ![d] = 0]
    BY DEF v
  <2>2. u \in [Fds -> {0} \union Files]
    BY <1>1
  <2>3. Lost(u, v, k)
    BY <2>1, <2>2, FdRemoved
  <2> QED
    BY <2>3 DEF Lost
<1>4. f[k].count \in Nat /\ f[k].count # 0
  BY <1>1, <1>2, EmptyCount DEF Entries
<1>5. g \in [Files -> Entries] /\ \A j \in Files \ {k} : g[j] = f[j]
  BY <1>1, <1>2, <1>4 DEF Shrunk, Entries, Closed
<1>6. /\ f[k].count > 1 => g[k].ip = f[k].ip /\ g[k].count = f[k].count - 1
      /\ f[k].count = 1 => g[k].ip = Null /\ g[k].count = 0
  BY <1>1, <1>2, <1>4 DEF Shrunk, Entries, Closed
<1> HIDE DEF g, v
<1>7. g[k].count = Cardinality(FdSet(v, k)) /\ (g[k].ip # Null <=> FdSet(v, k) # {})
  <2>1. CASE f[k].count > 1
    <3>1. Cardinality(FdSet(v, k)) = f[k].count - 1 /\ f[k].count - 1 # 0
      BY <1>1, <1>2, <1>3, <1>4, <2>1
    <3>2. FdSet(v, k) # {}
      BY <3>1, EmptyCount
    <3> QED
      BY <1>1, <1>2, <1>6, <2>1, <3>1, <3>2
  <2>2. CASE f[k].count = 1
    BY <1>1, <1>2, <1>3, <1>6, <2>2, EmptyCount
  <2> QED
    BY <1>4, <2>1, <2>2
<1>8. \A j \in Files : g[j].count = Cardinality(FdSet(v, j)) /\ (g[j].ip # Null <=> FdSet(v, j) # {})
  <2> TAKE j \in Files
  <2>1. CASE j = k
    BY <1>7, <2>1
  <2>2. CASE j # k
    BY <1>1, <1>3, <1>5, <2>2
  <2> QED
    BY <2>1, <2>2
<1>9. Tables(g, v, w)
  BY <1>1, <1>3, <1>5, <1>8 DEF Tables
<1> QED
  BY <1>9 DEF g, v

(* A set of numbers holds its least one.                                   *)
LEMMA MinIn ==
    ASSUME NEW K \in SUBSET Nat, K # {}
    PROVE  Min(K) \in K
<1>1. \E m \in K : \A k \in K : m <= k
  BY LeastNatural
<1> QED
  BY <1>1 DEF Min

(* What every call starts from.                                            *)
Ready == TypeInv /\ calls' \in 0..MaxCalls

(* What a call finds.                                                      *)
LEMMA ReadyFacts ==
    ASSUME Ready
    PROVE  /\ Good(fs, Live(file, cwd), {}) /\ fs.ip = Null /\ fs.spin = "no"
           /\ Live(file, cwd) \in SUBSET Slots
           /\ Tables(file, ufd, cwd)
           /\ cwd \in Live(file, cwd) \union {Null}
BY DEF Ready, TypeInv, Live, Tables

(* A call that ends with every lock released and the tables in order.      *)
LEMMA ReturnTyped ==
    ASSUME Ready, NEW call, call.op \in Ops, NEW V \in SUBSET Slots, NEW c, Good(c, V, {}),
           NEW f, NEW u, NEW w, Tables(f, u, w), Live(f, w) \subseteq V,
           Return(call, c, f, u, w)
    PROVE  TypeInv'
<1>1. CASE c.spin # "no"
  <2>1. hung' = call /\ UNCHANGED <<fs, file, ufd, cwd>>
    BY <1>1 DEF Return
  <2>2. /\ Good(fs, Live(file, cwd), {})
        /\ fs.ip = Null /\ fs.spin = "no"
        /\ \A s \in Slots : fs.slot[s].ref <= MaxRef
        /\ Tables(file, ufd, cwd)
        /\ calls' \in 0..MaxCalls
    BY DEF Ready, TypeInv
  <2> QED
    BY <2>1, <2>2 DEF TypeInv
<1>2. CASE c.spin = "no"
  <2> DEFINE e == [c EXCEPT !.ip = Null]
  <2>1. /\ fs' = e /\ (\A s \in Slots : fs'.slot[s].ref <= MaxRef)
        /\ file' = f /\ ufd' = u /\ cwd' = w /\ hung' = hung
    BY <1>2 DEF Return
  <2>2. Good(e, V, {})
    BY IpGood
  <2>3. e.ip = Null /\ e.spin = "no"
    BY <1>2 DEF Good, Layer
  <2> HIDE DEF e
  <2>4. Good(e, Live(f, w), {})
    BY <2>2, GoodMono
  <2>5. (hung = NoCall \/ hung.op \in Ops) /\ calls' \in 0..MaxCalls
    BY DEF Ready, TypeInv
  <2> QED
    BY <2>1, <2>3, <2>4, <2>5 DEF TypeInv
<1> QED
  BY <1>1, <1>2

(* The same for a call that leaves the tables alone.                       *)
LEMMA FinishTyped ==
    ASSUME Ready, NEW call, call.op \in Ops, NEW c, Good(c, Live(file, cwd), {}),
           Finish(call, c)
    PROVE  TypeInv'
<1>1. Live(file, cwd) \in SUBSET Slots /\ Tables(file, ufd, cwd)
  BY ReadyFacts
<1> QED
  BY <1>1, ReturnTyped DEF Finish

(* The slots the tables name after an open.                                *)
LEMMA LiveOpen ==
    ASSUME NEW f \in [Files -> Entries], NEW w, NEW k \in Files, NEW s, NEW n
    PROVE  Live([f EXCEPT ![k] = [ip |-> s, count |-> n]], w) \subseteq Live(f, w) \union {s}
BY DEF Live

(* The end of open and creat.                                              *)
LEMMA OpenOnTyped ==
    ASSUME Ready, NEW call, call.op \in Ops, NEW c, Got(c, Live(file, cwd), {}),
           NEW keeps, OpenOn(call, c, keeps)
    PROVE  TypeInv'
<1> DEFINE s == c.ip
           U == Live(file, cwd)
           V == U \union {s}
           held == Unlock(Hold(c, s), s)
           end == IF keeps THEN held ELSE Iput(held, s)
<1>1. U \in SUBSET Slots /\ Tables(file, ufd, cwd) /\ Got(c, U, {})
  BY ReadyFacts
<1>2. CASE s = Null
  <2>1. Finish(call, c)
    BY <1>2 DEF OpenOn
  <2>2. Good(c, U, {})
    <3> HIDE DEF U
    <3> QED
      BY <1>1, <1>2, GotCases
  <2> QED
    BY <2>1, <2>2, FinishTyped
<1>3. CASE s # Null
  <2>1. s \in Slots /\ Good(c, V, {s})
    <3> HIDE DEF U
    <3>1. s \in Slots /\ Good(c, U \union {s}, {} \union {s})
      BY <1>1, <1>3, GotCases
    <3>2. {} \union {s} = {s}
      OBVIOUS
    <3> QED
      BY <3>1, <3>2
  <2>2. V \in SUBSET Slots /\ s \in V /\ U \in SUBSET V /\ {s} \ {s} \subseteq {}
    BY <1>1, <2>1
  <2>3. CASE InUse = Files \/ FreeFds = {}
    <3>1. Finish(call, Iput(c, s))
      BY <1>3, <2>3 DEF OpenOn
    <3>2. Good(Iput(c, s), U, {})
      <4> HIDE DEF U, V, s
      <4> QED
        BY <2>1, <2>2, PutGood
    <3> QED
      BY <3>1, <3>2, FinishTyped
  <2>4. CASE ~(InUse = Files \/ FreeFds = {})
    <3>1. Return(call, end, [file EXCEPT ![NewFile] = [ip |-> s, count |-> 1]],
                 [ufd EXCEPT ![NewFd] = NewFile], cwd)
      BY <1>3, <2>4 DEF OpenOn
    <3>2. Good(end, V, {})
      <4> HIDE DEF V, s
      <4>1. Good(Hold(c, s), V, {s})
        BY <2>1, <2>2, HoldGood
      <4>2. Good(held, V, {s} \ {s})
        BY <2>2, <4>1, UnlockGood
      <4>3. {s} \ {s} = {}
        OBVIOUS
      <4>4. Good(held, V, {})
        BY <4>2, <4>3
      <4> HIDE DEF held
      <4>5. V \in SUBSET V /\ {} \ {s} \subseteq {}
        OBVIOUS
      <4>6. Good(Iput(held, s), V, {})
        BY <2>2, <4>4, <4>5, PutGood
      <4> QED
        BY <4>4, <4>6
    <3>3. NewFile \in Files /\ file[NewFile].ip = Null
      <4> DEFINE K == {f \in Files : file[f].ip = Null}
      <4>1. K # {} /\ K \in SUBSET Nat
        BY <2>4 DEF InUse, Files
      <4> HIDE DEF K
      <4>2. Min(K) \in K
        BY <4>1, MinIn
      <4> QED
        BY <4>2 DEF K, NewFile
    <3>4. NewFd \in Fds /\ ufd[NewFd] = 0
      <4>1. FreeFds # {} /\ FreeFds \in SUBSET Nat
        BY <2>4 DEF FreeFds, Fds
      <4>2. Min(FreeFds) \in FreeFds
        BY <4>1, MinIn
      <4> QED
        BY <4>2 DEF NewFd, FreeFds
    <3> DEFINE k == NewFile
               d == NewFd
               f == [file EXCEPT ![k] = [ip |-> s, count |-> 1]]
               u == [ufd EXCEPT ![d] = k]
    <3>5. Tables(f, u, cwd)
      <4> HIDE DEF k, d, s
      <4> QED
        BY <1>1, <2>1, <3>3, <3>4, TablesOpen DEF k, d
    <3>6. Live(f, cwd) \subseteq V
      <4>1. file \in [Files -> Entries]
        BY <1>1 DEF Tables
      <4> HIDE DEF k, s
      <4> QED
        BY <3>3, <4>1, LiveOpen DEF k
    <3>7. Return(call, end, f, u, cwd)
      BY <3>1
    <3> HIDE DEF end, f, u, V
    <3> QED
      BY <2>2, <3>2, <3>5, <3>6, <3>7, ReturnTyped
  <2> QED
    BY <2>3, <2>4
<1> QED
  BY <1>2, <1>3

(* The paths callers use.                                                  *)
LEMMA PathType ==
    ASSUME NEW p \in Paths
    PROVE  p \in PathSet /\ Parent(p) \in PathSet
BY CallAssumption, ParentType DEF PathSet

(* A path with a last component.                                           *)
LEMMA NamedType ==
    ASSUME NEW p \in Named
    PROVE  p \in Paths /\ p \in PathSet /\ Parent(p) \in PathSet /\ Base(p) \in Names
<1>1. p \in Paths /\ p.at # <<>>
  BY DEF Named
<1>2. p.at \in Seq(Names)
  BY <1>1, PathType DEF PathSet
<1>3. Len(p.at) \in 1..Len(p.at)
  BY <1>1, <1>2, EmptySeq, LenProperties
<1> QED
  BY <1>1, <1>2, <1>3, PathType, ElementOfSeq DEF Base, Last

(* open keeps the invariant.                                               *)
LEMMA OpenTyped ==
    ASSUME Ready, NEW path \in Paths, NEW flag, NEW room, Open(path, flag, room)
    PROVE  TypeInv'
<1> DEFINE U == Live(file, cwd)
           n == Namei(fs, path, cwd)
           s == n.ip
           call == [op |-> "open", new |-> path]
           fits == InUse # Files /\ FreeFds # {}
           cut == [n EXCEPT !.dirs[Ino(n, s)] = NoNames]
<1>1. U \in SUBSET Slots /\ Good(fs, U, {}) /\ cwd \in U \union {Null}
  BY ReadyFacts
<1>2. call.op \in Ops /\ path \in PathSet
  BY PathType DEF Ops
<1>3. \/ s = Null /\ OpenOn(call, CreateNode(n, path, "file", room), TRUE)
      \/ s # Null /\ Finish(call, Iput(n, s))
      \/ s # Null /\ OpenOn(call, cut, TRUE)
      \/ OpenOn(call, n, TRUE)
  BY DEF Open
<1>4. Got(n, U, {})
  <2> HIDE DEF U
  <2> QED
    BY <1>1, <1>2, NameiGood
<1> HIDE DEF call, n
<1>5. CASE s = Null /\ OpenOn(call, CreateNode(n, path, "file", room), TRUE)
  <2>1. Good(n, U, {})
    <3> HIDE DEF U
    <3> QED
      BY <1>1, <1>4, <1>5, GotCases
  <2>2. "file" \in Modes
    BY DEF Modes
  <2>3. Got(CreateNode(n, path, "file", room), U, {})
    <3> HIDE DEF U
    <3> QED
      BY <1>1, <1>2, <2>1, <2>2, CreateNodeGood
  <2> QED
    BY <1>2, <1>5, <2>3, OpenOnTyped
<1>6. CASE s # Null /\ Finish(call, Iput(n, s))
  <2>1. Good(Iput(n, s), U, {})
    <3> HIDE DEF U
    <3>1. s \in Slots /\ Good(n, U \union {s}, {} \union {s})
      BY <1>1, <1>4, <1>6, GotCases
    <3> HIDE DEF s
    <3>2. U \union {s} \in SUBSET Slots /\ s \in U \union {s} /\ U \in SUBSET (U \union {s})
          /\ ({} \union {s}) \ {s} \subseteq {}
      BY <1>1, <3>1
    <3> QED
      BY <3>1, <3>2, PutGood
  <2> QED
    BY <1>2, <1>6, <2>1, FinishTyped
<1>7. CASE s # Null /\ OpenOn(call, cut, TRUE)
  <2>1. Got(cut, U, {})
    <3> HIDE DEF U
    <3>1. s \in Slots /\ Good(n, U \union {s}, {} \union {s})
      BY <1>1, <1>4, <1>7, GotCases
    <3>2. n \in Layer
      BY <3>1 DEF Good
    <3> DEFINE t == [n.dirs EXCEPT ![Ino(n, s)] = NoNames]
    <3>3. t \in Trees
      BY <3>2 DEF Layer, Trees, NoNames
    <3>4. cut = [n EXCEPT !.dirs = t] /\ cut.ip = n.ip
      BY <3>2 DEF Layer
    <3> HIDE DEF t, cut, s
    <3>5. Good(cut, U \union {s}, {} \union {s})
      BY <3>1, <3>3, <3>4, DirsGood
    <3>6. Hand(cut) = {s}
      BY <1>7, <3>4 DEF Hand, s
    <3> QED
      BY <3>5, <3>6 DEF Got
  <2> HIDE DEF cut
  <2> QED
    BY <1>2, <1>7, <2>1, OpenOnTyped
<1>8. CASE OpenOn(call, n, TRUE)
  BY <1>2, <1>4, <1>8, OpenOnTyped
<1> QED
  BY <1>3, <1>5, <1>6, <1>7, <1>8

(* The slot that a call fetched from a state c with no lock held.          *)
LEMMA TakenIs ==
    ASSUME NEW U \in SUBSET Slots, NEW L, NEW c, Got(c, U, L), NEW s, s = c.ip, s # Null
    PROVE  /\ s \in Slots /\ U \union {s} \in SUBSET Slots /\ s \in U \union {s}
           /\ U \in SUBSET (U \union {s}) /\ Good(c, U \union {s}, L \union {s})
<1>1. s \in Slots /\ Good(c, U \union {s}, L \union {s})
  BY GotCases
<1> QED
  BY <1>1

(* It is let go again. *)
LEMMA BackGood ==
    ASSUME NEW U \in SUBSET Slots, NEW L, NEW s \in Slots, NEW c, Good(c, U \union {s}, L \union {s})
    PROVE  Good(Iput(c, s), U, L)
<1> DEFINE V == U \union {s}
           M == L \union {s}
<1>1. V \in SUBSET Slots /\ s \in V /\ U \in SUBSET V /\ M \ {s} \subseteq L
  OBVIOUS
<1>2. Good(c, V, M)
  OBVIOUS
<1> HIDE DEF V, M
<1> QED
  BY <1>1, <1>2, PutGood

(* Nothing is taken, or the slot taken is let go. *)
LEMMA TakeOrLeave ==
    ASSUME NEW U \in SUBSET Slots, NEW L, NEW c, Got(c, U, L)
    PROVE  Good(IF c.ip = Null THEN c ELSE Iput(c, c.ip), U, L)
<1>1. CASE c.ip = Null
  <2>1. Good(c, U, L)
    BY <1>1, GotCases
  <2> QED
    BY <1>1, <2>1
<1>2. CASE c.ip # Null
  <2>1. c.ip \in Slots /\ Good(c, U \union {c.ip}, L \union {c.ip})
    BY <1>2, GotCases
  <2>2. Good(Iput(c, c.ip), U, L)
    BY <2>1, BackGood
  <2> QED
    BY <1>2, <2>2
<1> QED
  BY <1>1, <1>2

(* creat keeps the invariant.                                              *)
LEMMA CreatTyped ==
    ASSUME Ready, NEW path \in Named, NEW room, Creat(path, room)
    PROVE  TypeInv'
<1> DEFINE U == Live(file, cwd)
           n == Namei(fs, path, cwd)
           call == [op |-> "creat", new |-> path]
<1>1. U \in SUBSET Slots /\ Good(fs, U, {}) /\ cwd \in U \union {Null}
  BY ReadyFacts
<1>2. call.op \in Ops
  BY DEF Ops
<1>3. path \in PathSet
  BY NamedType
<1>4. \/ n.ip = Null /\ OpenOn(call, CreateNode(n, path, "file", room), FALSE)
      \/ n.ip # Null /\ Finish(call, Iput(n, n.ip))
      \/ OpenOn(call, n, FALSE)
  BY DEF Creat
<1>5. Got(n, U, {})
  <2> HIDE DEF U
  <2> QED
    BY <1>1, <1>3, NameiGood
<1> HIDE DEF call, n
<1>6. CASE n.ip = Null /\ OpenOn(call, CreateNode(n, path, "file", room), FALSE)
  <2>1. Good(n, U, {})
    <3> HIDE DEF U
    <3> QED
      BY <1>1, <1>5, <1>6, GotCases
  <2>2. "file" \in Modes
    BY DEF Modes
  <2>3. Got(CreateNode(n, path, "file", room), U, {})
    <3> HIDE DEF U
    <3> QED
      BY <1>1, <1>3, <2>1, <2>2, CreateNodeGood
  <2> QED
    BY <1>2, <1>6, <2>3, OpenOnTyped
<1>7. CASE n.ip # Null /\ Finish(call, Iput(n, n.ip))
  <2>1. Good(Iput(n, n.ip), U, {})
    <3> HIDE DEF U
    <3>1. Good(IF n.ip = Null THEN n ELSE Iput(n, n.ip), U, {})
      BY <1>1, <1>5, TakeOrLeave
    <3> QED
      BY <1>7, <3>1
  <2> QED
    BY <1>2, <1>7, <2>1, FinishTyped
<1>8. CASE OpenOn(call, n, FALSE)
  BY <1>2, <1>5, <1>8, OpenOnTyped
<1> QED
  BY <1>4, <1>6, <1>7, <1>8

(* mknod keeps the invariant.                                              *)
LEMMA MknodTyped ==
    ASSUME Ready, NEW path \in Named, NEW room, Mknod(path, room)
    PROVE  TypeInv'
<1> DEFINE U == Live(file, cwd)
           n == CreateNode(fs, path, "file", room)
           call == [op |-> "mknod", new |-> path]
<1>1. U \in SUBSET Slots /\ Good(fs, U, {}) /\ cwd \in U \union {Null}
  BY ReadyFacts
<1>2. path \in PathSet
  BY NamedType
<1>3. "file" \in Modes
  BY DEF Modes
<1>4. call.op \in Ops /\ Finish(call, IF n.ip = Null THEN n ELSE Iput(n, n.ip))
  BY DEF Mknod, Ops
<1> HIDE DEF call
<1>5. Good(IF n.ip = Null THEN n ELSE Iput(n, n.ip), U, {})
  <2> HIDE DEF U
  <2>1. Got(n, U, {})
    BY <1>1, <1>2, <1>3, CreateNodeGood
  <2> QED
    BY <1>1, <2>1, TakeOrLeave
<1> QED
  BY <1>4, <1>5, FinishTyped

(* stat keeps the invariant.                                               *)
LEMMA StatTyped ==
    ASSUME Ready, NEW path \in Paths, Stat(path)
    PROVE  TypeInv'
<1> DEFINE U == Live(file, cwd)
           n == Namei(fs, path, cwd)
           call == [op |-> "stat", new |-> path]
<1>1. U \in SUBSET Slots /\ Good(fs, U, {}) /\ cwd \in U \union {Null}
  BY ReadyFacts
<1>2. path \in PathSet
  BY PathType
<1>3. call.op \in Ops /\ Finish(call, IF n.ip = Null THEN n ELSE Iput(n, n.ip))
  BY DEF Stat, Ops
<1> HIDE DEF call
<1>4. Good(IF n.ip = Null THEN n ELSE Iput(n, n.ip), U, {})
  <2> HIDE DEF U
  <2>1. Got(n, U, {})
    BY <1>1, <1>2, NameiGood
  <2> QED
    BY <1>1, <2>1, TakeOrLeave
<1> QED
  BY <1>3, <1>4, FinishTyped

(* dir_lookup finds an inode number, or 0.                                 *)
LEMMA LookupType ==
    ASSUME NEW U \in SUBSET Slots, NEW L, NEW c, Good(c, U, L), NEW s \in U, NEW n \in Names
    PROVE  Lookup(c, s, n) \in {0} \union Inodes
<1>1. Ino(c, s) \in Inodes /\ c.dirs \in Trees
  BY InoType DEF Good, Layer
<1> QED
  BY <1>1 DEF Lookup, Trees

(* unlink keeps the invariant.                                             *)
LEMMA UnlinkTyped ==
    ASSUME Ready, NEW path \in Named, Unlink(path)
    PROVE  TypeInv'
<1> DEFINE U    == Live(file, cwd)
           d    == Namei(fs, Parent(path), cwd)
           dir  == d.ip
           i    == Lookup(d, dir, Base(path))
           n    == Iget(d, i)
           ip   == n.ip
           gone == Iput(RemoveEntry(n, dir, Base(path)), dir)
           call == [op |-> "unlink", new |-> path]
           end  == IF dir = Null THEN d
                   ELSE IF i = 0 THEN Iput(d, dir)
                   ELSE IF ip = Null THEN Iput(n, dir)
                   ELSE IF IsDir(n, ip) THEN Iput(Iput(n, ip), dir)
                   ELSE Iput(Relink(gone, ip, -1), ip)
<1>1. U \in SUBSET Slots /\ Good(fs, U, {}) /\ cwd \in U \union {Null}
  BY ReadyFacts
<1>2. Parent(path) \in PathSet /\ Base(path) \in Names
  BY NamedType
<1>3. call.op \in Ops /\ Finish(call, end)
  BY IputAllTwo DEF Unlink, Ops
<1> HIDE DEF call
<1>4. Good(end, U, {})
  <2> HIDE DEF U
  <2>1. Got(d, U, {})
    BY <1>1, <1>2, NameiGood
  <2> HIDE DEF d
  <2>2. CASE dir = Null
    <3>1. Good(d, U, {})
      BY <1>1, <2>1, <2>2, GotCases
    <3> QED
      BY <2>2, <3>1
  <2>3. CASE dir # Null
    <3> DEFINE V == U \union {dir}
               M == {} \union {dir}
    <3>1. dir \in Slots /\ V \in SUBSET Slots /\ dir \in V /\ U \in SUBSET V /\ Good(d, V, M)
          /\ M \ {dir} \subseteq {}
      BY <1>1, <2>1, <2>3, TakenIs
    <3> HIDE DEF dir
    <3>2. i \in {0} \union Inodes
      <4> HIDE DEF V, M
      <4> QED
        BY <1>2, <3>1, LookupType
    <3> HIDE DEF i
    <3>3. CASE i = 0
      <4>1. Good(Iput(d, dir), U, {})
        <5> HIDE DEF V, M
        <5> QED
          BY <3>1, PutGood
      <4> QED
        BY <2>3, <3>3, <4>1
    <3>4. CASE i # 0
      <4>1. Got(n, V, M)
        <5> HIDE DEF V, M
        <5>1. i \in Inodes
          BY <3>2, <3>4
        <5> QED
          BY <3>1, <5>1, IgetGood
      <4> HIDE DEF n
      <4>2. CASE ip = Null
        <5>1. Good(Iput(n, dir), U, {})
          <6> HIDE DEF V, M
          <6>1. Good(n, V, M)
            BY <3>1, <4>1, <4>2, GotCases
          <6> QED
            BY <3>1, <6>1, PutGood
        <5> QED
          BY <2>3, <3>4, <4>2, <5>1
      <4>3. CASE ip # Null
        <5> DEFINE W == V \union {ip}
                   N == M \union {ip}
        <5>1. ip \in Slots /\ W \in SUBSET Slots /\ ip \in W /\ V \in SUBSET W /\ Good(n, W, N)
          <6> HIDE DEF V, M
          <6> QED
            BY <3>1, <4>1, <4>3, TakenIs
        <5> HIDE DEF ip
        <5>2. Good(Iput(Iput(n, ip), dir), U, {})
          <6>1. N \ {ip} \subseteq M
            OBVIOUS
          <6> HIDE DEF V, W, M, N
          <6>2. Good(Iput(n, ip), V, M)
            BY <3>1, <5>1, <6>1, PutGood
          <6> QED
            BY <3>1, <6>2, PutGood
        <5>3. Good(Iput(Relink(gone, ip, -1), ip), U, {})
          <6>1. dir \in W /\ W \in SUBSET W /\ U \in SUBSET W /\ N \ {dir} \subseteq {ip} /\ {ip} \ {ip} \subseteq {}
                /\ -1 \in Int
            BY <3>1
          <6> HIDE DEF V, W, M, N
          <6>2. Good(RemoveEntry(n, dir, Base(path)), W, N)
            BY <1>2, <5>1, <6>1, RemoveEntryGood
          <6>3. Good(gone, W, {ip})
            BY <5>1, <6>1, <6>2, PutGood
          <6> HIDE DEF gone
          <6>4. Good(Relink(gone, ip, -1), W, {ip})
            BY <5>1, <6>1, <6>3, RelinkGood
          <6> QED
            BY <5>1, <6>1, <6>4, PutGood
        <5> QED
          BY <2>3, <3>4, <4>3, <5>2, <5>3
      <4> QED
        BY <4>2, <4>3
    <3> QED
      BY <3>3, <3>4
  <2> QED
    BY <2>2, <2>3
<1> QED
  BY <1>3, <1>4, FinishTyped

(* A call may end holding more than the tables name.                       *)
LEMMA FinishFrom ==
    ASSUME Ready, NEW call, call.op \in Ops, NEW V, Live(file, cwd) \subseteq V,
           NEW c, Good(c, V, {}), Finish(call, c)
    PROVE  TypeInv'
<1>1. Good(c, Live(file, cwd), {})
  <2> DEFINE U == Live(file, cwd)
  <2>1. U \in SUBSET V
    OBVIOUS
  <2> HIDE DEF U
  <2>2. Good(c, U, {})
    BY <2>1, GoodMono
  <2> QED
    BY <2>2 DEF U
<1> QED
  BY <1>1, FinishTyped

(* What a descriptor in use leads to: an entry in use and its slot.        *)
LEMMA EntryOf ==
    ASSUME Ready, NEW d \in Fds, ufd[d] # 0
    PROVE  /\ ufd[d] \in Files /\ file[ufd[d]].ip # Null
           /\ file[ufd[d]].ip \in Live(file, cwd)
<1>1. Tables(file, ufd, cwd)
  BY ReadyFacts
<1>2. ufd[d] \in Files /\ d \in FdSet(ufd, ufd[d]) /\ file[ufd[d]] \in Entries
  BY <1>1 DEF Tables, FdSet
<1>3. file[ufd[d]].ip # Null
  BY <1>1, <1>2 DEF Tables
<1> QED
  BY <1>2, <1>3 DEF Entries, Live

(* Fewer descriptors never name more slots.                                *)
LEMMA LiveShrinks ==
    ASSUME NEW f \in [Files -> Entries], NEW k \in Files, NEW w, w \in Slots \union {Null}
    PROVE  Live(Shrunk(f, k), w) \subseteq Live(f, w)
<1> DEFINE g == Shrunk(f, k)
<1>1. \A j \in Files : g[j].ip = f[j].ip \/ g[j].ip = Null
  BY DEF Shrunk, Closed, Entries
<1>2. Null \notin Slots
  BY CacheAssumption DEF Slots
<1> HIDE DEF g
<1>3. Live(g, w) \subseteq Live(f, w)
  BY <1>1, <1>2 DEF Live
<1> QED
  BY <1>3 DEF g

DropGives(d) == /\ Good(Drop(d).c, Live(file, cwd), {})
              /\ Drop(d).file = Shrunk(file, ufd[d])
              /\ Live(Drop(d).file, cwd) \subseteq Live(file, cwd)

(* What a close leaves.                                                    *)
LEMMA DropGood ==
    ASSUME Ready, NEW d \in Fds, ufd[d] # 0
    PROVE  DropGives(d)
<1> DEFINE U == Live(file, cwd)
           k == ufd[d]
           s == file[k].ip
<1>1. U \in SUBSET Slots /\ Good(fs, U, {}) /\ Tables(file, ufd, cwd)
  BY ReadyFacts
<1>2. k \in Files /\ s \in U
  BY EntryOf
<1>3. Drop(d).c = (IF file[k].count > 1 THEN fs ELSE Iput(fs, s)) /\ Drop(d).file = Shrunk(file, k)
  BY DEF Drop, Shrunk
<1>4. Good(Iput(fs, s), U, {})
  <2> HIDE DEF U, s
  <2>1. U \in SUBSET U /\ {} \ {s} \subseteq {}
    OBVIOUS
  <2> QED
    BY <1>1, <1>2, <2>1, PutGood
<1>5. Live(Shrunk(file, k), cwd) \subseteq U
  BY <1>1, <1>2, LiveShrinks DEF Tables
<1> QED
  BY <1>1, <1>3, <1>4, <1>5 DEF DropGives

(* close keeps the invariant.                                              *)
LEMMA CloseTyped ==
    ASSUME Ready, NEW d \in Fds, Close(d)
    PROVE  TypeInv'
<1> DEFINE call == [op |-> "close"]
           u == [ufd EXCEPT ![d] = 0]
           U == Live(file, cwd)
<1>1. ufd[d] # 0 /\ call.op \in Ops /\ Return(call, Drop(d).c, Drop(d).file, u, cwd)
  BY DEF Close, Ops
<1>2. DropGives(d)
  BY <1>1, DropGood
<1>3. Tables(Drop(d).file, u, cwd)
  <2>1. Tables(file, ufd, cwd)
    BY ReadyFacts
  <2>2. Tables(Shrunk(file, ufd[d]), u, cwd)
    BY <1>1, <2>1, TablesClose
  <2> QED
    BY <1>2, <2>2 DEF DropGives
<1>4. U \in SUBSET Slots
  BY ReadyFacts
<1>5. Good(Drop(d).c, U, {}) /\ Live(Drop(d).file, cwd) \subseteq U
  BY <1>2 DEF DropGives
<1> HIDE DEF call, u, U
<1> QED
  BY <1>1, <1>3, <1>4, <1>5, ReturnTyped

(* A count does not change the slots the tables name.                      *)
LEMMA LiveCount ==
    ASSUME NEW f \in [Files -> Entries], NEW k \in Files, NEW w
    PROVE  Live([f EXCEPT ![k].count = @ + 1], w) = Live(f, w)
BY DEF Live, Entries

(* dup keeps the invariant.                                                *)
LEMMA DupTyped ==
    ASSUME Ready, NEW d \in Fds, NEW min \in Fds, Dup(d, min)
    PROVE  TypeInv'
<1> DEFINE call == [op |-> "dup"]
           free == {e \in FreeFds : e >= min}
           e == Min(free)
           k == ufd[d]
           f == [file EXCEPT ![k].count = @ + 1]
           u == [ufd EXCEPT ![e] = k]
           U == Live(file, cwd)
<1>1. k # 0 /\ free # {} /\ call.op \in Ops /\ Return(call, fs, f, u, cwd)
  BY DEF Dup, Ops
<1>2. e \in Fds /\ ufd[e] = 0
  <2>1. free \in SUBSET Nat
    BY DEF FreeFds, Fds
  <2>2. Min(free) \in free
    <3> HIDE DEF free
    <3> QED
      BY <1>1, <2>1, MinIn
  <2> QED
    BY <2>2 DEF FreeFds
<1>3. U \in SUBSET Slots /\ Good(fs, U, {}) /\ Tables(file, ufd, cwd)
  BY ReadyFacts
<1>4. k \in Files /\ file[k].ip # Null
  BY <1>1, EntryOf
<1> HIDE DEF call, e
<1>5. Tables(f, u, cwd)
  <2> HIDE DEF k
  <2> QED
    BY <1>2, <1>3, <1>4, TablesDup
<1>6. Live(f, cwd) \subseteq U
  BY <1>3, <1>4, LiveCount DEF Tables
<1> HIDE DEF f, u, U
<1> QED
  BY <1>1, <1>3, <1>5, <1>6, ReturnTyped

(* dup2 keeps the invariant.                                               *)
LEMMA Dup2Typed ==
    ASSUME Ready, NEW d \in Fds, NEW e \in Fds, Dup2(d, e)
    PROVE  TypeInv'
<1> DEFINE call == [op |-> "dup2"]
           before == IF ufd[e] = 0 THEN [c |-> fs, file |-> file] ELSE Drop(e)
           k == ufd[d]
           g == before.file
           f == [g EXCEPT ![k].count = @ + 1]
           v == [ufd EXCEPT ![e] = 0]
           u == [v EXCEPT ![e] = k]
           U == Live(file, cwd)
<1>1. U \in SUBSET Slots /\ Good(fs, U, {}) /\ Tables(file, ufd, cwd)
  BY ReadyFacts
<1>2. ufd \in [Fds -> {0} \union Files]
  BY <1>1 DEF Tables
<1>3. k # 0 /\ d # e /\ call.op \in Ops /\ Return(call, before.c, f, u, cwd)
  <2>1. u = [ufd EXCEPT ![e] = k]
    BY <1>2
  <2> QED
    BY <2>1 DEF Dup2, Ops
<1>4. k \in Files
  BY <1>3, EntryOf
<1>5. Good(before.c, U, {}) /\ Tables(g, v, cwd) /\ Live(g, cwd) \subseteq U
  <2>1. CASE ufd[e] = 0
    <3>1. v = ufd /\ before.c = fs /\ g = file
      BY <1>2, <2>1
    <3> QED
      BY <1>1, <3>1
  <2>2. CASE ufd[e] # 0
    <3>1. DropGives(e) /\ Tables(Shrunk(file, ufd[e]), v, cwd)
      BY <1>1, <2>2, DropGood, TablesClose
    <3>2. before = Drop(e)
      BY <2>2
    <3> QED
      BY <3>1, <3>2 DEF DropGives
  <2> QED
    BY <2>1, <2>2
<1>6. v[e] = 0 /\ v[d] = k
  BY <1>2, <1>3
<1> HIDE DEF call, before, v, k
<1>7. g[k].ip # Null /\ g \in [Files -> Entries]
  <2>1. d \in FdSet(v, k)
    BY <1>6 DEF FdSet
  <2> QED
    BY <1>4, <1>5, <2>1 DEF Tables
<1>8. Tables(f, u, cwd)
  <2> HIDE DEF g
  <2> QED
    BY <1>4, <1>5, <1>6, <1>7, TablesDup
<1>9. Live(f, cwd) \subseteq U
  <2> HIDE DEF g
  <2> QED
    BY <1>4, <1>5, <1>7, LiveCount
<1> HIDE DEF f, u, U
<1> QED
  BY <1>1, <1>3, <1>5, <1>8, <1>9, ReturnTyped

(* The current directory changes.                                          *)
LEMMA TablesCwd ==
    ASSUME NEW f, NEW u, NEW w, Tables(f, u, w), NEW s \in Slots
    PROVE  Tables(f, u, s) /\ Live(f, s) \subseteq Live(f, w) \union {s}
BY DEF Tables, Live

(* The end of chdir and fchdir: the old directory is released.             *)
LEMMA ChdirEnds ==
    ASSUME Ready, NEW call, call.op \in Ops, NEW s \in Slots, NEW c,
           Good(c, Live(file, cwd) \union {s}, {}),
           Return(call, IF cwd \in {Null, s} THEN c ELSE Iput(c, cwd), file, ufd, s)
    PROVE  TypeInv'
<1> DEFINE V == Live(file, cwd) \union {s}
           end == IF cwd \in {Null, s} THEN c ELSE Iput(c, cwd)
<1>1. V \in SUBSET Slots /\ Tables(file, ufd, cwd) /\ (cwd # Null => cwd \in V)
  BY ReadyFacts
<1>2. Tables(file, ufd, s) /\ Live(file, s) \subseteq V
  BY <1>1, TablesCwd
<1>3. Good(c, V, {}) /\ Return(call, end, file, ufd, s)
  OBVIOUS
<1>4. Good(end, V, {})
  <2> HIDE DEF V
  <2>1. CASE cwd \in {Null, s}
    BY <1>3, <2>1
  <2>2. CASE cwd \notin {Null, s}
    <3>1. V \in SUBSET V /\ {} \ {cwd} \subseteq {} /\ cwd \in V
      BY <1>1, <2>2
    <3>2. Good(Iput(c, cwd), V, {})
      BY <1>1, <1>3, <3>1, PutGood
    <3> QED
      BY <2>2, <3>2
  <2> QED
    BY <2>1, <2>2
<1> HIDE DEF V, end
<1> QED
  BY <1>1, <1>2, <1>3, <1>4, ReturnTyped

(* chdir keeps the invariant.                                              *)
LEMMA ChdirTyped ==
    ASSUME Ready, NEW path \in Paths, Chdir(path)
    PROVE  TypeInv'
<1> DEFINE U == Live(file, cwd)
           n == Namei(fs, path, cwd)
           ip == n.ip
           free == Unlock(n, ip)
           call == [op |-> "chdir", new |-> path]
<1>1. U \in SUBSET Slots /\ Good(fs, U, {}) /\ cwd \in U \union {Null}
  BY ReadyFacts
<1>2. path \in PathSet
  BY PathType
<1>3. Got(n, U, {})
  <2> HIDE DEF U
  <2> QED
    BY <1>1, <1>2, NameiGood
<1>4. /\ call.op \in Ops
      /\ \/ ip = Null /\ Finish(call, n)
         \/ ip # Null /\ Finish(call, Iput(n, ip))
         \/ /\ ip # Null
            /\ Return(call, IF cwd \in {Null, ip} THEN free ELSE Iput(free, cwd), file, ufd, ip)
  BY DEF Chdir, Ops
<1> HIDE DEF call, n
<1>5. Good(IF ip = Null THEN n ELSE Iput(n, ip), U, {})
  <2> HIDE DEF U
  <2> QED
    BY <1>1, <1>3, TakeOrLeave
<1>6. CASE ip = Null /\ Finish(call, n)
  <2>1. Good(n, U, {})
    BY <1>5, <1>6
  <2> QED
    BY <1>4, <1>6, <2>1, FinishTyped
<1>7. CASE ip # Null /\ Finish(call, Iput(n, ip))
  <2>1. Good(Iput(n, ip), U, {})
    BY <1>5, <1>7
  <2> QED
    BY <1>4, <1>7, <2>1, FinishTyped
<1>8. CASE /\ ip # Null
           /\ Return(call, IF cwd \in {Null, ip} THEN free ELSE Iput(free, cwd), file, ufd, ip)
  <2>1. ip \in Slots /\ Good(free, U \union {ip}, {})
    <3> HIDE DEF U
    <3>1. ip \in Slots /\ U \union {ip} \in SUBSET Slots /\ ip \in U \union {ip}
          /\ Good(n, U \union {ip}, {} \union {ip})
      BY <1>1, <1>3, <1>8, TakenIs
    <3> HIDE DEF ip
    <3>2. Good(free, U \union {ip}, ({} \union {ip}) \ {ip})
      BY <3>1, UnlockGood
    <3>3. ({} \union {ip}) \ {ip} = {}
      OBVIOUS
    <3> QED
      BY <3>1, <3>2, <3>3
  <2> HIDE DEF free, ip
  <2> QED
    BY <1>4, <1>8, <2>1, ChdirEnds
<1> QED
  BY <1>4, <1>6, <1>7, <1>8

(* fchdir keeps the invariant.                                             *)
LEMMA FchdirTyped ==
    ASSUME Ready, NEW d \in Fds, Fchdir(d)
    PROVE  TypeInv'
<1> DEFINE U == Live(file, cwd)
           ip == file[ufd[d]].ip
           held == Hold(fs, ip)
           call == [op |-> "fchdir"]
<1>1. U \in SUBSET Slots /\ Good(fs, U, {})
  BY ReadyFacts
<1>2. /\ call.op \in Ops /\ ufd[d] # 0
      /\ Return(call, IF cwd \in {Null, ip} THEN held ELSE Iput(held, cwd), file, ufd, ip)
  BY DEF Fchdir, Ops
<1>3. ip \in U /\ U \union {ip} = U
  BY <1>2, EntryOf
<1> HIDE DEF ip, call
<1>4. Good(held, U, {})
  <2> HIDE DEF U
  <2> QED
    BY <1>1, <1>3, HoldGood
<1>5. Good(held, U \union {ip}, {}) /\ ip \in Slots
  BY <1>1, <1>3, <1>4
<1> HIDE DEF held
<1> QED
  BY <1>2, <1>5, ChdirEnds

(* A call lets go of the slots it holds locked, in turn.                   *)
LEMMA PutOneLeft ==
    ASSUME NEW V \in SUBSET Slots, NEW L, NEW c, NEW p \in V, Good(c, V, L), L \subseteq {p}
    PROVE  Good(Iput(c, p), V, {})
<1>1. V \in SUBSET V /\ L \ {p} \subseteq {}
  OBVIOUS
<1> QED
  BY <1>1, PutGood

(* Two inodes are released.                                                *)
LEMMA PutTwo ==
    ASSUME NEW V \in SUBSET Slots, NEW L, NEW c, NEW p \in V, NEW q \in V,
           Good(c, V, L), L \subseteq {p, q}
    PROVE  Good(IputAll(c, <<p, q>>), V, {})
<1>1. V \in SUBSET V /\ L \ {p} \subseteq {q}
  OBVIOUS
<1>2. Good(Iput(c, p), V, {q})
  BY <1>1, PutGood
<1>3. Good(Iput(Iput(c, p), q), V, {})
  BY <1>2, PutOneLeft
<1> QED
  BY <1>3, IputAllTwo

(* Three inodes are released.                                              *)
LEMMA PutThree ==
    ASSUME NEW V \in SUBSET Slots, NEW L, NEW c, NEW p \in V, NEW q \in V, NEW r \in V,
           Good(c, V, L), L \subseteq {p, q, r}
    PROVE  Good(IputAll(c, <<p, q, r>>), V, {})
<1>1. V \in SUBSET V /\ L \ {p} \subseteq {q, r} /\ {q, r} \ {q} \subseteq {r}
  OBVIOUS
<1>2. Good(Iput(c, p), V, {q, r})
  BY <1>1, PutGood
<1>3. Good(Iput(Iput(c, p), q), V, {r})
  BY <1>1, <1>2, PutGood
<1>4. Good(Iput(Iput(Iput(c, p), q), r), V, {})
  BY <1>3, PutOneLeft
<1> QED
  BY <1>4, IputAllThree

(* Four inodes are released.                                               *)
LEMMA PutFour ==
    ASSUME NEW V \in SUBSET Slots, NEW L, NEW c, NEW p \in V, NEW q \in V, NEW r \in V,
           NEW t \in V, Good(c, V, L), L \subseteq {p, q, r, t}
    PROVE  Good(IputAll(c, <<p, q, r, t>>), V, {})
<1>1. /\ V \in SUBSET V /\ L \ {p} \subseteq {q, r, t}
      /\ {q, r, t} \ {q} \subseteq {r, t} /\ {r, t} \ {r} \subseteq {t}
  OBVIOUS
<1>2. Good(Iput(c, p), V, {q, r, t})
  BY <1>1, PutGood
<1>3. Good(Iput(Iput(c, p), q), V, {r, t})
  BY <1>1, <1>2, PutGood
<1>4. Good(Iput(Iput(Iput(c, p), q), r), V, {t})
  BY <1>1, <1>3, PutGood
<1>5. Good(Iput(Iput(Iput(Iput(c, p), q), r), t), V, {})
  BY <1>4, PutOneLeft
<1> QED
  BY <1>5, IputAllFour

(* A new inode gets its count of links.                                    *)
LEMMA PipeTyped ==
    ASSUME Ready, Pipe
    PROVE  TypeInv'
<1> DEFINE U    == Live(file, cwd)
           a    == Ialloc(fs, "file")
           ip   == a.ip
           one  == [a EXCEPT !.slot[ip].nlink = 1]
           two  == [one EXCEPT !.slot[ip].ref = 2]
           made == Unlock(Iupdate(two, ip), ip)
           K    == {f \in Files : file[f].ip = Null}
           r    == NewFile
           w    == Min(K \ {r})
           rfd  == NewFd
           wfd  == Min(FreeFds \ {rfd})
           e    == [ip |-> ip, count |-> 1]
           f1   == [file EXCEPT ![r] = e]
           f2   == [f1 EXCEPT ![w] = e]
           u1   == [ufd EXCEPT ![rfd] = r]
           u2   == [u1 EXCEPT ![wfd] = w]
           call == [op |-> "pipe"]
<1>1. U \in SUBSET Slots /\ Good(fs, U, {}) /\ Tables(file, ufd, cwd)
  BY ReadyFacts
<1>2. call.op \in Ops
  BY DEF Ops
<1>3. file \in [Files -> Entries] /\ ufd \in [Fds -> {0} \union Files]
  BY <1>1 DEF Tables
<1>4. Got(a, U, {})
  <2>1. "file" \in Modes
    BY DEF Modes
  <2> HIDE DEF U
  <2> QED
    BY <1>1, <2>1, IallocGood
<1>5. \/ ip = Null /\ Finish(call, a)
      \/ ip # Null /\ Finish(call, Iput(one, ip))
      \/ /\ ip # Null /\ Cardinality(Files \ InUse) >= 2 /\ Cardinality(FreeFds) >= 2
         /\ Return(call, made, [f \in Files |-> IF f \in {r, w} THEN e ELSE file[f]],
                   [ufd EXCEPT ![rfd] = r, ![wfd] = w], cwd)
  <2>1. IsFiniteSet(Files) /\ IsFiniteSet(Fds)
    BY FS_Interval, CallAssumption DEF Files, Fds
  <2>2. Files \ InUse \subseteq Files /\ FreeFds \subseteq Fds
    BY DEF FreeFds
  <2>3. Cardinality(Files \ InUse) \in Nat /\ Cardinality(FreeFds) \in Nat
    BY <2>1, <2>2, FS_Subset, FS_CardinalityType
  <2> QED
    BY <2>3 DEF Pipe
<1> HIDE DEF call, a
<1>6. CASE ip = Null /\ Finish(call, a)
  <2>1. Good(a, U, {})
    <3> HIDE DEF U
    <3> QED
      BY <1>1, <1>4, <1>6, GotCases
  <2> QED
    BY <1>2, <1>6, <2>1, FinishTyped
<1>7. CASE ip # Null
  <2> DEFINE V == U \union {ip}
  <2>1. ip \in Slots /\ V \in SUBSET Slots /\ ip \in V /\ U \subseteq V /\ Good(a, V, {ip})
    <3>1. {} \union {ip} = {ip}
      OBVIOUS
    <3> HIDE DEF U
    <3>2. ip \in Slots /\ Good(a, U \union {ip}, {} \union {ip})
      BY <1>1, <1>4, <1>7, TakenIs
    <3> QED
      BY <1>1, <3>1, <3>2
  <2> HIDE DEF ip
  <2>2. Good(one, V, {ip}) /\ Good(two, V, {ip})
    <3> HIDE DEF V
    <3>1. 1 \in Nat /\ 2 \in Nat
      OBVIOUS
    <3>2. Good(one, V, {ip})
      BY <2>1, <3>1, CountGood
    <3> HIDE DEF one
    <3> QED
      BY <2>1, <3>1, <3>2, CountGood
  <2> HIDE DEF one, two
  <2>3. CASE Finish(call, Iput(one, ip))
    <3>1. Good(Iput(one, ip), V, {})
      <4> HIDE DEF V
      <4> QED
        BY <2>1, <2>2, PutOneLeft
    <3> HIDE DEF V
    <3> QED
      BY <1>2, <2>1, <2>3, <3>1, FinishFrom
  <2>4. CASE /\ Cardinality(Files \ InUse) >= 2 /\ Cardinality(FreeFds) >= 2
             /\ Return(call, made, [f \in Files |-> IF f \in {r, w} THEN e ELSE file[f]],
                       [ufd EXCEPT ![rfd] = r, ![wfd] = w], cwd)
    <3>1. Good(made, V, {})
      <4> HIDE DEF V
      <4>1. Good(Iupdate(two, ip), V, {ip})
        BY <2>1, <2>2, IupdateGood
      <4>2. Good(made, V, {ip} \ {ip}) /\ {ip} \ {ip} = {}
        BY <2>1, <4>1, UnlockGood
      <4> QED
        BY <4>2
    <3>2. r \in Files /\ w \in Files /\ r # w /\ file[r].ip = Null /\ file[w].ip = Null
      <4>1. K = Files \ InUse /\ K \in SUBSET Nat /\ IsFiniteSet(K)
        <5>1. IsFiniteSet(Files) /\ Files \subseteq Nat
          BY FS_Interval, CallAssumption DEF Files
        <5>2. K \subseteq Files /\ K = Files \ InUse
          BY DEF InUse
        <5>3. IsFiniteSet(K)
          BY <5>1, <5>2, FS_Subset
        <5> HIDE DEF K
        <5> QED
          BY <5>1, <5>2, <5>3
      <4> HIDE DEF K
      <4>2. Cardinality(K) >= 2 /\ K # {}
        BY <2>4, <4>1, FS_EmptySet
      <4>3. r \in K
        BY <4>1, <4>2, MinIn DEF NewFile, K
      <4>4. Cardinality(K \ {r}) = Cardinality(K) - 1 /\ IsFiniteSet(K \ {r})
        BY <4>1, <4>3, FS_RemoveElement
      <4>5. K \ {r} # {}
        <5>1. Cardinality(K) \in Nat
          BY <4>1, FS_CardinalityType
        <5> QED
          BY <4>2, <4>4, <5>1, FS_EmptySet
      <4>6. w \in K \ {r}
        <5> HIDE DEF r
        <5>1. K \ {r} \in SUBSET Nat
          BY <4>1
        <5> QED
          BY <4>5, <5>1, MinIn
      <4> QED
        BY <4>3, <4>6 DEF K
    <3>3. rfd \in Fds /\ wfd \in Fds /\ rfd # wfd /\ ufd[rfd] = 0 /\ ufd[wfd] = 0
      <4> DEFINE D == FreeFds
      <4>1. D \in SUBSET Nat /\ IsFiniteSet(D)
        <5>1. IsFiniteSet(Fds) /\ Fds \subseteq Nat
          BY FS_Interval, CallAssumption DEF Fds
        <5>2. D \subseteq Fds
          BY DEF FreeFds
        <5>3. IsFiniteSet(D)
          BY <5>1, <5>2, FS_Subset
        <5> HIDE DEF D
        <5> QED
          BY <5>1, <5>2, <5>3
      <4> HIDE DEF D
      <4>2. Cardinality(D) >= 2 /\ D # {}
        BY <2>4, <4>1, FS_EmptySet DEF D
      <4>3. rfd \in D
        BY <4>1, <4>2, MinIn DEF NewFd, D
      <4>4. Cardinality(D \ {rfd}) = Cardinality(D) - 1 /\ IsFiniteSet(D \ {rfd})
        BY <4>1, <4>3, FS_RemoveElement
      <4>5. D \ {rfd} # {}
        <5>1. Cardinality(D) \in Nat
          BY <4>1, FS_CardinalityType
        <5> QED
          BY <4>2, <4>4, <5>1, FS_EmptySet
      <4>6. wfd \in D \ {rfd}
        <5> HIDE DEF rfd
        <5>1. D \ {rfd} \in SUBSET Nat
          BY <4>1
        <5>2. Min(D \ {rfd}) \in D \ {rfd}
          BY <4>5, <5>1, MinIn
        <5> QED
          BY <5>2 DEF D
      <4> QED
        BY <4>3, <4>6 DEF D, FreeFds
    <3> HIDE DEF r, w, rfd, wfd, made
    <3>4. [f \in Files |-> IF f \in {r, w} THEN e ELSE file[f]] = f2
      <4> HIDE DEF e
      <4> QED
        BY <1>3, <3>2
    <3>5. [ufd EXCEPT ![rfd] = r, ![wfd] = w] = u2
      OBVIOUS
    <3>6. Tables(f1, u1, cwd)
      BY <1>1, <2>1, <3>2, <3>3, TablesOpen
    <3>7. f1[w].ip = Null /\ u1[wfd] = 0 /\ f1 \in [Files -> Entries]
      BY <1>3, <3>2, <3>3, <3>6 DEF Tables
    <3>8. Live(f1, cwd) \subseteq V
      BY <1>3, <3>2, LiveOpen
    <3> HIDE DEF f1, u1
    <3>9. Tables(f2, u2, cwd)
      BY <2>1, <3>2, <3>3, <3>6, <3>7, TablesOpen
    <3>10. Live(f2, cwd) \subseteq V
      <4>1. Live(f2, cwd) \subseteq Live(f1, cwd) \union {ip}
        BY <3>2, <3>7, LiveOpen
      <4> QED
        BY <2>1, <3>8, <4>1
    <3>11. Return(call, made, f2, u2, cwd)
      BY <2>4, <3>4, <3>5
    <3> HIDE DEF f2, u2, V
    <3> QED
      BY <1>2, <2>1, <3>1, <3>9, <3>10, <3>11, ReturnTyped
  <2> QED
    BY <1>5, <1>7, <2>3, <2>4 DEF ip
<1> QED
  BY <1>5, <1>6, <1>7

(* The counts of a new directory and its parent.                           *)
LEMMA CountDirGood ==
    ASSUME NEW V \in SUBSET Slots, NEW L, NEW c, NEW dir \in V, NEW ip \in V, Good(c, V, L)
    PROVE  Good(CountDir(c, dir, ip), V, L)
<1> DEFINE x == Relink(c, dir, 1)
           y == [x EXCEPT !.slot[ip].nlink = 2]
<1>1. 1 \in Int /\ 2 \in Nat
  OBVIOUS
<1>2. Good(x, V, L)
  BY <1>1, RelinkGood
<1> HIDE DEF x
<1>3. Good(y, V, L)
  BY <1>1, <1>2, CountGood
<1>4. CountDir(c, dir, ip) = Iupdate(y, ip)
  BY DEF CountDir, x
<1> HIDE DEF y
<1> QED
  BY <1>3, <1>4, IupdateGood

(* mkdir keeps the invariant.                                              *)
LEMMA MkdirTyped ==
    ASSUME Ready, NEW path \in Named, NEW room, NEW block, Mkdir(path, room, block)
    PROVE  TypeInv'
<1> DEFINE U    == Live(file, cwd)
           d    == Namei(fs, Parent(path), cwd)
           dir  == d.ip
           a    == Ialloc(d, "dir")
           ip   == a.ip
           made == AddEntry(a, dir, Base(path), Ino(a, ip))
           two  == CountDir(made, dir, ip)
           call == [op |-> "mkdir", new |-> path]
<1>1. U \in SUBSET Slots /\ Good(fs, U, {}) /\ cwd \in U \union {Null}
  BY ReadyFacts
<1>2. Parent(path) \in PathSet /\ Base(path) \in Names
  BY NamedType
<1>3. call.op \in Ops
  BY DEF Ops
<1>4. \/ dir = Null /\ Finish(call, d)
      \/ dir # Null /\ Finish(call, Iput(d, dir))
      \/ dir # Null /\ ip = Null /\ Finish(call, Iput(a, dir))
      \/ /\ dir # Null /\ ip # Null
         /\ \/ Finish(call, IputAll(a, <<ip, dir>>))
            \/ Finish(call, IputAll(RemoveEntry(made, dir, Base(path)), <<ip, dir>>))
            \/ Finish(call, IputAll(two, <<dir, ip>>))
  BY DEF Mkdir
<1>5. Got(d, U, {})
  <2> HIDE DEF U
  <2> QED
    BY <1>1, <1>2, NameiGood
<1> HIDE DEF call, d
<1>6. CASE dir = Null /\ Finish(call, d)
  <2>1. Good(d, U, {})
    <3> HIDE DEF U
    <3> QED
      BY <1>1, <1>5, <1>6, GotCases
  <2> QED
    BY <1>3, <1>6, <2>1, FinishTyped
<1>7. CASE dir # Null
  <2> DEFINE V == U \union {dir}
  <2>1. dir \in Slots /\ V \in SUBSET Slots /\ dir \in V /\ U \subseteq V /\ Good(d, V, {dir})
    <3>1. {} \union {dir} = {dir}
      OBVIOUS
    <3> HIDE DEF U
    <3>2. dir \in Slots /\ Good(d, U \union {dir}, {} \union {dir})
      BY <1>1, <1>5, <1>7, TakenIs
    <3> QED
      BY <1>1, <3>1, <3>2
  <2> HIDE DEF dir, V
  <2>2. CASE Finish(call, Iput(d, dir))
    <3>1. Good(Iput(d, dir), V, {})
      BY <2>1, PutOneLeft
    <3> QED
      BY <1>3, <2>1, <2>2, <3>1, FinishFrom
  <2>3. Got(a, V, {dir})
    <3>1. "dir" \in Modes
      BY DEF Modes
    <3> QED
      BY <2>1, <3>1, IallocGood
  <2> HIDE DEF a
  <2>4. CASE ip = Null /\ Finish(call, Iput(a, dir))
    <3>1. Good(a, V, {dir})
      BY <2>1, <2>3, <2>4, GotCases
    <3>2. Good(Iput(a, dir), V, {})
      BY <2>1, <3>1, PutOneLeft
    <3> QED
      BY <1>3, <2>1, <2>4, <3>2, FinishFrom
  <2>5. CASE ip # Null
    <3> DEFINE W == V \union {ip}
               L == {dir} \union {ip}
    <3>1. ip \in Slots /\ W \in SUBSET Slots /\ ip \in W /\ V \in SUBSET W /\ Good(a, W, L)
      BY <2>1, <2>3, <2>5, TakenIs
    <3>2. dir \in W /\ Live(file, cwd) \subseteq W /\ L \subseteq {ip, dir} /\ L \subseteq {dir, ip}
      BY <2>1, <3>1
    <3> HIDE DEF W, L, ip
    <3>3. Good(IputAll(a, <<ip, dir>>), W, {})
      BY <3>1, <3>2, PutTwo
    <3>4. Good(made, W, L)
      <4>1. Ino(a, ip) \in {0} \union Inodes
        BY <3>1, InoType
      <4> QED
        BY <3>1, <3>2, <4>1, AddEntryGood
    <3> HIDE DEF made
    <3>5. Good(IputAll(RemoveEntry(made, dir, Base(path)), <<ip, dir>>), W, {})
      <4>1. Good(RemoveEntry(made, dir, Base(path)), W, L)
        BY <3>1, <3>2, <3>4, RemoveEntryGood
      <4> QED
        BY <3>1, <3>2, <4>1, PutTwo
    <3>6. Good(IputAll(two, <<dir, ip>>), W, {})
      <4>1. Good(two, W, L)
        BY <3>1, <3>2, <3>4, CountDirGood
      <4> HIDE DEF two
      <4> QED
        BY <3>1, <3>2, <4>1, PutTwo
    <3>7. CASE Finish(call, IputAll(a, <<ip, dir>>))
      BY <1>3, <3>2, <3>3, <3>7, FinishFrom
    <3>8. CASE Finish(call, IputAll(RemoveEntry(made, dir, Base(path)), <<ip, dir>>))
      BY <1>3, <3>2, <3>5, <3>8, FinishFrom
    <3>9. CASE Finish(call, IputAll(two, <<dir, ip>>))
      <4> HIDE DEF two
      <4> QED
        BY <1>3, <3>2, <3>6, <3>9, FinishFrom
    <3> QED
      BY <1>4, <1>7, <2>2, <2>4, <2>5, <3>7, <3>8, <3>9 DEF dir, ip, made
  <2> QED
    BY <1>4, <1>7, <2>2, <2>4, <2>5 DEF dir
<1> QED
  BY <1>4, <1>6, <1>7

(* link keeps the invariant, with its undo paths.                          *)
LEMMA LinkTyped ==
    ASSUME Ready, NEW old \in Named, NEW new \in Named, NEW room, Link(old, new, room)
    PROVE  TypeInv'
<1> DEFINE U    == Live(file, cwd)
           n    == Namei(fs, old, cwd)
           ip   == n.ip
           more == Unlock(Relink(n, ip, 1), ip)
           d    == Namei(more, Parent(new), cwd)
           dir  == d.ip
           on   == AddEntry(d, dir, Base(new), Ino(d, ip))
           undo(c) == Iput(Relink(c, ip, -1), ip)
           call == [op |-> "link", old |-> old, new |-> new]
<1>1. U \in SUBSET Slots /\ Good(fs, U, {}) /\ cwd \in U \union {Null}
  BY ReadyFacts
<1>2. old \in PathSet /\ Parent(new) \in PathSet /\ Base(new) \in Names
  BY NamedType
<1>3. call.op \in Ops /\ 1 \in Int /\ -1 \in Int
  BY DEF Ops
<1>4. \/ ip = Null /\ Finish(call, n)
      \/ ip # Null /\ Finish(call, Iput(n, ip))
      \/ ip # Null /\ dir = Null /\ Finish(call, undo(d))
      \/ ip # Null /\ dir # Null /\ Finish(call, undo(Iput(d, dir)))
      \/ ip # Null /\ dir # Null /\ Finish(call, IputAll(on, <<dir, ip>>))
  BY DEF Link
<1>5. Got(n, U, {})
  <2> HIDE DEF U
  <2> QED
    BY <1>1, <1>2, NameiGood
<1> HIDE DEF call, n
<1>6. CASE ip = Null /\ Finish(call, n)
  <2>1. Good(n, U, {})
    <3> HIDE DEF U
    <3> QED
      BY <1>1, <1>5, <1>6, GotCases
  <2> QED
    BY <1>3, <1>6, <2>1, FinishTyped
<1>7. CASE ip # Null
  <2> DEFINE V == U \union {ip}
  <2>1. /\ ip \in Slots /\ V \in SUBSET Slots /\ ip \in V /\ U \subseteq V /\ Good(n, V, {ip})
        /\ cwd \in V \union {Null}
    <3>1. {} \union {ip} = {ip}
      OBVIOUS
    <3> HIDE DEF U
    <3>2. ip \in Slots /\ Good(n, U \union {ip}, {} \union {ip})
      BY <1>1, <1>5, <1>7, TakenIs
    <3> QED
      BY <1>1, <3>1, <3>2
  <2> HIDE DEF ip, V
  <2>2. CASE Finish(call, Iput(n, ip))
    <3>1. Good(Iput(n, ip), V, {})
      BY <2>1, PutOneLeft
    <3> QED
      BY <1>3, <2>1, <2>2, <3>1, FinishFrom
  <2>3. Good(more, V, {})
    <3>1. Good(Relink(n, ip, 1), V, {ip})
      BY <1>3, <2>1, RelinkGood
    <3>2. Good(more, V, {ip} \ {ip}) /\ {ip} \ {ip} = {}
      BY <2>1, <3>1, UnlockGood
    <3> QED
      BY <3>2
  <2> HIDE DEF more
  <2>4. Got(d, V, {})
    BY <1>2, <2>1, <2>3, NameiGood
  <2>5. ASSUME NEW c, Good(c, V, {})
        PROVE  Good(undo(c), V, {})
    <3>1. Good(Relink(c, ip, -1), V, {}) /\ {} \subseteq {ip}
      BY <1>3, <2>1, <2>5, RelinkGood
    <3> QED
      BY <2>1, <3>1, PutOneLeft
  <2> HIDE DEF undo, d
  <2>6. CASE dir = Null /\ Finish(call, undo(d))
    <3>1. Good(d, V, {})
      BY <2>1, <2>4, <2>6, GotCases
    <3>2. Good(undo(d), V, {})
      BY <2>5, <3>1
    <3> QED
      BY <1>3, <2>1, <2>6, <3>2, FinishFrom
  <2>7. CASE dir # Null
    <3> DEFINE W == V \union {dir}
               L == {} \union {dir}
    <3>1. dir \in Slots /\ W \in SUBSET Slots /\ dir \in W /\ V \in SUBSET W /\ Good(d, W, L)
      BY <2>1, <2>4, <2>7, TakenIs
    <3>2. ip \in W /\ Live(file, cwd) \subseteq W /\ L \subseteq {dir} /\ L \subseteq {dir, ip}
      BY <2>1, <3>1
    <3> HIDE DEF W, L, dir
    <3>3. CASE Finish(call, undo(Iput(d, dir)))
      <4>1. Good(Iput(d, dir), W, {})
        BY <3>1, <3>2, PutOneLeft
      <4>2. {} \in SUBSET {} /\ {} \subseteq {}
        OBVIOUS
      <4>3. Good(Iput(d, dir), V, {})
        BY <3>1, <4>1, <4>2, GoodMono
      <4>4. Good(undo(Iput(d, dir)), V, {})
        BY <2>5, <4>3
      <4> QED
        BY <1>3, <2>1, <3>3, <4>4, FinishFrom
    <3>4. CASE Finish(call, IputAll(on, <<dir, ip>>))
      <4>1. Ino(d, ip) \in {0} \union Inodes
        BY <3>1, <3>2, InoType
      <4>2. Good(on, W, L)
        BY <3>1, <3>2, <4>1, AddEntryGood
      <4> HIDE DEF on
      <4>3. Good(IputAll(on, <<dir, ip>>), W, {})
        BY <3>1, <3>2, <4>2, PutTwo
      <4> QED
        BY <1>3, <3>2, <3>4, <4>3, FinishFrom
    <3> QED
      BY <1>4, <1>7, <2>2, <2>7, <3>3, <3>4 DEF dir, ip
  <2> QED
    BY <1>4, <1>7, <2>2, <2>6, <2>7 DEF ip
<1> QED
  BY <1>4, <1>6, <1>7

(* rmdir keeps the invariant.                                              *)
LEMMA RmdirTyped ==
    ASSUME Ready, NEW path \in Named, Rmdir(path)
    PROVE  TypeInv'
<1> DEFINE U    == Live(file, cwd)
           n    == Namei(fs, path, cwd)
           ip   == n.ip
           d    == Namei(n, Parent(path), cwd)
           dir  == d.ip
           off  == Relink(RemoveEntry(d, dir, Base(path)), dir, -1)
           gone == [off EXCEPT !.dirs[Ino(d, ip)] = NoNames, !.slot[ip].nlink = 0]
           dead == Iupdate(gone, ip)
           call == [op |-> "rmdir", new |-> path]
<1>1. U \in SUBSET Slots /\ Good(fs, U, {}) /\ cwd \in U \union {Null}
  BY ReadyFacts
<1>2. path \in PathSet /\ Parent(path) \in PathSet
  BY NamedType
<1>3. call.op \in Ops /\ -1 \in Int /\ 0 \in Nat
  BY DEF Ops
<1>4. \/ ip = Null /\ Finish(call, n)
      \/ ip # Null /\ Finish(call, Iput(n, ip))
      \/ ip # Null /\ dir = Null /\ Finish(call, Iput(d, ip))
      \/ ip # Null /\ dir # Null /\ Finish(call, IputAll(d, <<dir, ip>>))
      \/ ip # Null /\ dir # Null /\ Finish(call, IputAll(Unlock(dead, ip), <<dir, ip>>))
  BY DEF Rmdir
<1>5. Got(n, U, {})
  <2> HIDE DEF U
  <2> QED
    BY <1>1, <1>2, NameiGood
<1> HIDE DEF call, n
<1>6. CASE ip = Null /\ Finish(call, n)
  <2>1. Good(n, U, {})
    <3> HIDE DEF U
    <3> QED
      BY <1>1, <1>5, <1>6, GotCases
  <2> QED
    BY <1>3, <1>6, <2>1, FinishTyped
<1>7. CASE ip # Null
  <2> DEFINE V == U \union {ip}
  <2>1. /\ ip \in Slots /\ V \in SUBSET Slots /\ ip \in V /\ U \subseteq V /\ Good(n, V, {ip})
        /\ cwd \in V \union {Null}
    <3>1. {} \union {ip} = {ip}
      OBVIOUS
    <3> HIDE DEF U
    <3>2. ip \in Slots /\ Good(n, U \union {ip}, {} \union {ip})
      BY <1>1, <1>5, <1>7, TakenIs
    <3> QED
      BY <1>1, <3>1, <3>2
  <2> HIDE DEF ip, V
  <2>2. CASE Finish(call, Iput(n, ip))
    <3>1. Good(Iput(n, ip), V, {})
      BY <2>1, PutOneLeft
    <3> QED
      BY <1>3, <2>1, <2>2, <3>1, FinishFrom
  <2>3. Got(d, V, {ip})
    BY <1>2, <2>1, NameiGood
  <2> HIDE DEF d
  <2>4. CASE dir = Null /\ Finish(call, Iput(d, ip))
    <3>1. Good(d, V, {ip})
      BY <2>1, <2>3, <2>4, GotCases
    <3>2. Good(Iput(d, ip), V, {})
      BY <2>1, <3>1, PutOneLeft
    <3> QED
      BY <1>3, <2>1, <2>4, <3>2, FinishFrom
  <2>5. CASE dir # Null
    <3> DEFINE W == V \union {dir}
               L == {ip} \union {dir}
    <3>1. dir \in Slots /\ W \in SUBSET Slots /\ dir \in W /\ V \in SUBSET W /\ Good(d, W, L)
      BY <2>1, <2>3, <2>5, TakenIs
    <3>2. ip \in W /\ Live(file, cwd) \subseteq W /\ L \subseteq {dir, ip} /\ L \ {ip} \subseteq {dir, ip}
      BY <2>1, <3>1
    <3> HIDE DEF W, L, dir
    <3>3. CASE Finish(call, IputAll(d, <<dir, ip>>))
      <4>1. Good(IputAll(d, <<dir, ip>>), W, {})
        BY <3>1, <3>2, PutTwo
      <4> QED
        BY <1>3, <3>2, <3>3, <4>1, FinishFrom
    <3>4. CASE Finish(call, IputAll(Unlock(dead, ip), <<dir, ip>>))
      <4>1. Good(off, W, L)
        <5>1. Good(RemoveEntry(d, dir, Base(path)), W, L)
          BY <3>1, <3>2, RemoveEntryGood
        <5> QED
          BY <1>3, <3>1, <5>1, RelinkGood
      <4> HIDE DEF off
      <4> DEFINE t == [off.dirs EXCEPT ![Ino(d, ip)] = NoNames]
                 bare == [off EXCEPT !.dirs = t]
      <4>2. t \in Trees
        <5>1. off.dirs \in Trees
          BY <4>1 DEF Good, Layer
        <5>2. NoNames \in [Names -> {0} \union Inodes]
          BY DEF NoNames
        <5>3. Ino(d, ip) \in Inodes
          BY <3>1, <3>2, InoType
        <5> QED
          BY <5>1, <5>2, <5>3 DEF Trees
      <4>3. gone = [bare EXCEPT !.slot[ip].nlink = 0]
        <5> HIDE DEF t
        <5>1. off \in Layer
          BY <4>1 DEF Good
        <5>2. gone = [off EXCEPT !.dirs = t, !.slot[ip].nlink = 0]
          BY <5>1 DEF t, Layer
        <5> HIDE DEF gone
        <5> QED
          BY <5>1, <5>2 DEF Layer
      <4> HIDE DEF t
      <4>4. Good(bare, W, L)
        BY <4>1, <4>2, DirsGood
      <4> HIDE DEF bare
      <4>5. Good(gone, W, L)
        BY <1>3, <3>1, <3>2, <4>3, <4>4, CountGood
      <4> HIDE DEF gone
      <4>6. Good(dead, W, L)
        BY <3>1, <3>2, <4>5, IupdateGood
      <4> HIDE DEF dead
      <4>7. Good(Unlock(dead, ip), W, L \ {ip})
        BY <3>1, <3>2, <4>6, UnlockGood
      <4>8. Good(IputAll(Unlock(dead, ip), <<dir, ip>>), W, {})
        BY <3>1, <3>2, <4>7, PutTwo
      <4> QED
        BY <1>3, <3>2, <3>4, <4>8, FinishFrom
    <3> QED
      BY <1>4, <1>7, <2>2, <2>5, <3>3, <3>4 DEF dir, ip
  <2> QED
    BY <1>4, <1>7, <2>2, <2>4, <2>5 DEF ip
<1> QED
  BY <1>4, <1>6, <1>7

(* The second half of rename releases all it holds.                        *)
LEMMA MoveGood ==
    ASSUME NEW W \in SUBSET Slots, NEW L, NEW c, NEW oip \in W, NEW odir \in W, NEW ndir \in W,
           NEW nip \in W \union {Null}, Good(c, W, L), L \subseteq {ndir, odir, oip, nip},
           nip = Null => L \subseteq {ndir, odir, oip},
           NEW old, NEW new, NEW room
    PROVE  Good(Move(c, oip, odir, ndir, nip, old, new, room), W, {})
<1> DEFINE held    == <<ndir, odir, oip>>
           M       == {ndir, odir, oip}
           cleared == IF nip = Null THEN c
                      ELSE Iput(Relink(RemoveEntry(c, ndir, Base(new)), nip, -1), nip)
           off     == RemoveEntry(cleared, odir, Base(old))
           on      == AddEntry(off, ndir, Base(new), Ino(c, oip))
           counted == IF IsDir(c, oip) /\ odir # ndir
                      THEN Relink(Relink(on, odir, -1), ndir, 1)
                      ELSE on
           back    == AddEntry(off, odir, Base(old), Ino(c, oip))
<1>1. \/ Move(c, oip, odir, ndir, nip, old, new, room) = IputAll(cleared, held)
      \/ Move(c, oip, odir, ndir, nip, old, new, room) = IputAll(back, held)
      \/ Move(c, oip, odir, ndir, nip, old, new, room) = IputAll(Iupdate(counted, oip), held)
  BY DEF Move
<1>2. 1 \in Int /\ -1 \in Int /\ M \subseteq {ndir, odir, oip} /\ W \in SUBSET W
  OBVIOUS
<1>3. Ino(c, oip) \in {0} \union Inodes
  BY InoType
<1> HIDE DEF M
<1>4. Good(cleared, W, M)
  <2>1. CASE nip = Null
    <3>1. L \subseteq M
      BY <2>1 DEF M
    <3> QED
      BY <1>2, <2>1, <3>1, GoodMono
  <2>2. CASE nip # Null
    <3>1. nip \in W /\ L \ {nip} \subseteq M
      BY <2>2 DEF M
    <3>2. Good(RemoveEntry(c, ndir, Base(new)), W, L)
      BY RemoveEntryGood
    <3>3. Good(Relink(RemoveEntry(c, ndir, Base(new)), nip, -1), W, L)
      BY <1>2, <3>1, <3>2, RelinkGood
    <3>4. Good(Iput(Relink(RemoveEntry(c, ndir, Base(new)), nip, -1), nip), W, M)
      BY <1>2, <3>1, <3>3, PutGood
    <3> QED
      BY <2>2, <3>4
  <2> QED
    BY <2>1, <2>2
<1> HIDE DEF cleared
<1>5. Good(off, W, M)
  BY <1>4, RemoveEntryGood
<1> HIDE DEF off
<1>6. Good(on, W, M) /\ Good(back, W, M)
  BY <1>3, <1>5, AddEntryGood
<1> HIDE DEF on, back
<1>7. Good(counted, W, M)
  <2>1. Good(Relink(on, odir, -1), W, M)
    BY <1>2, <1>6, RelinkGood
  <2>2. Good(Relink(Relink(on, odir, -1), ndir, 1), W, M)
    BY <1>2, <2>1, RelinkGood
  <2> QED
    BY <1>6, <2>2
<1> HIDE DEF counted
<1>8. Good(Iupdate(counted, oip), W, M)
  BY <1>7, IupdateGood
<1>9. \A e : Good(e, W, M) => Good(IputAll(e, held), W, {})
  BY <1>2, PutThree
<1> HIDE DEF held
<1> QED
  BY <1>1, <1>4, <1>6, <1>8, <1>9

(* rename keeps the invariant, on every early return.                      *)
LEMMA RenameTyped ==
    ASSUME Ready, NEW old \in Named, NEW new \in Named, NEW room, Rename(old, new, room)
    PROVE  TypeInv'
<1> DEFINE U    == Live(file, cwd)
           o    == Namei(fs, old, cwd)
           oip  == o.ip
           p    == Namei(o, Parent(old), cwd)
           odir == p.ip
           q    == Namei(p, Parent(new), cwd)
           ndir == q.ip
           i    == Lookup(q, ndir, Base(new))
           n    == IF i = 0 THEN [q EXCEPT !.ip = Null] ELSE Iget(q, i)
           nip  == n.ip
           back == IputAll(n, <<ndir, odir, oip>>)
           call == [op |-> "rename", old |-> old, new |-> new]
<1>1. U \in SUBSET Slots /\ Good(fs, U, {}) /\ cwd \in U \union {Null}
  BY ReadyFacts
<1>2. old \in PathSet /\ Parent(old) \in PathSet /\ Parent(new) \in PathSet /\ Base(new) \in Names
  BY NamedType
<1>3. call.op \in Ops
  BY DEF Ops
<1>4. \/ oip = Null /\ Finish(call, o)
      \/ oip # Null /\ odir = Null /\ Finish(call, Iput(p, oip))
      \/ oip # Null /\ odir # Null /\ ndir = Null /\ Finish(call, IputAll(q, <<odir, oip>>))
      \/ /\ oip # Null /\ odir # Null /\ ndir # Null
         /\ \/ Finish(call, IputAll(q, <<ndir, odir, oip>>))
            \/ nip = Null /\ Finish(call, back)
            \/ nip # Null /\ Finish(call, IputAll(n, <<nip, ndir, odir, oip>>))
            \/ Finish(call, Move(n, oip, odir, ndir, nip, old, new, room))
  BY DEF Rename
<1>5. Got(o, U, {})
  <2> HIDE DEF U
  <2> QED
    BY <1>1, <1>2, NameiGood
<1> HIDE DEF call, o
<1>6. CASE oip = Null /\ Finish(call, o)
  <2>1. Good(o, U, {})
    <3> HIDE DEF U
    <3> QED
      BY <1>1, <1>5, <1>6, GotCases
  <2> QED
    BY <1>3, <1>6, <2>1, FinishTyped
<1>7. CASE oip # Null
  <2> DEFINE V1 == U \union {oip}
             L1 == {} \union {oip}
  <2>1. /\ oip \in Slots /\ V1 \in SUBSET Slots /\ oip \in V1 /\ U \subseteq V1 /\ Good(o, V1, L1)
        /\ cwd \in V1 \union {Null}
    <3> HIDE DEF U
    <3>1. oip \in Slots /\ Good(o, U \union {oip}, {} \union {oip})
      BY <1>1, <1>5, <1>7, TakenIs
    <3> QED
      BY <1>1, <3>1
  <2>2. L1 \subseteq {oip}
    OBVIOUS
  <2> HIDE DEF oip, V1, L1
  <2>3. Got(p, V1, L1)
    BY <1>2, <2>1, NameiGood
  <2> HIDE DEF p
  <2>4. CASE odir = Null /\ Finish(call, Iput(p, oip))
    <3>1. Good(p, V1, L1)
      BY <2>1, <2>3, <2>4, GotCases
    <3>2. Good(Iput(p, oip), V1, {})
      BY <2>1, <2>2, <3>1, PutOneLeft
    <3> QED
      BY <1>3, <2>1, <2>4, <3>2, FinishFrom
  <2>5. CASE odir # Null
    <3> DEFINE V2 == V1 \union {odir}
               L2 == L1 \union {odir}
    <3>1. odir \in Slots /\ V2 \in SUBSET Slots /\ odir \in V2 /\ V1 \in SUBSET V2 /\ Good(p, V2, L2)
      BY <2>1, <2>3, <2>5, TakenIs
    <3>2. oip \in V2 /\ Live(file, cwd) \subseteq V2 /\ cwd \in V2 \union {Null} /\ L2 \subseteq {odir, oip}
      BY <2>1, <2>2, <3>1
    <3> HIDE DEF odir, V2, L2
    <3>3. Got(q, V2, L2)
      BY <1>2, <3>1, <3>2, NameiGood
    <3> HIDE DEF q
    <3>4. CASE ndir = Null /\ Finish(call, IputAll(q, <<odir, oip>>))
      <4>1. Good(q, V2, L2)
        BY <3>1, <3>3, <3>4, GotCases
      <4>2. Good(IputAll(q, <<odir, oip>>), V2, {})
        BY <3>1, <3>2, <4>1, PutTwo
      <4> QED
        BY <1>3, <3>2, <3>4, <4>2, FinishFrom
    <3>5. CASE ndir # Null
      <4> DEFINE V3 == V2 \union {ndir}
                 L3 == L2 \union {ndir}
      <4>1. ndir \in Slots /\ V3 \in SUBSET Slots /\ ndir \in V3 /\ V2 \in SUBSET V3 /\ Good(q, V3, L3)
        BY <3>1, <3>3, <3>5, TakenIs
      <4>2. /\ oip \in V3 /\ odir \in V3 /\ Live(file, cwd) \subseteq V3
            /\ L3 \subseteq {ndir, odir, oip}
        BY <3>1, <3>2, <4>1
      <4> HIDE DEF ndir, V3, L3
      <4>3. CASE Finish(call, IputAll(q, <<ndir, odir, oip>>))
        <5>1. Good(IputAll(q, <<ndir, odir, oip>>), V3, {})
          BY <4>1, <4>2, PutThree
        <5> QED
          BY <1>3, <4>2, <4>3, <5>1, FinishFrom
      <4>4. i \in {0} \union Inodes
        BY <1>2, <4>1, LookupType
      <4> HIDE DEF i
      <4>5. Got(n, V3, L3)
        <5>1. Got([q EXCEPT !.ip = Null], V3, L3)
          BY <4>1, NoneGood
        <5>2. i # 0 => Got(Iget(q, i), V3, L3)
          BY <4>1, <4>4, IgetGood
        <5> QED
          BY <5>1, <5>2
      <4> HIDE DEF n
      <4>6. CASE nip = Null
        <5>1. Good(n, V3, L3)
          BY <4>1, <4>5, <4>6, GotCases
        <5>2. nip \in V3 \union {Null} /\ L3 \subseteq {ndir, odir, oip, nip}
          BY <4>2, <4>6
        <5> HIDE DEF nip
        <5>3. CASE Finish(call, back)
          <6>1. Good(back, V3, {})
            BY <4>1, <4>2, <5>1, PutThree
          <6> QED
            BY <1>3, <4>2, <5>3, <6>1, FinishFrom
        <5>4. CASE Finish(call, Move(n, oip, odir, ndir, nip, old, new, room))
          <6>1. Good(Move(n, oip, odir, ndir, nip, old, new, room), V3, {})
            BY <4>1, <4>2, <5>1, <5>2, MoveGood
          <6> QED
            BY <1>3, <4>2, <5>4, <6>1, FinishFrom
        <5> QED
          BY <1>4, <1>7, <2>5, <3>5, <4>3, <4>6, <5>3, <5>4 DEF oip, odir, ndir, nip
      <4>7. CASE nip # Null
        <5> DEFINE V4 == V3 \union {nip}
                   L4 == L3 \union {nip}
        <5>1. nip \in Slots /\ V4 \in SUBSET Slots /\ nip \in V4 /\ V3 \in SUBSET V4 /\ Good(n, V4, L4)
          BY <4>1, <4>5, <4>7, TakenIs
        <5>2. /\ oip \in V4 /\ odir \in V4 /\ ndir \in V4 /\ Live(file, cwd) \subseteq V4
              /\ L4 \subseteq {nip, ndir, odir, oip} /\ L4 \subseteq {ndir, odir, oip, nip}
              /\ nip \in V4 \union {Null}
          BY <4>1, <4>2, <5>1
        <5> HIDE DEF nip, V4, L4
        <5>3. CASE Finish(call, IputAll(n, <<nip, ndir, odir, oip>>))
          <6>1. Good(IputAll(n, <<nip, ndir, odir, oip>>), V4, {})
            BY <5>1, <5>2, PutFour
          <6> QED
            BY <1>3, <5>2, <5>3, <6>1, FinishFrom
        <5>4. CASE Finish(call, Move(n, oip, odir, ndir, nip, old, new, room))
          <6>1. Good(Move(n, oip, odir, ndir, nip, old, new, room), V4, {})
            BY <4>7, <5>1, <5>2, MoveGood
          <6> QED
            BY <1>3, <5>2, <5>4, <6>1, FinishFrom
        <5> QED
          BY <1>4, <1>7, <2>5, <3>5, <4>3, <4>7, <5>3, <5>4 DEF oip, odir, ndir, nip
      <4> QED
        BY <4>6, <4>7
    <3> QED
      BY <1>4, <1>7, <2>5, <3>4, <3>5 DEF oip, odir, ndir
  <2> QED
    BY <1>4, <1>7, <2>4, <2>5 DEF oip, odir
<1> QED
  BY <1>4, <1>6, <1>7

(* The tables at boot.                                                     *)
LEMMA InitTyped == Init => TypeInv
<1> SUFFICES ASSUME Init PROVE TypeInv
  OBVIOUS
<1> DEFINE slot == [s \in Slots |-> Unused]
           list == [k \in Slots |-> k]
<1>1. /\ fs = Rec(slot, list, Image.disk, Image.dirs, <<>>, 1, Null, "no")
      /\ file = [f \in Files |-> Closed] /\ ufd = [d \in Fds |-> 0] /\ cwd = Null
      /\ hung = NoCall /\ calls = 0
  BY DEF Init, Rec
<1>2. slot \in Slotted /\ \A s \in Slots : slot[s].ref = 0 /\ ~slot[s].locked
  BY DEF Slotted, Slot, Unused, Modes
<1>3. list \in Seq(Slots)
  <2>1. MAX_INCACHE \in Nat
    BY CacheAssumption
  <2> QED
    BY <2>1, IsASeq DEF Slots
<1>4. /\ Image.disk \in Disks /\ Image.dirs \in Trees /\ <<>> \in Seq(Inodes) /\ 1 \in Inodes
      /\ Len(<<>>) <= SB_FREE_INODE_MAX /\ Null \in Slots \union {Null} /\ "no" \in Spins
  BY CallAssumption, CacheAssumption, EmptySeq DEF Disks, Info, Trees, Inodes, Spins
<1>5. Live(file, cwd) = {}
  BY <1>1, CacheAssumption DEF Live, Closed, Slots
<1>6. Sound(slot, <<>>, "no", {}, {})
  BY <1>2, <1>4 DEF Sound
<1> HIDE DEF slot, list
<1>7. Good(fs, {}, {})
  BY <1>1, <1>2, <1>3, <1>4, <1>6, RecGood
<1>8. fs.slot = slot /\ fs.ip = Null /\ fs.spin = "no"
  BY <1>1 DEF Rec
<1>9. \A s \in Slots : fs.slot[s].ref <= MaxRef
  BY <1>2, <1>8, CallAssumption
<1>10. Tables(file, ufd, cwd)
  <2>1. /\ file \in [Files -> Entries] /\ ufd \in [Fds -> {0} \union Files]
        /\ cwd \in Slots \union {Null}
    BY <1>1 DEF Entries, Closed
  <2>2. \A k \in Files : file[k].count = 0 /\ file[k].ip = Null /\ FdSet(ufd, k) = {}
    BY <1>1 DEF Closed, FdSet, Files
  <2> QED
    BY <2>1, <2>2, EmptyCount DEF Tables
<1>11. hung = NoCall /\ calls \in 0..MaxCalls
  BY <1>1, CallAssumption
<1>12. Good(fs, Live(file, cwd), {})
  BY <1>5, <1>7
<1> QED
  BY <1>8, <1>9, <1>10, <1>11, <1>12 DEF TypeInv

(* Every call keeps the invariant.                                         *)
LEMMA NextTyped == TypeInv /\ [Next]_vars => TypeInv'
<1> SUFFICES ASSUME TypeInv, [Next]_vars PROVE TypeInv'
  OBVIOUS
<1>1. CASE UNCHANGED vars
  BY <1>1 DEF vars, TypeInv
<1>2. CASE Next
  <2>1. Ready
    BY <1>2, CallAssumption DEF Next, Ready, TypeInv
  <2>2. CASE NameCall
    <3>1. PICK p \in Named :
            \/ \E room \in BOOLEAN :
                  \/ Creat(p, room)
                  \/ Mknod(p, room)
                  \/ \E q \in Named : Link(q, p, room) \/ Rename(q, p, room)
                  \/ \E block \in BOOLEAN : Mkdir(p, room, block)
            \/ Unlink(p)
            \/ Rmdir(p)
      BY <2>2 DEF NameCall
    <3> QED
      BY <2>1, <3>1, CreatTyped, MknodTyped, LinkTyped, RenameTyped, MkdirTyped, UnlinkTyped,
         RmdirTyped
  <2>3. CASE PathCall
    <3>1. PICK p \in Paths :
            \/ \E flag \in {"plain", "trunc"} : Open(p, flag, TRUE)
            \/ \E flag \in {"creat", "excl"}, room \in BOOLEAN : Open(p, flag, room)
            \/ Chdir(p)
            \/ Stat(p)
      BY <2>3 DEF PathCall
    <3> QED
      BY <2>1, <3>1, OpenTyped, ChdirTyped, StatTyped
  <2>4. CASE FdCall
    <3>1. CASE Pipe
      BY <2>1, <3>1, PipeTyped
    <3>2. CASE \E d \in Fds : Close(d) \/ Fchdir(d) \/ \E e \in Fds : Dup(d, e) \/ Dup2(d, e)
      BY <2>1, <3>2, CloseTyped, FchdirTyped, DupTyped, Dup2Typed
    <3> QED
      BY <2>4, <3>1, <3>2 DEF FdCall
  <2> QED
    BY <1>2, <2>2, <2>3, <2>4 DEF Next
<1> QED
  BY <1>1, <1>2

(* The invariant of the layer and the tables.                              *)
LEMMA TypeInvAlways == Spec => []TypeInv
BY InitTyped, NextTyped, PTL DEF Spec

(* What the invariant says of the properties.                              *)
LEMMA TypeInvMeans == TypeInv => TypeOK /\ LocksReleased /\ DescriptorsCounted
<1> SUFFICES ASSUME TypeInv PROVE TypeOK /\ LocksReleased /\ DescriptorsCounted
  OBVIOUS
<1>1. /\ Good(fs, Live(file, cwd), {}) /\ fs.ip = Null /\ fs.spin = "no"
      /\ \A s \in Slots : fs.slot[s].ref <= MaxRef
      /\ Tables(file, ufd, cwd)
  BY DEF TypeInv
<1>2. fs \in Layer /\ Typed(fs)
  BY <1>1, GoodFields
<1>3. LocksReleased
  BY <1>1 DEF Good, LocksReleased
<1>4. DescriptorsCounted
  BY <1>1 DEF Tables, FdSet, FdsOf, DescriptorsCounted, InUse
<1>5. TypeOK
  <2> DEFINE S == [ino : {0} \union Inodes, ref : 0..MaxRef, locked : BOOLEAN,
                   mode : Modes, nlink : Nat]
  <2>1. \A s \in Slots : fs.slot[s] \in Slot
    BY <1>2 DEF Typed, Slotted
  <2>2. \A s \in Slots : fs.slot[s].ref \in 0..MaxRef
    BY <1>1, <2>1, CallAssumption DEF Slot
  <2>3. \A s \in Slots : fs.slot[s] \in S
    BY <2>1, <2>2 DEF Slot
  <2>4. fs.slot \in [Slots -> S]
    BY <1>2, <2>3 DEF Typed, Slotted
  <2> HIDE DEF S
  <2>5. fs \in [slot : [Slots -> S], list : Seq(Slots), disk : [Inodes -> [mode : Modes, nlink : Nat]],
                dirs : [Inodes -> [Names -> {0} \union Inodes]],
                win : Seq(Inodes), seen : Inodes, ip : {Null}, spin : {"no"}]
    BY <1>1, <1>2, <2>4 DEF Layer, Disks, Info, Trees
  <2>6. Len(fs.win) <= SB_FREE_INODE_MAX /\ (hung = NoCall \/ hung.op \in Ops) /\ calls \in 0..MaxCalls
    BY <1>1 DEF TypeInv, Good
  <2>7. /\ file \in [Files -> [ip : Slots \union {Null}, count : Nat]]
        /\ ufd \in [Fds -> {0} \union Files] /\ cwd \in Slots \union {Null}
    BY <1>1 DEF Tables, Entries
  <2> QED
    BY <2>5, <2>6, <2>7 DEF TypeOK, S
<1> QED
  BY <1>3, <1>4, <1>5

(* Every structure keeps its type: the window stays within its size, no    *)
(* call returns with a spinning layer.                                     *)
THEOREM TypeCorrect == Spec => []TypeOK
BY TypeInvAlways, TypeInvMeans, PTL

(* No call leaves an inode locked, on any of its early returns and undo    *)
(* paths, whatever the paths, the image and the sizes of the tables.       *)
THEOREM LocksAlwaysReleased == Spec => []LocksReleased
BY TypeInvAlways, TypeInvMeans, PTL

(* A file table entry counts its descriptors, and is in use while it has   *)
(* one, over open, creat, pipe, dup, dup2 and close in any order.          *)
THEOREM DescriptorsAlwaysCounted == Spec => []DescriptorsCounted
BY TypeInvAlways, TypeInvMeans, PTL
=============================================================================
