-------------------------- MODULE FileNames_proofs --------------------------
(***************************************************************************)
(* Proofs about FileCalls, for paths from the root and a volume in order:  *)
(* the cache is exact and fresh, what is open is held, whatever a name     *)
(* leads to exists, subdirectories are counted, and the calls implement    *)
(* FileRules.                                                              *)
(*                                                                         *)
(* The invariant is FsInv: TypeInv, and the books of the layer. The books, *)
(* Book(c, D, t, O, P, X), say of a state c of the layer that              *)
(*   - its disk D and its directories t are a volume in order (Volume),    *)
(*     where the inodes in X have a link to spare beside their names';     *)
(*   - the free list holds the slots without references, no inode is in two*)
(*     slots, a slot agrees with the disk about an inode that has not gone,*)
(*     and the window offers only inodes that have gone and that nobody    *)
(*     holds (Kept);                                                       *)
(*   - slot s has at least P[s] references, those that are accounted for,  *)
(*     and while there is one it holds the inode O[s], which has not gone. *)
(* Between calls X is empty, O is what the slots hold and P counts the file*)
(* table and the current directory (Pins). Within a call each routine of   *)
(* InodeCache takes D, t, O, P and X to others: iget adds a reference to P,*)
(* iput takes one, writing an entry or a count changes t or D and moves the*)
(* inode in or out of X. Every path of a call ends with X empty and in P at*)
(* least what the tables hold (Ends, Retabled), and has changed the names  *)
(* in one of the ways that FileRules allows (NamesStep, Rules!FdsChange).  *)
(*                                                                         *)
(* A relative path of one name is looked up in the current directory, but  *)
(* the entry is changed in the root (scfs_table.c:280): what is said about *)
(* names is false then, and the theorems assume that no path is relative.  *)
(***************************************************************************)
EXTENDS FileCalls_proofs

-----------------------------------------------------------------------------
(* Counting names. *)
NameCount(t, i) == Cardinality(NamesIn(t, i))
DirCount(D, t, d) == Cardinality(DirsIn(D, t, d))

(* The names of an inode and the subdirectories of a directory can be      *)
(* counted.                                                                *)
LEMMA CountsAreNat ==
    ASSUME NEW D, NEW t, NEW i
    PROVE  /\ IsFiniteSet(NamesIn(t, i)) /\ NameCount(t, i) \in Nat
           /\ NameCount(t, i) = 0 <=> NamesIn(t, i) = {}
           /\ IsFiniteSet(DirsIn(D, t, i)) /\ DirCount(D, t, i) \in Nat
           /\ DirCount(D, t, i) = 0 <=> DirsIn(D, t, i) = {}
<1>1. IsFiniteSet(Inodes) /\ IsFiniteSet(Names)
  <2>1. MaxIno \in Int /\ IsFiniteSet(Names)
    BY CacheAssumption
  <2> QED
    BY <2>1, FS_Interval DEF Inodes
<1>2. IsFiniteSet(Inodes \X Names)
  BY <1>1, FS_Product
<1>3. NamesIn(t, i) \in SUBSET (Inodes \X Names) /\ DirsIn(D, t, i) \in SUBSET Names
  BY DEF NamesIn, DirsIn
<1>4. IsFiniteSet(NamesIn(t, i)) /\ IsFiniteSet(DirsIn(D, t, i))
  BY <1>1, <1>2, <1>3, FS_Subset
<1> QED
  BY <1>4, FS_CardinalityType, FS_EmptySet DEF NameCount, DirCount

(* t2 is t with a name more. *)
Entered(t, t2, d, n, i) ==
    /\ t \in Trees /\ t2 \in Trees /\ d \in Inodes /\ n \in Names /\ i \in Inodes
    /\ t[d][n] = 0 /\ t2 = [t EXCEPT ![d][n] = i]

(* A name more is counted.                                                 *)
LEMMA EnteredNames ==
    ASSUME NEW t, NEW t2, NEW d, NEW n, NEW i, Entered(t, t2, d, n, i)
    PROVE  /\ NameCount(t2, i) = NameCount(t, i) + 1
           /\ \A j \in Inodes \ {i} : NamesIn(t2, j) = NamesIn(t, j) /\ NameCount(t2, j) = NameCount(t, j)
           /\ NamesIn(t2, i) # {} /\ t2[d] # NoNames /\ t2[d][n] = i
           /\ \A e \in Inodes \ {d} : t2[e] = t[e]
<1>1. /\ t \in Trees /\ t2 \in Trees /\ d \in Inodes /\ n \in Names /\ i \in Inodes
      /\ t[d][n] = 0 /\ t2 = [t EXCEPT ![d][n] = i] /\ i # 0
  BY CacheAssumption DEF Entered, Inodes
<1>2. \A e \in Inodes, m \in Names : t2[e][m] = IF e = d /\ m = n THEN i ELSE t[e][m]
  BY <1>1 DEF Trees
<1>3. ASSUME NEW j \in Inodes
      PROVE  NamesIn(t2, j) = IF j = i THEN NamesIn(t, j) \union {<<d, n>>} ELSE NamesIn(t, j)
  <2>1. j # 0
    BY CacheAssumption DEF Inodes
  <2>2. ASSUME NEW x \in Inodes \X Names
        PROVE  t2[x[1]][x[2]] = IF x = <<d, n>> THEN i ELSE t[x[1]][x[2]]
    <3>1. x[1] \in Inodes /\ x[2] \in Names /\ x = <<x[1], x[2]>>
      OBVIOUS
    <3> QED
      BY <1>2, <3>1
  <2>3. <<d, n>> \in Inodes \X Names /\ t[<<d, n>>[1]][<<d, n>>[2]] = 0
    BY <1>1
  <2> QED
    BY <2>1, <2>2, <2>3 DEF NamesIn
<1>4. <<d, n>> \notin NamesIn(t, i)
  BY <1>1 DEF NamesIn
<1>5. NameCount(t2, i) = NameCount(t, i) + 1
  <2>1. NamesIn(t2, i) = NamesIn(t, i) \union {<<d, n>>}
    BY <1>1, <1>3
  <2> QED
    BY <1>4, <2>1, CountsAreNat, FS_AddElement DEF NameCount
<1>6. t2[d] # NoNames /\ t2[d][n] = i
  BY <1>1, <1>2 DEF NoNames
<1>7. \A e \in Inodes \ {d} : t2[e] = t[e]
  BY <1>1 DEF Trees
<1> QED
  BY <1>1, <1>3, <1>5, <1>6, <1>7 DEF NameCount

(* A directory with a name more has a subdirectory more if it is that of a *)
(* directory.                                                              *)
LEMMA EnteredDirs ==
    ASSUME NEW t, NEW t2, NEW d, NEW n, NEW i, Entered(t, t2, d, n, i), NEW D
    PROVE  /\ DirCount(D, t2, d) = DirCount(D, t, d) + (IF D[i].mode = "dir" THEN 1 ELSE 0)
           /\ \A e \in Inodes \ {d} : DirCount(D, t2, e) = DirCount(D, t, e)
<1>1. /\ t \in Trees /\ t2 \in Trees /\ d \in Inodes /\ n \in Names /\ i \in Inodes
      /\ t[d][n] = 0 /\ t2 = [t EXCEPT ![d][n] = i] /\ i # 0
  BY CacheAssumption DEF Entered, Inodes
<1>2. \A m \in Names : t2[d][m] = IF m = n THEN i ELSE t[d][m]
  BY <1>1 DEF Trees
<1>3. DirsIn(D, t2, d) = IF D[i].mode = "dir" THEN DirsIn(D, t, d) \union {n} ELSE DirsIn(D, t, d)
  BY <1>1, <1>2 DEF DirsIn
<1>4. n \notin DirsIn(D, t, d)
  BY <1>1 DEF DirsIn
<1>5. DirCount(D, t2, d) = DirCount(D, t, d) + (IF D[i].mode = "dir" THEN 1 ELSE 0)
  <2>1. IsFiniteSet(DirsIn(D, t, d)) /\ Cardinality(DirsIn(D, t, d)) \in Nat
    BY CountsAreNat DEF DirCount
  <2>2. CASE D[i].mode = "dir"
    BY <1>3, <1>4, <2>1, <2>2, FS_AddElement DEF DirCount
  <2>3. CASE D[i].mode # "dir"
    BY <1>3, <2>1, <2>3 DEF DirCount
  <2> QED
    BY <2>2, <2>3
<1>6. \A e \in Inodes \ {d} : DirCount(D, t2, e) = DirCount(D, t, e)
  <2>1. \A e \in Inodes \ {d} : t2[e] = t[e]
    BY <1>1 DEF Trees
  <2> QED
    BY <2>1 DEF DirCount, DirsIn
<1> QED
  BY <1>5, <1>6

(* Clearing a name undoes entering it.                                     *)
LEMMA ClearedEntered ==
    ASSUME NEW t \in Trees, NEW d \in Inodes, NEW n \in Names, NEW i \in Inodes, t[d][n] = i
    PROVE  Entered([t EXCEPT ![d][n] = 0], t, d, n, i)
BY DEF Entered, Trees

(* The counts depend on the modes of the inodes alone.                     *)
LEMMA DirsByMode ==
    ASSUME NEW t \in Trees, NEW D, NEW D2, NEW d \in Inodes,
           \A j \in Inodes : NamesIn(t, j) # {} => D2[j].mode = D[j].mode
    PROVE  DirsIn(D2, t, d) = DirsIn(D, t, d) /\ DirCount(D2, t, d) = DirCount(D, t, d)
<1>1. ASSUME NEW n \in Names, t[d][n] # 0
      PROVE  D2[t[d][n]].mode = D[t[d][n]].mode
  <2>1. t[d][n] \in Inodes /\ <<d, n>> \in NamesIn(t, t[d][n])
    BY <1>1 DEF Trees, NamesIn
  <2> QED
    BY <2>1
<1> QED
  BY <1>1 DEF DirCount, DirsIn

(* A directory without names leaves every count where it was or below.     *)
LEMMA EmptiedCounts ==
    ASSUME NEW t \in Trees, NEW D, NEW d \in Inodes
    PROVE  /\ [t EXCEPT ![d] = NoNames] \in Trees
           /\ \A j \in Inodes : /\ NamesIn([t EXCEPT ![d] = NoNames], j) \subseteq NamesIn(t, j)
                                /\ NameCount([t EXCEPT ![d] = NoNames], j) <= NameCount(t, j)
           /\ \A e \in Inodes : DirCount(D, [t EXCEPT ![d] = NoNames], e) <= DirCount(D, t, e)
<1> DEFINE t2 == [t EXCEPT ![d] = NoNames]
<1>1. t2 \in Trees
  BY DEF Trees, NoNames
<1>2. \A e \in Inodes, m \in Names : t2[e][m] = IF e = d THEN 0 ELSE t[e][m]
  BY DEF Trees, NoNames
<1> HIDE DEF t2
<1>3. ASSUME NEW j \in Inodes
      PROVE  NamesIn(t2, j) \subseteq NamesIn(t, j) /\ NameCount(t2, j) <= NameCount(t, j)
  <2>1. NamesIn(t2, j) \subseteq NamesIn(t, j)
    <3>1. j # 0
      BY CacheAssumption DEF Inodes
    <3>2. ASSUME NEW x \in NamesIn(t2, j)
          PROVE  x \in NamesIn(t, j)
      <4>1. x \in Inodes \X Names /\ t2[x[1]][x[2]] = j
        BY DEF NamesIn
      <4>2. x[1] \in Inodes /\ x[2] \in Names
        BY <4>1
      <4>3. t[x[1]][x[2]] = j
        BY <1>2, <3>1, <4>1, <4>2
      <4> QED
        BY <4>1, <4>3 DEF NamesIn
    <3> QED
      BY <3>2
  <2> QED
    BY <2>1, CountsAreNat, FS_Subset DEF NameCount
<1>4. ASSUME NEW e \in Inodes
      PROVE  DirCount(D, t2, e) <= DirCount(D, t, e)
  <2>1. DirsIn(D, t2, e) \subseteq DirsIn(D, t, e)
    BY <1>2 DEF DirsIn
  <2> QED
    BY <2>1, CountsAreNat, FS_Subset DEF DirCount
<1>5. /\ t2 \in Trees
      /\ \A j \in Inodes : NamesIn(t2, j) \subseteq NamesIn(t, j) /\ NameCount(t2, j) <= NameCount(t, j)
      /\ \A e \in Inodes : DirCount(D, t2, e) <= DirCount(D, t, e)
  BY <1>1, <1>3, <1>4
<1> QED
  BY <1>5 DEF t2

-----------------------------------------------------------------------------
(* The volume. X holds the inodes with a link to spare: a name of theirs   *)
(* is gone and the count has not been lowered yet, or the count has been   *)
(* raised and the name is not there yet.                                   *)
Spare(X, i)  == IF i \in X THEN 1 ELSE 0
Linked(t, X) == {i \in Inodes : i = Root \/ i \in X \/ NamesIn(t, i) # {}}
Alive(t, X)  == {i \in Inodes : i = Root \/ i \in X \/ NamesIn(t, i) # {} \/ t[i] # NoNames}

Volume(D, t, X) ==
    /\ D \in Disks /\ t \in Trees /\ X \in SUBSET Inodes
    /\ \A i \in Inodes : D[i].mode = "free" => D[i].nlink = 0
    /\ D[Root].mode = "dir" /\ Root \notin X /\ NamesIn(t, Root) = {}
    /\ \A i \in Inodes : NameCount(t, i) + Spare(X, i) <= D[i].nlink
    /\ \A i \in Inodes : D[i].mode = "dir" => NameCount(t, i) + Spare(X, i) <= 1
    /\ \A i \in Linked(t, X) : D[i].mode = "dir" => 2 + DirCount(D, t, i) <= D[i].nlink
    /\ \A i \in Inodes : t[i] # NoNames => D[i].mode = "dir" /\ 1 <= D[i].nlink

(* Whatever can be reached has a link and is not free.                     *)
LEMMA AliveHasLink ==
    ASSUME NEW D, NEW t, NEW X, Volume(D, t, X), NEW i \in Alive(t, X)
    PROVE  i \in Inodes /\ 1 <= D[i].nlink /\ D[i].mode # "free" /\ D[i] \in Info
<1>1. /\ i \in Inodes /\ D[i] \in Info /\ D[i].nlink \in Nat
  BY DEF Volume, Alive, Disks, Info
<1>2. NameCount(t, i) \in Nat /\ DirCount(D, t, i) \in Nat
      /\ (NameCount(t, i) = 0 <=> NamesIn(t, i) = {})
  BY CountsAreNat
<1>3. 1 <= D[i].nlink
  <2>1. CASE i = Root
    BY <1>1, <1>2, <2>1 DEF Volume, Linked
  <2>2. CASE i \in X \/ NamesIn(t, i) # {}
    <3>1. NameCount(t, i) + Spare(X, i) <= D[i].nlink
      BY <1>1 DEF Volume
    <3> QED
      BY <1>1, <1>2, <2>2, <3>1 DEF Spare
  <2>3. CASE t[i] # NoNames
    BY <1>1, <2>3 DEF Volume
  <2> QED
    BY <2>1, <2>2, <2>3 DEF Alive
<1>4. D[i].mode # "free"
  BY <1>1, <1>3 DEF Volume
<1> QED
  BY <1>1, <1>3, <1>4

(* The root is an inode. *)
LEMMA RootIsAlive ==
    ASSUME NEW t, NEW X
    PROVE  Root \in Inodes /\ Root \in Alive(t, X) /\ Root \in Linked(t, X)
BY CacheAssumption DEF Root, Inodes, Alive, Linked

(* What a name leads to is alive, and is not the root.                     *)
LEMMA NamedIsAlive ==
    ASSUME NEW D, NEW t, NEW X, Volume(D, t, X), NEW d \in Inodes, NEW n \in Names, t[d][n] # 0
    PROVE  /\ t[d][n] \in Inodes /\ t[d][n] \in Alive(t, X) /\ t[d][n] \in Linked(t, X)
           /\ t[d][n] # Root /\ <<d, n>> \in NamesIn(t, t[d][n])
           /\ D[d].mode = "dir" /\ t[d] # NoNames
<1>1. t[d][n] \in Inodes
  BY DEF Volume, Trees
<1>2. <<d, n>> \in NamesIn(t, t[d][n])
  BY <1>1 DEF NamesIn
<1>3. t[d] # NoNames
  BY DEF NoNames
<1> QED
  BY <1>1, <1>2, <1>3 DEF Volume, Alive, Linked

(* A name goes; the inode has a link to spare.                             *)
LEMMA VolumeClear ==
    ASSUME NEW D, NEW t, NEW X, Volume(D, t, X), NEW d \in Inodes, NEW n \in Names,
           NEW i \in Inodes \ X, t[d][n] = i
    PROVE  /\ Volume(D, [t EXCEPT ![d][n] = 0], X \union {i})
           /\ Alive([t EXCEPT ![d][n] = 0], X \union {i}) \subseteq Alive(t, X)
           /\ D[i].mode = "dir" /\ d \in Linked(t, X) =>
                 3 + DirCount(D, [t EXCEPT ![d][n] = 0], d) <= D[d].nlink
<1> DEFINE t2 == [t EXCEPT ![d][n] = 0]
           X2 == X \union {i}
<1>1. /\ D \in Disks /\ t \in Trees /\ X \in SUBSET Inodes /\ i # 0
      /\ i \in Alive(t, X) /\ i \in Linked(t, X) /\ i # Root /\ D[d].mode = "dir" /\ t[d] # NoNames
  <2>1. t[d][n] # 0
    BY CacheAssumption DEF Inodes
  <2> QED
    BY <2>1, NamedIsAlive DEF Volume
<1>2. Entered(t2, t, d, n, i)
  BY <1>1, ClearedEntered
<1> HIDE DEF t2
<1>3. /\ NameCount(t, i) = NameCount(t2, i) + 1
      /\ \A j \in Inodes \ {i} : NamesIn(t, j) = NamesIn(t2, j) /\ NameCount(t, j) = NameCount(t2, j)
      /\ \A e \in Inodes \ {d} : t[e] = t2[e]
  BY <1>2, EnteredNames
<1>4. /\ DirCount(D, t, d) = DirCount(D, t2, d) + (IF D[i].mode = "dir" THEN 1 ELSE 0)
      /\ \A e \in Inodes \ {d} : DirCount(D, t, e) = DirCount(D, t2, e)
  BY <1>2, EnteredDirs
<1>5. \A j \in Inodes : /\ NameCount(t2, j) \in Nat /\ DirCount(D, t2, j) \in Nat /\ D[j].nlink \in Nat
                        /\ NameCount(t2, j) = 0 <=> NamesIn(t2, j) = {}
  BY <1>1, CountsAreNat DEF Disks, Info
<1>6. \A j \in Inodes : NameCount(t2, j) + Spare(X2, j) = NameCount(t, j) + Spare(X, j)
  BY <1>3, <1>5 DEF Spare
<1>7. Linked(t2, X2) \subseteq Linked(t, X) /\ Alive(t2, X2) \subseteq Alive(t, X)
  BY <1>1, <1>3 DEF Linked, Alive
<1>8. \A j \in Inodes : DirCount(D, t2, j) <= DirCount(D, t, j)
  BY <1>4, <1>5
<1>9. \A j \in Linked(t2, X2) : D[j].mode = "dir" => 2 + DirCount(D, t2, j) <= D[j].nlink
  <2> TAKE j \in Linked(t2, X2)
  <2>1. j \in Inodes /\ j \in Linked(t, X)
    BY <1>7 DEF Linked
  <2>2. D[j].mode = "dir" => 2 + DirCount(D, t, j) <= D[j].nlink
    BY <2>1 DEF Volume
  <2>3. DirCount(D, t, j) \in Nat
    BY CountsAreNat
  <2> QED
    BY <1>5, <1>8, <2>1, <2>2, <2>3
<1>10. \A j \in Inodes : t2[j] # NoNames => D[j].mode = "dir" /\ 1 <= D[j].nlink
  BY <1>1, <1>3 DEF Volume
<1>11. Volume(D, t2, X2)
  <2>1. t2 \in Trees /\ X2 \in SUBSET Inodes /\ Root \notin X2
    BY <1>1, <1>2 DEF Entered, Volume
  <2>2. NamesIn(t2, Root) = {}
    BY <1>1, <1>3, RootIsAlive DEF Volume
  <2> HIDE DEF X2
  <2> QED
    BY <1>1, <1>6, <1>9, <1>10, <2>1, <2>2 DEF Volume
<1>12. D[i].mode = "dir" /\ d \in Linked(t, X) => 3 + DirCount(D, t2, d) <= D[d].nlink
  <2>1. d \in Linked(t, X) => 2 + DirCount(D, t, d) <= D[d].nlink
    BY <1>1 DEF Volume
  <2> QED
    BY <1>4, <1>5, <2>1
<1> QED
  BY <1>7, <1>11, <1>12 DEF t2

(* An inode gets a name for the link it has to spare; if it is a directory *)
(* its new parent has been counted up already.                             *)
LEMMA VolumeEnter ==
    ASSUME NEW D, NEW t, NEW X, Volume(D, t, X), NEW d \in Alive(t, X), NEW n \in Names,
           D[d].mode = "dir", t[d][n] = 0, NEW i \in X,
           D[i].mode = "dir" => 3 + DirCount(D, t, d) <= D[d].nlink
    PROVE  /\ Volume(D, [t EXCEPT ![d][n] = i], X \ {i})
           /\ Alive([t EXCEPT ![d][n] = i], X \ {i}) \subseteq Alive(t, X)
<1> DEFINE t2 == [t EXCEPT ![d][n] = i]
           X2 == X \ {i}
<1>1. /\ D \in Disks /\ t \in Trees /\ X \in SUBSET Inodes /\ d \in Inodes /\ i \in Inodes
      /\ i # Root /\ 1 <= D[d].nlink
  BY AliveHasLink DEF Volume
<1>2. Entered(t, t2, d, n, i)
  BY <1>1 DEF Entered, Trees
<1> HIDE DEF t2
<1>3. /\ NameCount(t2, i) = NameCount(t, i) + 1
      /\ \A j \in Inodes \ {i} : NamesIn(t2, j) = NamesIn(t, j) /\ NameCount(t2, j) = NameCount(t, j)
      /\ \A e \in Inodes \ {d} : t2[e] = t[e]
  BY <1>2, EnteredNames
<1>4. /\ DirCount(D, t2, d) = DirCount(D, t, d) + (IF D[i].mode = "dir" THEN 1 ELSE 0)
      /\ \A e \in Inodes \ {d} : DirCount(D, t2, e) = DirCount(D, t, e)
  BY <1>2, EnteredDirs
<1>5. \A j \in Inodes : NameCount(t2, j) + Spare(X2, j) = NameCount(t, j) + Spare(X, j)
  <2>1. \A j \in Inodes : NameCount(t, j) \in Nat
    BY CountsAreNat
  <2> QED
    BY <1>3, <2>1 DEF Spare
<1>6. Linked(t2, X2) \subseteq Linked(t, X) /\ Alive(t2, X2) \subseteq Alive(t, X)
  BY <1>1, <1>3 DEF Linked, Alive
<1>7. Volume(D, t2, X2)
  <2>1. t2 \in Trees /\ X2 \in SUBSET Inodes /\ Root \notin X2
    BY <1>1, <1>2 DEF Entered, Volume
  <2>2. NamesIn(t2, Root) = {}
    BY <1>1, <1>3, RootIsAlive DEF Volume
  <2>3. \A j \in Linked(t2, X2) : D[j].mode = "dir" => 2 + DirCount(D, t2, j) <= D[j].nlink
    <3> TAKE j \in Linked(t2, X2)
    <3>1. j \in Inodes /\ j \in Linked(t, X) /\ (D[j].mode = "dir" => 2 + DirCount(D, t, j) <= D[j].nlink)
      BY <1>6 DEF Volume, Linked
    <3>2. DirCount(D, t, d) \in Nat /\ D[d].nlink \in Nat
      BY <1>1, CountsAreNat DEF Disks, Info
    <3> QED
      BY <1>4, <3>1, <3>2
  <2>4. \A j \in Inodes : t2[j] # NoNames => D[j].mode = "dir" /\ 1 <= D[j].nlink
    BY <1>1, <1>3 DEF Volume
  <2> HIDE DEF X2
  <2> QED
    BY <1>1, <1>5, <2>1, <2>2, <2>3, <2>4 DEF Volume
<1> QED
  BY <1>6, <1>7 DEF t2

(* A link count changes to k.                                              *)
LEMMA VolumeRecount ==
    ASSUME NEW D, NEW t, NEW X, Volume(D, t, X), NEW i \in Inodes, D[i].mode # "free",
           NEW k \in Nat, NEW X2 \in SUBSET (Inodes \ {Root}),
           \A j \in Inodes \ {i} : j \in X2 <=> j \in X,
           NameCount(t, i) + Spare(X2, i) <= k,
           D[i].mode = "dir" => /\ NameCount(t, i) + Spare(X2, i) <= 1
                                /\ i \in Linked(t, X2) => 2 + DirCount(D, t, i) <= k
                                /\ t[i] # NoNames => 1 <= k
    PROVE  Volume([D EXCEPT ![i].nlink = k], t, X2)
<1> DEFINE D2 == [D EXCEPT ![i].nlink = k]
<1>1. D \in Disks /\ t \in Trees /\ X \in SUBSET Inodes
  BY DEF Volume
<1>2. /\ D2 \in Disks /\ D2[i].nlink = k
      /\ \A j \in Inodes : D2[j].mode = D[j].mode /\ (j # i => D2[j] = D[j])
  BY <1>1 DEF Disks, Info
<1> HIDE DEF D2
<1>3. \A j \in Inodes : DirCount(D2, t, j) = DirCount(D, t, j)
  <2>1. \A j \in Inodes : NamesIn(t, j) # {} => D2[j].mode = D[j].mode
    BY <1>2
  <2> QED
    BY <1>1, <2>1, DirsByMode
<1>4. \A j \in Inodes \ {i} : Spare(X2, j) = Spare(X, j)
  BY DEF Spare
<1>5. \A j \in Inodes : NameCount(t, j) + Spare(X2, j) <= D2[j].nlink
  BY <1>2, <1>4 DEF Volume
<1>6. \A j \in Inodes : D2[j].mode = "dir" => NameCount(t, j) + Spare(X2, j) <= 1
  BY <1>2, <1>4 DEF Volume
<1>7. \A j \in Linked(t, X2) : D2[j].mode = "dir" => 2 + DirCount(D2, t, j) <= D2[j].nlink
  <2> SUFFICES ASSUME NEW j \in Linked(t, X2), D2[j].mode = "dir"
               PROVE  2 + DirCount(D2, t, j) <= D2[j].nlink
    OBVIOUS
  <2>1. CASE j = i
    BY <1>2, <1>3, <2>1
  <2>2. CASE j # i
    <3>1. j \in Inodes /\ j \in Linked(t, X)
      BY <2>2 DEF Linked
    <3> QED
      BY <1>2, <1>3, <2>2, <3>1 DEF Volume
  <2> QED
    BY <2>1, <2>2
<1>8. \A j \in Inodes : t[j] # NoNames => D2[j].mode = "dir" /\ 1 <= D2[j].nlink
  BY <1>2 DEF Volume
<1>9. \A j \in Inodes : D2[j].mode = "free" => D2[j].nlink = 0
  BY <1>2 DEF Volume
<1>10. Volume(D2, t, X2)
  BY <1>1, <1>2, <1>5, <1>6, <1>7, <1>8, <1>9, RootIsAlive DEF Volume
<1> QED
  BY <1>10 DEF D2

(* A directory loses its names, whatever they led to.                      *)
LEMMA VolumeEmpty ==
    ASSUME NEW D, NEW t, NEW X, Volume(D, t, X), NEW d \in Inodes
    PROVE  /\ Volume(D, [t EXCEPT ![d] = NoNames], X)
           /\ Alive([t EXCEPT ![d] = NoNames], X) \subseteq Alive(t, X)
<1> DEFINE t2 == [t EXCEPT ![d] = NoNames]
<1>1. D \in Disks /\ t \in Trees /\ X \in SUBSET Inodes
  BY DEF Volume
<1>2. t2[d] = NoNames /\ \A e \in Inodes \ {d} : t2[e] = t[e]
  BY <1>1 DEF Trees
<1>3. /\ t2 \in Trees
      /\ \A j \in Inodes : NamesIn(t2, j) \subseteq NamesIn(t, j) /\ NameCount(t2, j) <= NameCount(t, j)
      /\ \A e \in Inodes : DirCount(D, t2, e) <= DirCount(D, t, e)
  BY <1>1, EmptiedCounts
<1> HIDE DEF t2
<1>4. \A j \in Inodes : /\ NameCount(t2, j) \in Nat /\ DirCount(D, t2, j) \in Nat /\ D[j].nlink \in Nat
                        /\ NameCount(t, j) \in Nat /\ DirCount(D, t, j) \in Nat /\ Spare(X, j) \in Nat
  BY <1>1, CountsAreNat DEF Disks, Info, Spare
<1>5. Linked(t2, X) \subseteq Linked(t, X) /\ Alive(t2, X) \subseteq Alive(t, X)
  BY <1>2, <1>3 DEF Linked, Alive
<1>6. \A j \in Inodes : NameCount(t2, j) + Spare(X, j) <= D[j].nlink
  <2> TAKE j \in Inodes
  <2>1. NameCount(t, j) + Spare(X, j) <= D[j].nlink
    BY DEF Volume
  <2> QED
    BY <1>3, <1>4, <2>1
<1>7. \A j \in Inodes : D[j].mode = "dir" => NameCount(t2, j) + Spare(X, j) <= 1
  <2> TAKE j \in Inodes
  <2>1. D[j].mode = "dir" => NameCount(t, j) + Spare(X, j) <= 1
    BY DEF Volume
  <2> QED
    BY <1>3, <1>4, <2>1
<1>8. \A j \in Linked(t2, X) : D[j].mode = "dir" => 2 + DirCount(D, t2, j) <= D[j].nlink
  <2> TAKE j \in Linked(t2, X)
  <2>1. j \in Inodes /\ (D[j].mode = "dir" => 2 + DirCount(D, t, j) <= D[j].nlink)
    BY <1>5 DEF Linked, Volume
  <2> QED
    BY <1>3, <1>4, <2>1
<1>9. \A j \in Inodes : t2[j] # NoNames => D[j].mode = "dir" /\ 1 <= D[j].nlink
  BY <1>2 DEF Volume
<1>10. NamesIn(t2, Root) = {}
  BY <1>3, RootIsAlive DEF Volume
<1>11. Volume(D, t2, X)
  BY <1>1, <1>3, <1>6, <1>7, <1>8, <1>9, <1>10 DEF Volume
<1> QED
  BY <1>5, <1>11 DEF t2

(* An inode with a link to spare loses it.                                 *)
LEMMA VolumeLower ==
    ASSUME NEW D, NEW t, NEW X, Volume(D, t, X), NEW i \in X
    PROVE  /\ D[i].nlink - 1 \in Nat
           /\ Volume([D EXCEPT ![i].nlink = D[i].nlink - 1], t, X \ {i})
           /\ Alive(t, X \ {i}) \subseteq Alive(t, X)
<1>1. /\ i \in Inodes \ {Root} /\ X \in SUBSET Inodes /\ i \in Linked(t, X) /\ i \in Alive(t, X)
      /\ D[i].nlink \in Nat
  BY DEF Volume, Linked, Alive, Disks, Info
<1>2. D[i].mode # "free" /\ 1 <= D[i].nlink
  BY <1>1, AliveHasLink
<1>3. /\ NameCount(t, i) + Spare(X, i) <= D[i].nlink
      /\ D[i].mode = "dir" => NameCount(t, i) + Spare(X, i) <= 1 /\ 2 + DirCount(D, t, i) <= D[i].nlink
  BY <1>1 DEF Volume
<1>4. NameCount(t, i) \in Nat /\ DirCount(D, t, i) \in Nat
  BY CountsAreNat
<1> DEFINE k == D[i].nlink - 1
           X2 == X \ {i}
<1>5. /\ k \in Nat /\ NameCount(t, i) + Spare(X2, i) <= k
      /\ D[i].mode = "dir" => NameCount(t, i) + Spare(X2, i) = 0 /\ 1 <= k
  BY <1>1, <1>2, <1>3, <1>4 DEF Spare
<1>6. X2 \in SUBSET (Inodes \ {Root}) /\ \A j \in Inodes \ {i} : j \in X2 <=> j \in X
  BY <1>1 DEF Volume
<1>9. D[i].mode = "dir" => i \notin Linked(t, X2)
  BY <1>1, <1>4, <1>5, CountsAreNat DEF Linked, Spare
<1>7. Alive(t, X2) \subseteq Alive(t, X)
  BY DEF Alive
<1> HIDE DEF k, X2
<1>8. Volume([D EXCEPT ![i].nlink = k], t, X2)
  <2>1. D[i].mode = "dir" => /\ NameCount(t, i) + Spare(X2, i) <= 1
                             /\ i \in Linked(t, X2) => 2 + DirCount(D, t, i) <= k
                             /\ t[i] # NoNames => 1 <= k
    BY <1>5, <1>9
  <2> QED
    BY <1>1, <1>2, <1>5, <1>6, <2>1, VolumeRecount
<1> QED
  BY <1>5, <1>7, <1>8 DEF k, X2

(* An inode that is no directory gets a link to spare.                     *)
LEMMA VolumeRaise ==
    ASSUME NEW D, NEW t, NEW X, Volume(D, t, X), NEW i \in Inodes \ X,
           D[i].mode \notin {"dir", "free"}
    PROVE  /\ D[i].nlink + 1 \in Nat
           /\ Volume([D EXCEPT ![i].nlink = D[i].nlink + 1], t, X \union {i})
<1>1. i # Root /\ X \in SUBSET Inodes /\ D[i].nlink \in Nat
  BY DEF Volume, Disks, Info
<1>2. NameCount(t, i) + Spare(X, i) <= D[i].nlink /\ NameCount(t, i) \in Nat
  BY CountsAreNat DEF Volume
<1> DEFINE k == D[i].nlink + 1
           X2 == X \union {i}
<1>3. k \in Nat /\ NameCount(t, i) + Spare(X2, i) <= k
  BY <1>1, <1>2 DEF Spare
<1>4. X2 \in SUBSET (Inodes \ {Root}) /\ \A j \in Inodes \ {i} : j \in X2 <=> j \in X
  BY <1>1 DEF Volume
<1> HIDE DEF k, X2
<1>5. Volume([D EXCEPT ![i].nlink = k], t, X2)
  BY <1>1, <1>3, <1>4, VolumeRecount
<1> QED
  BY <1>3, <1>5 DEF k, X2

(* A free inode is taken into use; it has no link and no name yet.         *)
LEMMA VolumeClaim ==
    ASSUME NEW D, NEW t, NEW X, Volume(D, t, X), NEW i \in Inodes, D[i].mode = "free",
           NEW kind \in Modes \ {"free"}
    PROVE  /\ Volume([D EXCEPT ![i] = [mode |-> kind, nlink |-> 0]], t, X)
           /\ i \notin Alive(t, X) /\ NameCount(t, i) = 0 /\ t[i] = NoNames
<1> DEFINE D2 == [D EXCEPT ![i] = [mode |-> kind, nlink |-> 0]]
<1>1. D \in Disks /\ t \in Trees /\ X \in SUBSET Inodes
  BY DEF Volume
<1>2. i \notin Alive(t, X)
  BY AliveHasLink
<1>3. i # Root /\ i \notin X /\ NamesIn(t, i) = {} /\ t[i] = NoNames
  BY <1>2 DEF Alive
<1>4. D2 \in Disks /\ D2[i].mode = kind /\ D2[i].nlink = 0 /\ \A j \in Inodes \ {i} : D2[j] = D[j]
  BY <1>1 DEF Disks, Info
<1> HIDE DEF D2
<1>5. \A j \in Inodes : DirCount(D2, t, j) = DirCount(D, t, j)
  <2>1. \A j \in Inodes : NamesIn(t, j) # {} => D2[j].mode = D[j].mode
    BY <1>3, <1>4
  <2> QED
    BY <1>1, <2>1, DirsByMode
<1>6. NameCount(t, i) = 0 /\ Spare(X, i) = 0
  BY <1>3, CountsAreNat DEF Spare
<1>7. i \notin Linked(t, X)
  BY <1>3 DEF Linked
<1>8. Volume(D2, t, X)
  <2>1. \A j \in Inodes : NameCount(t, j) + Spare(X, j) <= D2[j].nlink
    BY <1>4, <1>6 DEF Volume
  <2>2. \A j \in Inodes : D2[j].mode = "dir" => NameCount(t, j) + Spare(X, j) <= 1
    BY <1>4, <1>6 DEF Volume
  <2>3. \A j \in Linked(t, X) : D2[j].mode = "dir" => 2 + DirCount(D2, t, j) <= D2[j].nlink
    BY <1>4, <1>5, <1>7 DEF Volume, Linked
  <2>4. \A j \in Inodes : t[j] # NoNames => D2[j].mode = "dir" /\ 1 <= D2[j].nlink
    BY <1>3, <1>4 DEF Volume
  <2>5. \A j \in Inodes : D2[j].mode = "free" => D2[j].nlink = 0
    BY <1>4 DEF Volume
  <2>6. D2[Root].mode = "dir"
    BY <1>3, <1>4, RootIsAlive DEF Volume
  <2> QED
    BY <1>1, <1>4, <2>1, <2>2, <2>3, <2>4, <2>5, <2>6 DEF Volume
<1> QED
  BY <1>2, <1>3, <1>6, <1>8 DEF D2

(* The free list holds the slots without references, each once. *)
FreeList(slot, list) ==
    /\ \A s \in Slots : s \in ToSet(list) <=> slot[s].ref = 0
    /\ \A j, k \in 1..Len(list) : list[j] = list[k] => j = k

(* The members of a sequence. *)
LEMMA InList ==
    ASSUME NEW T, NEW q \in Seq(T)
    PROVE  /\ Len(q) \in Nat
           /\ \A x : x \in ToSet(q) <=> \E k \in 1..Len(q) : q[k] = x
           /\ \A k \in 1..Len(q) : q[k] \in T
<1>1. DOMAIN q = 1..Len(q) /\ Len(q) \in Nat
  BY LenProperties
<1> QED
  BY <1>1, ElementOfSeq DEF ToSet

(* A slot whose last reference goes is put on the list.                    *)
LEMMA ListedAgain ==
    ASSUME NEW f, NEW g, NEW q \in Seq(Slots), FreeList(f, q), NEW s \in Slots, f[s].ref # 0,
           g[s].ref = 0, \A u \in Slots \ {s} : g[u].ref = f[u].ref
    PROVE  FreeList(g, Append(q, s))
<1> DEFINE p == Append(q, s)
<1>1. /\ p \in Seq(Slots) /\ Len(p) = Len(q) + 1
      /\ \A k \in 1..Len(q) : p[k] = q[k]
      /\ p[Len(q) + 1] = s
  BY AppendProperties
<1> HIDE DEF p
<1>2. /\ Len(q) \in Nat
      /\ \A x : x \in ToSet(q) <=> \E k \in 1..Len(q) : q[k] = x
      /\ \A x : x \in ToSet(p) <=> \E k \in 1..Len(p) : p[k] = x
  BY <1>1, InList
<1>3. s \notin ToSet(q)
  BY DEF FreeList
<1>4. \A x : x \in ToSet(p) <=> x \in ToSet(q) \/ x = s
  <2> TAKE x
  <2>1. ASSUME x \in ToSet(p) PROVE x \in ToSet(q) \/ x = s
    <3>1. PICK k \in 1..Len(p) : p[k] = x
      BY <1>2, <2>1
    <3>2. k \in 1..Len(q) \/ k = Len(q) + 1
      BY <1>1, <1>2
    <3> QED
      BY <1>1, <1>2, <3>1, <3>2
  <2>2. ASSUME x \in ToSet(q) PROVE x \in ToSet(p)
    <3>1. PICK k \in 1..Len(q) : q[k] = x
      BY <1>2, <2>2
    <3>2. k \in 1..Len(p) /\ p[k] = x
      BY <1>1, <1>2, <3>1
    <3> QED
      BY <1>2, <3>2
  <2>3. s \in ToSet(p)
    <3>1. Len(q) + 1 \in 1..Len(p)
      BY <1>1, <1>2
    <3> QED
      BY <1>1, <1>2, <3>1
  <2> QED
    BY <2>1, <2>2, <2>3
<1>5. \A u \in Slots : u \in ToSet(p) <=> g[u].ref = 0
  BY <1>4 DEF FreeList
<1>6. ASSUME NEW j \in 1..Len(p), NEW k \in 1..Len(p), p[j] = p[k]
      PROVE  j = k
  <2>1. (j \in 1..Len(q) \/ j = Len(q) + 1) /\ (k \in 1..Len(q) \/ k = Len(q) + 1)
    BY <1>1, <1>2
  <2>2. \A i \in 1..Len(q) : q[i] # s
    BY <1>2, <1>3
  <2> QED
    BY <1>1, <1>6, <2>1, <2>2 DEF FreeList
<1>7. FreeList(g, p)
  BY <1>5, <1>6 DEF FreeList
<1> QED
  BY <1>7 DEF p

(* A slot that gets a reference leaves the list, wherever it is in it.     *)
LEMMA ListedNoMore ==
    ASSUME NEW f, NEW g, NEW q \in Seq(Slots), FreeList(f, q), NEW s \in Slots,
           g[s].ref # 0, \A u \in Slots \ {s} : g[u].ref = f[u].ref
    PROVE  FreeList(g, IfreeRemove(q, s))
<1>1. CASE s \notin ToSet(q)
  <2>1. IfreeRemove(q, s) = q
    BY <1>1 DEF IfreeRemove
  <2>2. \A u \in Slots : u \in ToSet(q) <=> g[u].ref = 0
    BY <1>1 DEF FreeList
  <2> QED
    BY <2>1, <2>2 DEF FreeList
<1>2. CASE s \in ToSet(q)
  <2> DEFINE p == IfreeRemove(q, s)
  <2>1. PICK i \in 1..Len(q) : q[i] = s /\ p = RemoveAt(q, i)
    BY <1>2, FoundIndex
  <2>2. /\ p \in Seq(Slots) /\ Len(p) = Len(q) - 1
        /\ \A k \in 1..(Len(q) - 1) : p[k] = IF k < i THEN q[k] ELSE q[k + 1]
    <3> DEFINE v == RemoveAt(q, i)
    <3>1. /\ v \in Seq(Slots) /\ Len(v) = Len(q) - 1
          /\ \A k \in 1..(Len(q) - 1) : v[k] = IF k < i THEN q[k] ELSE q[k + 1]
      BY RemoveAtIs
    <3>2. p = v
      BY <2>1
    <3> HIDE DEF p, v
    <3> QED
      BY <3>1, <3>2
  <2> HIDE DEF p
  <2>3. /\ Len(q) \in Nat
        /\ \A x : x \in ToSet(q) <=> \E k \in 1..Len(q) : q[k] = x
        /\ \A x : x \in ToSet(p) <=> \E k \in 1..Len(p) : p[k] = x
    BY <2>2, InList
  <2>4. \A j, k \in 1..Len(q) : q[j] = q[k] => j = k
    BY DEF FreeList
  <2>5. \A x : x \in ToSet(p) <=> x \in ToSet(q) /\ x # s
    <3> TAKE x
    <3>1. ASSUME x \in ToSet(p) PROVE x \in ToSet(q) /\ x # s
      <4>1. PICK k \in 1..Len(p) : p[k] = x
        BY <2>3, <3>1
      <4>2. CASE k < i
        <5>1. k \in 1..Len(q) /\ q[k] = x /\ k # i
          BY <2>2, <2>3, <4>1, <4>2
        <5> QED
          BY <2>1, <2>3, <2>4, <5>1
      <4>3. CASE ~(k < i)
        <5>1. k + 1 \in 1..Len(q) /\ q[k + 1] = x /\ k + 1 # i
          BY <2>2, <2>3, <4>1, <4>3
        <5> QED
          BY <2>1, <2>3, <2>4, <5>1
      <4> QED
        BY <4>2, <4>3
    <3>2. ASSUME x \in ToSet(q), x # s PROVE x \in ToSet(p)
      <4>1. PICK k \in 1..Len(q) : q[k] = x
        BY <2>3, <3>2
      <4>2. k # i
        BY <2>1, <3>2, <4>1
      <4>3. CASE k < i
        <5>1. k \in 1..Len(p) /\ p[k] = x
          BY <2>2, <2>3, <4>1, <4>3
        <5> QED
          BY <2>3, <5>1
      <4>4. CASE k > i
        <5>1. k - 1 \in 1..Len(p) /\ p[k - 1] = x
          BY <2>2, <2>3, <4>1, <4>4
        <5> QED
          BY <2>3, <5>1
      <4> QED
        BY <4>2, <4>3, <4>4
    <3> QED
      BY <3>1, <3>2
  <2>6. \A u \in Slots : u \in ToSet(p) <=> g[u].ref = 0
    BY <2>5 DEF FreeList
  <2>7. ASSUME NEW j \in 1..Len(p), NEW k \in 1..Len(p), p[j] = p[k]
        PROVE  j = k
    <3> DEFINE a == IF j < i THEN j ELSE j + 1
               b == IF k < i THEN k ELSE k + 1
    <3>1. a \in 1..Len(q) /\ b \in 1..Len(q) /\ q[a] = p[j] /\ q[b] = p[k]
      BY <2>2, <2>3
    <3>2. a = b
      BY <2>4, <2>7, <3>1
    <3> QED
      BY <3>2
  <2>8. FreeList(g, p)
    BY <2>6, <2>7 DEF FreeList
  <2> QED
    BY <2>8 DEF p
<1> QED
  BY <1>1, <1>2

(* So does the slot at the head.                                           *)
LEMMA HeadTaken ==
    ASSUME NEW f, NEW g, NEW q \in Seq(Slots), FreeList(f, q), q # <<>>,
           g[Head(q)].ref # 0, \A u \in Slots \ {Head(q)} : g[u].ref = f[u].ref
    PROVE  /\ FreeList(g, Tail(q)) /\ Head(q) \in Slots /\ f[Head(q)].ref = 0
<1> DEFINE s == Head(q)
           p == Tail(q)
<1>1. /\ s \in Slots /\ s = q[1] /\ p \in Seq(Slots) /\ Len(q) # 0
      /\ Len(p) = Len(q) - 1 /\ \A k \in 1..Len(p) : p[k] = q[k + 1]
  BY HeadTailProperties, EmptySeq, LenProperties
<1> HIDE DEF s, p
<1>2. /\ Len(q) \in Nat
      /\ \A x : x \in ToSet(q) <=> \E k \in 1..Len(q) : q[k] = x
      /\ \A x : x \in ToSet(p) <=> \E k \in 1..Len(p) : p[k] = x
  BY <1>1, InList
<1>3. \A j, k \in 1..Len(q) : q[j] = q[k] => j = k
  BY DEF FreeList
<1>4. 1 \in 1..Len(q) /\ s \in ToSet(q)
  BY <1>1, <1>2
<1>5. \A x : x \in ToSet(p) <=> x \in ToSet(q) /\ x # s
  <2> TAKE x
  <2>1. ASSUME x \in ToSet(p) PROVE x \in ToSet(q) /\ x # s
    <3>1. PICK k \in 1..Len(p) : p[k] = x
      BY <1>2, <2>1
    <3>2. k + 1 \in 1..Len(q) /\ q[k + 1] = x /\ k + 1 # 1
      BY <1>1, <1>2, <3>1
    <3> QED
      BY <1>1, <1>2, <1>3, <1>4, <3>2
  <2>2. ASSUME x \in ToSet(q), x # s PROVE x \in ToSet(p)
    <3>1. PICK k \in 1..Len(q) : q[k] = x
      BY <1>2, <2>2
    <3>2. k # 1
      BY <1>1, <2>2, <3>1
    <3>3. k - 1 \in 1..Len(p) /\ p[k - 1] = x
      BY <1>1, <1>2, <3>1, <3>2
    <3> QED
      BY <1>2, <3>3
  <2> QED
    BY <2>1, <2>2
<1>6. \A u \in Slots : u \in ToSet(p) <=> g[u].ref = 0
  BY <1>1, <1>5 DEF FreeList, s
<1>7. ASSUME NEW j \in 1..Len(p), NEW k \in 1..Len(p), p[j] = p[k]
      PROVE  j = k
  <2>1. j + 1 \in 1..Len(q) /\ k + 1 \in 1..Len(q) /\ q[j + 1] = q[k + 1]
    BY <1>1, <1>2, <1>7
  <2>2. j + 1 = k + 1
    BY <1>3, <2>1
  <2> QED
    BY <2>2
<1>8. FreeList(g, p)
  BY <1>6, <1>7 DEF FreeList
<1>9. f[s].ref = 0
  BY <1>1, <1>4 DEF FreeList
<1> QED
  BY <1>1, <1>8, <1>9 DEF s, p

-----------------------------------------------------------------------------
(* The books of the layer. P counts the references to each slot that are   *)
(* accounted for, and O is the inode those who hold them take it for.      *)
SameBut(f, g, s) == \A u \in Slots \ {s} : g[u] = f[u]
OneSlot(f) == \A s, u \in Slots : s # u /\ f[s].ino # 0 => f[s].ino # f[u].ino
Pinned(f, O, P) ==
    \A s \in Slots : /\ P[s] <= f[s].ref
                     /\ P[s] > 0 => f[s].ino = O[s] /\ O[s] \in Inodes /\ f[s].mode # "free"
Fresh(f, D, t, X) ==
    \A s \in Slots : f[s].ino # 0 =>
        /\ D[f[s].ino].mode # "free"
        /\ f[s].ino \in Alive(t, X) =>
              f[s].mode = D[f[s].ino].mode /\ f[s].nlink = D[f[s].ino].nlink
Offers(f, w, t, X) ==
    /\ \A j, k \in 1..Len(w) : w[j] = w[k] => j = k
    /\ \A k \in 1..Len(w) : w[k] \notin Alive(t, X)
    /\ \A k \in 1..Len(w), s \in Slots : f[s].ino = w[k] => f[s].ref = 0

Kept(f, q, w, D, t, O, P, X) ==
    /\ FreeList(f, q) /\ OneSlot(f) /\ Pinned(f, O, P) /\ Fresh(f, D, t, X) /\ Offers(f, w, t, X)

Owners == [Slots -> {0} \union Inodes]
Counts == [Slots -> Nat]

Book(c, D, t, O, P, X) ==
    /\ c \in Layer /\ c.spin = "no" /\ Len(c.win) <= SB_FREE_INODE_MAX
    /\ c.disk = D /\ c.dirs = t /\ Volume(D, t, X)
    /\ O \in Owners /\ P \in Counts
    /\ Kept(c.slot, c.list, c.win, D, t, O, P, X)

Plus(P, s)  == [u \in Slots |-> IF u = s THEN P[u] + 1 ELSE P[u]]
Minus(P, s) == [u \in Slots |-> IF u = s THEN P[u] - 1 ELSE P[u]]
Put(O, s, i) == [O EXCEPT ![s] = i]

(* Books from their fields.                                                *)
LEMMA BookRec ==
    ASSUME NEW f \in Slotted, NEW q \in Seq(Slots), NEW D, NEW t, NEW X, Volume(D, t, X),
           NEW w \in Seq(Inodes), NEW seen \in Inodes, NEW ip \in Slots \union {Null},
           Len(w) <= SB_FREE_INODE_MAX, NEW O \in Owners, NEW P \in Counts,
           Kept(f, q, w, D, t, O, P, X)
    PROVE  Book(Rec(f, q, D, t, w, seen, ip, "no"), D, t, O, P, X)
<1>1. D \in Disks /\ t \in Trees
  BY DEF Volume
<1> HIDE DEF Kept
<1> QED
  BY <1>1 DEF Book, Rec, Layer, Spins

(* The fields of the books.                                                *)
LEMMA BookFields ==
    ASSUME NEW c, NEW D, NEW t, NEW O, NEW P, NEW X, Book(c, D, t, O, P, X)
    PROVE  /\ c = Rec(c.slot, c.list, D, t, c.win, c.seen, c.ip, "no")
           /\ c \in Layer /\ Typed(c) /\ c.spin = "no" /\ c.disk = D /\ c.dirs = t
           /\ c.slot \in Slotted /\ c.list \in Seq(Slots) /\ c.win \in Seq(Inodes)
           /\ c.seen \in Inodes /\ c.ip \in Slots \union {Null}
           /\ D \in Disks /\ t \in Trees /\ X \in SUBSET Inodes
           /\ Len(c.win) <= SB_FREE_INODE_MAX
           /\ O \in Owners /\ P \in Counts /\ Volume(D, t, X)
           /\ Kept(c.slot, c.list, c.win, D, t, O, P, X)
<1>1. /\ c \in Layer /\ c.spin = "no" /\ c.disk = D /\ c.dirs = t
      /\ Len(c.win) <= SB_FREE_INODE_MAX
      /\ O \in Owners /\ P \in Counts /\ Volume(D, t, X)
      /\ Kept(c.slot, c.list, c.win, D, t, O, P, X)
  BY DEF Book
<1>2. D \in Disks /\ t \in Trees /\ X \in SUBSET Inodes
  BY <1>1 DEF Volume
<1> HIDE DEF Kept, Volume
<1>3. Typed(c)
  BY <1>1 DEF Layer, Typed
<1>4. c = Rec(c.slot, c.list, D, t, c.win, c.seen, c.ip, "no")
  BY <1>1 DEF Layer, Rec
<1> QED
  BY <1>1, <1>2, <1>3, <1>4 DEF Typed

(* The slots a good state wants: those accounted for hold an inode. *)
LEMMA BookGood ==
    ASSUME NEW c, NEW D, NEW t, NEW O, NEW P, NEW X, Book(c, D, t, O, P, X)
    PROVE  Good(c, {s \in Slots : P[s] > 0}, Slots)
<1>1. c \in Layer /\ Len(c.win) <= SB_FREE_INODE_MAX /\ Pinned(c.slot, O, P)
  BY DEF Book, Kept
<1>2. \A s \in {u \in Slots : P[u] > 0} : c.slot[s].ino # 0
  BY <1>1, CacheAssumption DEF Pinned, Inodes
<1> QED
  BY <1>1, <1>2 DEF Good

(* What a routine returned makes no difference to the books.               *)
LEMMA BookIp ==
    ASSUME NEW c, NEW D, NEW t, NEW O, NEW P, NEW X, Book(c, D, t, O, P, X),
           NEW ip \in Slots \union {Null}
    PROVE  Book([c EXCEPT !.ip = ip], D, t, O, P, X)
<1>1. c = Rec(c.slot, c.list, D, t, c.win, c.seen, c.ip, "no")
  BY BookFields
<1>2. [c EXCEPT !.ip = ip] = Rec(c.slot, c.list, D, t, c.win, c.seen, ip, "no")
  BY <1>1 DEF Rec
<1> QED
  BY <1>2, BookFields, BookRec

(* Counts of references are typed.                                         *)
LEMMA CountsType ==
    ASSUME NEW P \in Counts, NEW s
    PROVE  Plus(P, s) \in Counts /\ (s \in Slots /\ P[s] >= 1 => Minus(P, s) \in Counts)
BY DEF Plus, Minus, Counts

(* A reference taken and put back.                                         *)
LEMMA PlusMinus ==
    ASSUME NEW P \in Counts, NEW s
    PROVE  Minus(Plus(P, s), s) = P
BY DEF Plus, Minus, Counts

(* References are put back in any order.                                   *)
LEMMA PlusPlusMinus ==
    ASSUME NEW P \in Counts, NEW s, NEW u
    PROVE  Minus(Plus(Plus(P, u), s), u) = Plus(P, s)
BY DEF Plus, Minus, Counts

(* An inode that is accounted for and has not gone has its mode and link   *)
(* count in the slot.                                                      *)
LEMMA PinInfo ==
    ASSUME NEW c, NEW D, NEW t, NEW O, NEW P, NEW X, Book(c, D, t, O, P, X),
           NEW s \in Slots, P[s] >= 1
    PROVE  /\ Ino(c, s) = O[s] /\ O[s] \in Inodes /\ O[s] # 0 /\ c.slot[s].mode # "free"
           /\ D[O[s]].mode # "free" /\ c.slot[s] \in Slot /\ c.slot[s].ref >= P[s]
           /\ O[s] \in Alive(t, X) => /\ c.slot[s].mode = D[O[s]].mode
                                      /\ c.slot[s].nlink = D[O[s]].nlink
                                      /\ IsDir(c, s) = (D[O[s]].mode = "dir")
                                      /\ \A n : Lookup(c, s, n) = IF D[O[s]].mode = "dir" THEN t[O[s]][n] ELSE 0
<1>1. /\ P[s] \in Nat /\ c.slot \in Slotted /\ Pinned(c.slot, O, P) /\ Fresh(c.slot, D, t, X)
      /\ c.dirs = t
  BY BookFields DEF Kept, Counts
<1>2. P[s] > 0
  BY <1>1
<1>3. c.slot[s].ino = O[s] /\ O[s] \in Inodes /\ c.slot[s].mode # "free" /\ P[s] <= c.slot[s].ref
  BY <1>1, <1>2 DEF Pinned
<1>4. O[s] # 0
  BY <1>3, CacheAssumption DEF Inodes
<1>5. c.slot[s] \in Slot
  BY <1>1 DEF Slotted
<1>6. c.slot[s].ref >= P[s]
  BY <1>1, <1>3, <1>5 DEF Slot
<1>7. /\ D[O[s]].mode # "free"
      /\ O[s] \in Alive(t, X) => c.slot[s].mode = D[O[s]].mode /\ c.slot[s].nlink = D[O[s]].nlink
  BY <1>1, <1>3, <1>4 DEF Fresh
<1> QED
  BY <1>1, <1>3, <1>4, <1>5, <1>6, <1>7 DEF Ino, IsDir, Lookup

(* Fewer references may be accounted for.                                  *)
LEMMA BookLess ==
    ASSUME NEW c, NEW D, NEW t, NEW O, NEW P, NEW X, Book(c, D, t, O, P, X),
           NEW P2 \in Counts, \A s \in Slots : P2[s] <= P[s]
    PROVE  Book(c, D, t, O, P2, X)
<1>1. /\ Pinned(c.slot, O, P) /\ c.slot \in Slotted /\ P \in Counts
  BY BookFields DEF Kept
<1>2. Pinned(c.slot, O, P2)
  <2> SUFFICES ASSUME NEW s \in Slots
               PROVE  /\ P2[s] <= c.slot[s].ref
                      /\ P2[s] > 0 => c.slot[s].ino = O[s] /\ O[s] \in Inodes /\ c.slot[s].mode # "free"
    BY DEF Pinned
  <2>1. /\ P2[s] \in Nat /\ P[s] \in Nat /\ c.slot[s].ref \in Nat /\ P2[s] <= P[s] /\ P[s] <= c.slot[s].ref
        /\ P[s] > 0 => c.slot[s].ino = O[s] /\ O[s] \in Inodes /\ c.slot[s].mode # "free"
    BY <1>1 DEF Counts, Slotted, Slot, Pinned
  <2> QED
    BY <2>1
<1> QED
  BY <1>2 DEF Book, Kept

(* iput of a slot, as a change of its count, the list and the window.      *)
LEMMA KeptPut ==
    ASSUME NEW f \in Slotted, NEW g \in Slotted, NEW q \in Seq(Slots), NEW w \in Seq(Inodes),
           NEW D, NEW t, NEW O, NEW P \in Counts, NEW X, Kept(f, q, w, D, t, O, P, X),
           NEW s \in Slots, f[s].ref >= 1, P[s] < f[s].ref, SameBut(f, g, s),
           g[s].ino = f[s].ino, g[s].ref = f[s].ref - 1, g[s].nlink = f[s].nlink,
           g[s].mode = f[s].mode
    PROVE  Kept(g, IF g[s].ref = 0 THEN Append(q, s) ELSE q, w, D, t, O, P, X)
<1>1. /\ FreeList(f, q) /\ OneSlot(f) /\ Pinned(f, O, P) /\ Fresh(f, D, t, X) /\ Offers(f, w, t, X)
  BY DEF Kept
<1>2. /\ P[s] \in Nat /\ f[s].ref \in Nat /\ P[s] <= f[s].ref /\ g[s].ref \in Nat
  BY <1>1 DEF Counts, Slotted, Slot, Pinned
<1>3. \A u \in Slots : g[u].ino = f[u].ino /\ g[u].nlink = f[u].nlink /\ g[u].mode = f[u].mode
  BY DEF SameBut
<1>4. \A u \in Slots \ {s} : g[u].ref = f[u].ref
  BY DEF SameBut
<1>5. FreeList(g, IF g[s].ref = 0 THEN Append(q, s) ELSE q)
  <2>1. CASE g[s].ref = 0
    <3>1. f[s].ref # 0
      BY <1>2
    <3> QED
      BY <1>1, <1>4, <2>1, <3>1, ListedAgain
  <2>2. CASE g[s].ref # 0
    <3>1. \A u \in Slots : g[u].ref = 0 <=> f[u].ref = 0
      BY <1>2, <1>4, <2>2
    <3> QED
      BY <1>1, <2>2, <3>1 DEF FreeList
  <2> QED
    BY <2>1, <2>2
<1>6. OneSlot(g)
  BY <1>1, <1>3 DEF OneSlot
<1>7. Pinned(g, O, P)
  <2> SUFFICES ASSUME NEW u \in Slots
               PROVE  /\ P[u] <= g[u].ref
                      /\ P[u] > 0 => g[u].ino = O[u] /\ O[u] \in Inodes /\ g[u].mode # "free"
    BY DEF Pinned
  <2>1. /\ P[u] \in Nat /\ f[u].ref \in Nat /\ P[u] <= f[u].ref
        /\ P[u] > 0 => f[u].ino = O[u] /\ O[u] \in Inodes /\ f[u].mode # "free"
    BY <1>1 DEF Counts, Slotted, Slot, Pinned
  <2> QED
    BY <1>2, <1>3, <1>4, <2>1
<1>8. Fresh(g, D, t, X)
  BY <1>1, <1>3 DEF Fresh
<1>9. Offers(g, w, t, X)
  <2>1. \A k \in 1..Len(w), u \in Slots : g[u].ino = w[k] => g[u].ref = 0
    <3> TAKE k \in 1..Len(w), u \in Slots
    <3>1. f[u].ino = w[k] => f[u].ref = 0
      BY <1>1 DEF Offers
    <3>2. f[s].ref # 0
      BY <1>2
    <3> QED
      BY <1>3, <1>4, <3>1, <3>2
  <2> QED
    BY <1>1, <2>1 DEF Offers
<1> QED
  BY <1>5, <1>6, <1>7, <1>8, <1>9 DEF Kept

(* iput of the last reference to an inode without links.                   *)
LEMMA KeptFreed ==
    ASSUME NEW f \in Slotted, NEW g \in Slotted, NEW q \in Seq(Slots), NEW w \in Seq(Inodes),
           NEW D, NEW t, NEW O, NEW P \in Counts, NEW X, Kept(f, q, w, D, t, O, P, X), Volume(D, t, X),
           NEW s \in Slots, P[s] < 1, SameBut(f, g, s), f[s].ref = 1, f[s].nlink = 0, f[s].ino # 0,
           g[s].ino = f[s].ino, g[s].ref = 0, g[s].nlink = 0, g[s].mode = "free"
    PROVE  /\ Kept(g, Append(q, s), w, D, t, O, P, X)
           /\ Kept(g, Append(q, s), Append(w, f[s].ino), D, t, O, P, X)
           /\ f[s].ino \in Inodes /\ t[f[s].ino] = NoNames
<1>1. /\ FreeList(f, q) /\ OneSlot(f) /\ Pinned(f, O, P) /\ Fresh(f, D, t, X) /\ Offers(f, w, t, X)
  BY DEF Kept
<1>2. P[s] = 0
  BY DEF Counts
<1>3. f[s].ino \in Inodes /\ f[s].ino # 0
  BY DEF Slotted, Slot
<1>4. f[s].ino \notin Alive(t, X)
  BY <1>1, <1>3, AliveHasLink DEF Fresh
<1>5. \A u \in Slots : g[u].ino = f[u].ino
  BY DEF SameBut
<1>6. FreeList(g, Append(q, s))
  <2>1. f[s].ref # 0 /\ \A u \in Slots \ {s} : g[u].ref = f[u].ref
    BY DEF SameBut
  <2> QED
    BY <1>1, <2>1, ListedAgain
<1>7. OneSlot(g)
  BY <1>1, <1>5 DEF OneSlot
<1>8. Pinned(g, O, P)
  <2> SUFFICES ASSUME NEW u \in Slots
               PROVE  /\ P[u] <= g[u].ref
                      /\ P[u] > 0 => g[u].ino = O[u] /\ O[u] \in Inodes /\ g[u].mode # "free"
    BY DEF Pinned
  <2>1. /\ P[u] <= f[u].ref
        /\ P[u] > 0 => f[u].ino = O[u] /\ O[u] \in Inodes /\ f[u].mode # "free"
    BY <1>1 DEF Pinned
  <2> QED
    BY <1>2, <2>1 DEF SameBut
<1>9. Fresh(g, D, t, X)
  BY <1>1, <1>4, <1>5 DEF Fresh, SameBut
<1>10. \A k \in 1..Len(w) : w[k] # f[s].ino
  BY <1>1 DEF Offers
<1>11. Offers(g, w, t, X)
  BY <1>1, <1>5 DEF Offers, SameBut
<1>12. Offers(g, Append(w, f[s].ino), t, X)
  <2> DEFINE v == Append(w, f[s].ino)
  <2>1. /\ Len(v) = Len(w) + 1 /\ v[Len(w) + 1] = f[s].ino /\ Len(w) \in Nat
        /\ \A k \in 1..Len(w) : v[k] = w[k]
    BY <1>3, AppendProperties, LenProperties
  <2> HIDE DEF v
  <2>2. \A k \in 1..Len(v) : k \in 1..Len(w) \/ k = Len(w) + 1
    BY <2>1
  <2>3. \A k \in 1..Len(v), u \in Slots : g[u].ino = v[k] => g[u].ref = 0
    <3> TAKE k \in 1..Len(v), u \in Slots
    <3>1. CASE k \in 1..Len(w)
      BY <1>11, <2>1, <3>1 DEF Offers
    <3>2. CASE k = Len(w) + 1
      BY <1>1, <1>3, <1>5, <2>1, <3>2 DEF OneSlot
    <3> QED
      BY <2>2, <3>1, <3>2
  <2>4. \A k \in 1..Len(v) : v[k] \notin Alive(t, X)
    BY <1>4, <1>11, <2>1, <2>2 DEF Offers
  <2>5. \A j, k \in 1..Len(v) : v[j] = v[k] => j = k
    BY <1>10, <1>11, <2>1, <2>2 DEF Offers
  <2>6. Offers(g, v, t, X)
    BY <2>3, <2>4, <2>5 DEF Offers
  <2> QED
    BY <2>6 DEF v
<1>13. t[f[s].ino] = NoNames
  BY <1>3, <1>4 DEF Alive
<1> QED
  BY <1>3, <1>6, <1>7, <1>8, <1>9, <1>11, <1>12, <1>13 DEF Kept

SlotLeft(f, s, left) == [f EXCEPT ![s].ref = left, ![s].locked = FALSE]
ListLeft(q, s, left) == IF left = 0 /\ s \notin ToSet(q) THEN Append(q, s) ELSE q

(* The end of iput, as a change of the fields.                             *)
LEMMA LetGoRec ==
    ASSUME NEW c \in Layer, NEW s \in Slots, NEW left
    PROVE  LetGo(c, s, left) = Rec(SlotLeft(c.slot, s, left), ListLeft(c.list, s, left),
                                   c.disk, c.dirs, c.win, c.seen, c.ip, c.spin)
<1> DEFINE g == SlotLeft(c.slot, s, left)
           p == ListLeft(c.list, s, left)
<1>1. LetGo(c, s, left) = [c EXCEPT !.slot = g, !.list = p]
  BY DEF LetGo, Layer, Slotted, Slot, SlotLeft, ListLeft
<1> HIDE DEF g, p
<1>2. LetGo(c, s, left) = Rec(g, p, c.disk, c.dirs, c.win, c.seen, c.ip, c.spin)
  BY <1>1 DEF Rec, Layer
<1> QED
  BY <1>2 DEF g, p

(* iput of a reference that is not accounted for.                          *)
LEMMA IputSpare ==
    ASSUME NEW c, NEW D, NEW t, NEW O, NEW P, NEW X, Book(c, D, t, O, P, X),
           NEW s \in Slots, P[s] < c.slot[s].ref, Ino(c, s) # 0
    PROVE  /\ Book(Iput(c, s), D, t, O, P, X)
           /\ Iput(c, s).ip = c.ip
<1> DEFINE f == c.slot
           i == f[s].ino
           left == f[s].ref - 1
           g == [f EXCEPT ![s].ref = left, ![s].locked = FALSE]
           h == [f EXCEPT ![s].mode = "free", ![s].ref = 0, ![s].locked = FALSE]
           m == Min({c.seen, i})
           full == Len(c.win) >= SB_FREE_INODE_MAX
<1>1. /\ c \in Layer /\ c.disk = D /\ c.dirs = t /\ c.spin = "no"
      /\ f \in Slotted /\ c.list \in Seq(Slots) /\ c.win \in Seq(Inodes)
      /\ c.seen \in Inodes /\ c.ip \in Slots \union {Null} /\ t \in Trees
      /\ Len(c.win) <= SB_FREE_INODE_MAX
      /\ O \in Owners /\ P \in Counts /\ Volume(D, t, X)
      /\ Kept(f, c.list, c.win, D, t, O, P, X)
  BY BookFields
<1>2. P[s] \in Nat
  BY <1>1 DEF Counts
<1>3. f[s].ref \in Nat /\ f[s].ref >= 1 /\ left \in Nat /\ f[s] \in Slot
  BY <1>1, <1>2 DEF Slot, Slotted
<1>4. s \notin ToSet(c.list)
  BY <1>1, <1>3 DEF Kept, FreeList
<1>5. i \in Inodes /\ i # 0
  BY <1>1 DEF Ino, Slotted, Slot
<1>6. CASE ~(left = 0 /\ f[s].nlink = 0)
  <2> DEFINE p == IF g[s].ref = 0 THEN Append(c.list, s) ELSE c.list
  <2>1. /\ g \in Slotted /\ SameBut(f, g, s) /\ g[s].ino = i /\ g[s].ref = f[s].ref - 1
        /\ g[s].nlink = f[s].nlink /\ g[s].mode = f[s].mode
    BY <1>1, <1>3 DEF Slotted, Slot, SameBut
  <2>2. p \in Seq(Slots)
    BY <1>1, AppendProperties
  <2>3. Kept(g, p, c.win, D, t, O, P, X)
    <3>1. /\ f \in Slotted /\ c.list \in Seq(Slots) /\ c.win \in Seq(Inodes) /\ P \in Counts
          /\ Kept(f, c.list, c.win, D, t, O, P, X)
      BY <1>1
    <3>2. f[s].ref >= 1 /\ P[s] < f[s].ref
      BY <1>3
    <3> HIDE DEF f, g
    <3> QED
      BY <2>1, <3>1, <3>2, KeptPut
  <2>4. Iput(c, s) = Rec(g, p, D, t, c.win, c.seen, c.ip, "no")
    <3>1. Iput(c, s) = LetGo(c, s, left)
      BY <1>1, <1>3, <1>6 DEF Iput, IsDead
    <3>2. LetGo(c, s, left) = [c EXCEPT !.slot = g, !.list = p]
      BY <1>1, <1>3, <1>4 DEF LetGo, Slotted, Slot, Layer
    <3> HIDE DEF g, p
    <3> QED
      BY <1>1, <3>1, <3>2 DEF Rec, Layer
  <2> HIDE DEF g, p
  <2>5. Book(Iput(c, s), D, t, O, P, X)
    BY <1>1, <1>2, <2>1, <2>2, <2>3, <2>4, BookRec
  <2> QED
    BY <2>4, <2>5 DEF Rec
<1>7. CASE left = 0 /\ f[s].nlink = 0
  <2> DEFINE p == Append(c.list, s)
             v == IF full THEN c.win ELSE Append(c.win, i)
             seen == IF full THEN m ELSE c.seen
  <2>1. /\ h \in Slotted /\ SameBut(f, h, s) /\ h[s].ino = i /\ h[s].ref = 0
        /\ h[s].nlink = 0 /\ h[s].mode = "free" /\ f[s].ref = 1
    <3>1. f[s].ref = 1
      BY <1>3, <1>7
    <3>2. SameBut(f, h, s)
      BY <1>1 DEF Slotted, SameBut
    <3>3. h[s] = [f[s] EXCEPT !.mode = "free", !.ref = 0, !.locked = FALSE]
      BY <1>1 DEF Slotted
    <3>4. h \in Slotted
      BY <1>1, <1>3 DEF Slotted, Slot, Modes
    <3> HIDE DEF h
    <3> QED
      BY <1>3, <1>7, <3>1, <3>2, <3>3, <3>4 DEF Slot
  <2>2. p \in Seq(Slots) /\ v \in Seq(Inodes) /\ Len(v) <= SB_FREE_INODE_MAX
    <3>1. p \in Seq(Slots) /\ Append(c.win, i) \in Seq(Inodes) /\ Len(Append(c.win, i)) = Len(c.win) + 1
      BY <1>1, <1>5, AppendProperties
    <3>2. Len(c.win) \in Nat /\ SB_FREE_INODE_MAX \in Nat
      BY <1>1, CacheAssumption, LenProperties
    <3> QED
      BY <1>1, <3>1, <3>2
  <2>3. seen \in Inodes
    <3>1. c.seen \in Nat /\ i \in Nat
      BY <1>1, <1>5, CacheAssumption DEF Inodes
    <3>2. \E x \in {c.seen, i} : \A y \in {c.seen, i} : x <= y
      BY <3>1
    <3>3. m \in {c.seen, i}
      BY <3>2 DEF Min
    <3> QED
      BY <1>1, <1>5, <3>3
  <2>4. /\ Kept(h, p, v, D, t, O, P, X) /\ t[i] = NoNames
    <3> HIDE DEF h
    <3>1. /\ Kept(h, p, c.win, D, t, O, P, X)
          /\ Kept(h, p, Append(c.win, i), D, t, O, P, X)
          /\ t[i] = NoNames
      <4>1. f[s].nlink = 0 /\ i = f[s].ino /\ P[s] < 1 /\ f[s].ino # 0
        BY <1>2, <1>5, <1>7, <2>1
      <4> HIDE DEF f, i
      <4> QED
        BY <1>1, <2>1, <4>1, KeptFreed
    <3> QED
      BY <3>1
  <2>5. Iput(c, s) = Rec(h, p, D, t, v, seen, c.ip, "no")
    <3> DEFINE dead == [c EXCEPT !.slot[s].mode = "free", !.dirs[Ino(c, s)] = NoNames]
               b == [f EXCEPT ![s].mode = "free"]
    <3>1. [t EXCEPT ![i] = NoNames] = t
      BY <1>1, <1>5, <2>4 DEF Trees
    <3>2. dead = [c EXCEPT !.slot = b, !.dirs = [t EXCEPT ![i] = NoNames]]
      BY <1>1 DEF Layer, Ino
    <3>3. dead = Rec(b, c.list, D, t, c.win, c.seen, c.ip, "no")
      <4> HIDE DEF b, dead
      <4> QED
        BY <1>1, <3>1, <3>2 DEF Rec, Layer
    <3>4. Ifree(dead, i) = Rec(b, c.list, D, t, v, seen, c.ip, "no")
      <4> HIDE DEF b, dead
      <4>1. dead.win = c.win /\ dead.seen = c.seen
        BY <3>3 DEF Rec
      <4>2. CASE full
        <5>1. Ifree(dead, i) = [dead EXCEPT !.seen = m]
          BY <3>3, <4>1, <4>2 DEF Ifree, Rec
        <5> HIDE DEF m
        <5> QED
          BY <3>3, <4>2, <5>1 DEF Rec
      <4>3. CASE ~full
        <5>1. Ifree(dead, i) = [dead EXCEPT !.win = Append(c.win, i)]
          BY <3>3, <4>1, <4>3 DEF Ifree, Rec
        <5> QED
          BY <3>3, <4>3, <5>1 DEF Rec
      <4> QED
        BY <4>2, <4>3
    <3>5. Iput(c, s) = LetGo(Ifree(dead, i), s, left)
      BY <1>1, <1>3, <1>7 DEF Iput, IsDead, Ino
    <3>6. h = [b EXCEPT ![s].ref = left, ![s].locked = FALSE]
      BY <1>1, <1>7 DEF Slotted, Slot
    <3> HIDE DEF b, dead, h, v, seen, left
    <3>7. b \in Slotted
      BY <1>1, <1>3 DEF Slotted, Slot, Modes, b
    <3> DEFINE e == Rec(b, c.list, D, t, v, seen, c.ip, "no")
    <3>8. e \in Layer /\ e.slot = b /\ e.list = c.list
      <4> HIDE DEF b
      <4>1. D \in Disks /\ t \in Trees
        BY <1>1 DEF Volume
      <4> QED
        BY <1>1, <2>2, <2>3, <3>7, <4>1 DEF Rec, Layer, Spins, v, seen
    <3>9. /\ e.disk = D /\ e.dirs = t /\ e.win = v /\ e.seen = seen /\ e.ip = c.ip /\ e.spin = "no"
      BY DEF Rec
    <3>10. p = ListLeft(c.list, s, left)
      BY <1>4, <1>7 DEF ListLeft
    <3> HIDE DEF e, p
    <3>11. LetGo(e, s, left) = Rec(h, p, e.disk, e.dirs, e.win, e.seen, e.ip, e.spin)
      BY <3>6, <3>8, <3>10, LetGoRec DEF SlotLeft
    <3> QED
      BY <3>4, <3>5, <3>9, <3>11 DEF e
  <2> HIDE DEF h, p, v, seen
  <2>6. Book(Iput(c, s), D, t, O, P, X)
    BY <1>1, <1>2, <2>1, <2>2, <2>3, <2>4, <2>5, BookRec
  <2> QED
    BY <2>5, <2>6 DEF Rec
<1> QED
  BY <1>6, <1>7

(* iput.                                                                   *)
LEMMA IputBook ==
    ASSUME NEW c, NEW D, NEW t, NEW O, NEW P, NEW X, Book(c, D, t, O, P, X),
           NEW s \in Slots, P[s] >= 1
    PROVE  /\ Book(Iput(c, s), D, t, O, Minus(P, s), X)
           /\ Iput(c, s).ip = c.ip
<1>1. P \in Counts /\ Minus(P, s) \in Counts
  BY BookFields, CountsType
<1>2. \A u \in Slots : Minus(P, s)[u] <= P[u]
  BY <1>1 DEF Minus, Counts
<1>3. Book(c, D, t, O, Minus(P, s), X)
  BY <1>1, <1>2, BookLess
<1>4. Ino(c, s) # 0 /\ c.slot[s].ref >= P[s] /\ c.slot[s] \in Slot
  BY PinInfo
<1>5. Minus(P, s)[s] < c.slot[s].ref
  BY <1>1, <1>4 DEF Minus, Counts, Slot
<1> QED
  BY <1>3, <1>4, <1>5, IputSpare

-----------------------------------------------------------------------------
(* Those who hold what P counts still hold the same inodes.                *)
Agree(O, Q, P) == \A s \in Slots : P[s] > 0 => Q[s] = O[s]

(* What iget and namei return: the inode i, accounted for; or nothing, the *)
(* books as before, unless the routine never ends.                         *)
Fetched(r, D, t, O, P, X, i) ==
    /\ r \in Layer
    /\ r.ip = Null => r.spin # "no" \/ Book(r, D, t, O, P, X)
    /\ r.ip # Null => \E Q \in Owners : /\ Agree(O, Q, P) /\ Q[r.ip] = i /\ i \in Inodes
                                        /\ Book(r, D, t, Q, Plus(P, r.ip), X)

(* A reference that exists is accounted for from now on.                   *)
LEMMA BookPin ==
    ASSUME NEW c, NEW D, NEW t, NEW O, NEW P, NEW X, Book(c, D, t, O, P, X),
           NEW s \in Slots, P[s] < c.slot[s].ref, Ino(c, s) # 0, c.slot[s].mode # "free"
    PROVE  /\ Book(c, D, t, Put(O, s, Ino(c, s)), Plus(P, s), X)
           /\ Put(O, s, Ino(c, s)) \in Owners /\ Ino(c, s) \in Inodes
           /\ Put(O, s, Ino(c, s))[s] = Ino(c, s)
           /\ Agree(O, Put(O, s, Ino(c, s)), P)
<1> DEFINE f == c.slot
           i == Ino(c, s)
           Q == Put(O, s, i)
<1>1. /\ f \in Slotted /\ P \in Counts /\ O \in Owners /\ Pinned(f, O, P) /\ Plus(P, s) \in Counts
  BY BookFields, CountsType DEF Kept
<1>2. i \in Inodes /\ i = f[s].ino
  BY <1>1 DEF Ino, Slotted, Slot
<1>3. Q \in Owners /\ Q[s] = i /\ \A u \in Slots \ {s} : Q[u] = O[u]
  BY <1>1, <1>2 DEF Put, Owners
<1> HIDE DEF Q
<1>4. Pinned(f, Q, Plus(P, s))
  <2> SUFFICES ASSUME NEW u \in Slots
               PROVE  /\ Plus(P, s)[u] <= f[u].ref
                      /\ Plus(P, s)[u] > 0 => f[u].ino = Q[u] /\ Q[u] \in Inodes /\ f[u].mode # "free"
    BY DEF Pinned
  <2>1. /\ P[u] \in Nat /\ f[u].ref \in Nat /\ P[u] <= f[u].ref
        /\ P[u] > 0 => f[u].ino = O[u] /\ O[u] \in Inodes /\ f[u].mode # "free"
    BY <1>1 DEF Counts, Slotted, Slot, Pinned
  <2>2. Plus(P, s)[u] = IF u = s THEN P[u] + 1 ELSE P[u]
    BY DEF Plus
  <2> QED
    BY <1>2, <1>3, <2>1, <2>2
<1>5. Book(c, D, t, Q, Plus(P, s), X)
  BY <1>1, <1>3, <1>4 DEF Book, Kept
<1>6. Agree(O, Q, P)
  <2>1. \A u \in Slots : P[u] > 0 => f[u].ino = O[u]
    BY <1>1 DEF Pinned
  <2> QED
    BY <1>2, <1>3, <2>1 DEF Agree
<1> QED
  BY <1>2, <1>3, <1>5, <1>6 DEF Q

WithSlots(c, g, q, ip) == [c EXCEPT !.slot = g, !.list = q, !.ip = ip]

(* The fields it has then.                                                 *)
LEMMA WithSlotsRec ==
    ASSUME NEW c \in Layer, NEW g, NEW q, NEW ip
    PROVE  WithSlots(c, g, q, ip) = Rec(g, q, c.disk, c.dirs, c.win, c.seen, ip, c.spin)
<1>1. WithSlots(c, g, q, ip) = [c EXCEPT !.slot = g, !.list = q, !.ip = ip]
  BY DEF WithSlots
<1> QED
  BY <1>1 DEF Rec, Layer

(* Books with another array of slots.                                      *)
LEMMA BookSlot ==
    ASSUME NEW c, NEW D, NEW t, NEW O, NEW P, NEW X, Book(c, D, t, O, P, X),
           NEW g \in Slotted, NEW q \in Seq(Slots), NEW ip \in Slots \union {Null},
           Kept(g, q, c.win, D, t, O, P, X)
    PROVE  LET r == WithSlots(c, g, q, ip) IN Book(r, D, t, O, P, X) /\ r.slot = g /\ r.ip = ip
<1> DEFINE r == WithSlots(c, g, q, ip)
<1>1. /\ c \in Layer /\ c.disk = D /\ c.dirs = t /\ c.spin = "no" /\ c.win \in Seq(Inodes)
      /\ c.seen \in Inodes /\ Len(c.win) <= SB_FREE_INODE_MAX /\ O \in Owners /\ P \in Counts
      /\ Volume(D, t, X)
  BY BookFields
<1>2. r = Rec(g, q, D, t, c.win, c.seen, ip, "no")
  <2>1. c \in Layer /\ c.disk = D /\ c.dirs = t /\ c.spin = "no"
    BY <1>1
  <2> QED
    BY <2>1, WithSlotsRec
<1>3. Book(Rec(g, q, D, t, c.win, c.seen, ip, "no"), D, t, O, P, X)
  BY <1>1, BookRec
<1>4. r.slot = g /\ r.ip = ip
  BY <1>2 DEF Rec
<1> HIDE DEF r
<1> QED
  BY <1>2, <1>3, <1>4 DEF r

(* A slot gets one more reference.                                         *)
LEMMA KeptMore ==
    ASSUME NEW f \in Slotted, NEW g \in Slotted, NEW q, NEW w, NEW p,
           NEW D, NEW t, NEW O, NEW P \in Counts, NEW X, Kept(f, q, w, D, t, O, P, X), FreeList(g, p),
           NEW s \in Slots, SameBut(f, g, s), \A k \in 1..Len(w) : w[k] # f[s].ino,
           g[s].ino = f[s].ino, g[s].ref >= f[s].ref, g[s].nlink = f[s].nlink, g[s].mode = f[s].mode
    PROVE  Kept(g, p, w, D, t, O, P, X)
<1>1. /\ OneSlot(f) /\ Pinned(f, O, P) /\ Fresh(f, D, t, X) /\ Offers(f, w, t, X)
  BY DEF Kept
<1>2. \A u \in Slots : g[u].ino = f[u].ino /\ g[u].nlink = f[u].nlink /\ g[u].mode = f[u].mode
  BY DEF SameBut
<1>3. \A u \in Slots : g[u].ref >= f[u].ref /\ g[u].ref \in Nat /\ f[u].ref \in Nat /\ P[u] \in Nat
  <2> TAKE u \in Slots
  <2>1. g[u].ref \in Nat /\ f[u].ref \in Nat /\ P[u] \in Nat
    BY DEF Slotted, Slot, Counts
  <2> QED
    BY <2>1 DEF SameBut
<1>4. OneSlot(g)
  BY <1>1, <1>2 DEF OneSlot
<1>5. Pinned(g, O, P)
  <2> SUFFICES ASSUME NEW u \in Slots
               PROVE  /\ P[u] <= g[u].ref
                      /\ P[u] > 0 => g[u].ino = O[u] /\ O[u] \in Inodes /\ g[u].mode # "free"
    BY DEF Pinned
  <2>1. /\ P[u] <= f[u].ref
        /\ P[u] > 0 => f[u].ino = O[u] /\ O[u] \in Inodes /\ f[u].mode # "free"
    BY <1>1 DEF Pinned
  <2> QED
    BY <1>2, <1>3, <2>1
<1>6. Fresh(g, D, t, X)
  BY <1>1, <1>2 DEF Fresh
<1>7. Offers(g, w, t, X)
  BY <1>1, <1>2 DEF Offers, SameBut
<1> QED
  BY <1>4, <1>5, <1>6, <1>7 DEF Kept

(* A hit.                                                                  *)
LEMMA HitBook ==
    ASSUME NEW c, NEW D, NEW t, NEW O, NEW P, NEW X, Book(c, D, t, O, P, X),
           NEW s \in Slots, \A k \in 1..Len(c.win) : c.win[k] # c.slot[s].ino
    PROVE  /\ Book(Hit(c, s), D, t, O, P, X) /\ Hit(c, s).ip = s
           /\ Hit(c, s).slot[s].ref > P[s] /\ Hit(c, s).slot[s].ino = c.slot[s].ino
           /\ Hit(c, s).slot[s].mode = c.slot[s].mode
<1> DEFINE f == c.slot
           g == [f EXCEPT ![s].ref = f[s].ref + 1, ![s].locked = TRUE]
           p == IfreeRemove(c.list, s)
<1>1. /\ c \in Layer /\ f \in Slotted /\ c.list \in Seq(Slots) /\ P \in Counts /\ Pinned(f, O, P)
      /\ Kept(f, c.list, c.win, D, t, O, P, X) /\ FreeList(f, c.list)
  BY BookFields DEF Kept
<1>2. f[s].ref \in Nat /\ P[s] \in Nat /\ P[s] <= f[s].ref
  BY <1>1 DEF Slotted, Slot, Counts, Pinned
<1>3. /\ g \in Slotted /\ SameBut(f, g, s) /\ g[s].ino = f[s].ino /\ g[s].ref = f[s].ref + 1
      /\ g[s].mode = f[s].mode /\ g[s].nlink = f[s].nlink
  <2>1. f[s].ref + 1 \in Nat
    BY <1>2
  <2>2. g \in Slotted /\ SameBut(f, g, s) /\ g[s] = [f[s] EXCEPT !.ref = f[s].ref + 1, !.locked = TRUE]
    BY <1>1, <2>1 DEF Slotted, Slot, SameBut
  <2>3. f[s] \in Slot
    BY <1>1 DEF Slotted
  <2> HIDE DEF g
  <2> QED
    BY <2>2, <2>3 DEF Slot
<1>4. p \in Seq(Slots)
  BY <1>1, IfreeRemoveType
<1>5. Hit(c, s) = WithSlots(c, g, p, s)
  BY <1>1 DEF Hit, Layer, Slotted, Slot, WithSlots
<1> HIDE DEF g, f
<1>6. FreeList(g, p)
  <2>1. g[s].ref # 0 /\ \A u \in Slots \ {s} : g[u].ref = f[u].ref
    BY <1>2, <1>3 DEF SameBut
  <2> QED
    BY <1>1, <2>1, ListedNoMore
<1> HIDE DEF p
<1>7. Kept(g, p, c.win, D, t, O, P, X)
  <2>1. g[s].ref >= f[s].ref
    BY <1>2, <1>3
  <2>2. \A k \in 1..Len(c.win) : c.win[k] # f[s].ino
    BY DEF f
  <2> QED
    BY <1>1, <1>3, <1>6, <2>1, <2>2, KeptMore
<1>8. Book(Hit(c, s), D, t, O, P, X) /\ Hit(c, s).slot = g /\ Hit(c, s).ip = s
  BY <1>3, <1>4, <1>5, <1>7, BookSlot
<1> QED
  BY <1>2, <1>3, <1>8 DEF f

(* A slot from the free list takes an inode in.                            *)
LEMMA LoadedBook ==
    ASSUME NEW c, NEW D, NEW t, NEW O, NEW P, NEW X, Book(c, D, t, O, P, X), c.list # <<>>,
           NEW i \in Inodes, \A u \in Slots : Ino(c, u) # i, D[i].mode # "free",
           \A k \in 1..Len(c.win) : c.win[k] # i, NEW s, s = Head(c.list)
    PROVE  /\ Book(Loaded(c, s, i), D, t, O, P, X) /\ Loaded(c, s, i).ip = s /\ s \in Slots
           /\ P[s] = 0 /\ Loaded(c, s, i).slot[s].ref = 1 /\ Loaded(c, s, i).slot[s].ino = i
           /\ Loaded(c, s, i).slot[s].mode = D[i].mode
<1> DEFINE f == c.slot
           new == [ino |-> i, ref |-> 1, locked |-> TRUE, mode |-> D[i].mode, nlink |-> D[i].nlink]
           g == [f EXCEPT ![s] = new]
           p == Tail(c.list)
<1>1. /\ c \in Layer /\ f \in Slotted /\ c.list \in Seq(Slots) /\ P \in Counts /\ c.disk = D
      /\ D \in Disks
      /\ FreeList(f, c.list) /\ OneSlot(f) /\ Pinned(f, O, P) /\ Fresh(f, D, t, X)
      /\ Offers(f, c.win, t, X)
  BY BookFields DEF Kept
<1>2. new \in Slot
  BY <1>1 DEF Slot, Disks, Info
<1>3. s \in Slots /\ p \in Seq(Slots)
  BY <1>1, HeadTailProperties, EmptySeq
<1>4. Loaded(c, s, i) = WithSlots(c, g, p, s)
  BY <1>1, <1>3 DEF Loaded, Layer, WithSlots
<1>5. g \in Slotted /\ g[s] = new /\ SameBut(f, g, s)
  BY <1>1, <1>2, <1>3 DEF Slotted, SameBut
<1> HIDE DEF f, g
<1>6. FreeList(g, p) /\ f[s].ref = 0
  <2>1. g[s].ref # 0 /\ \A u \in Slots \ {s} : g[u].ref = f[u].ref
    BY <1>5 DEF SameBut
  <2> QED
    BY <1>1, <2>1, HeadTaken
<1> HIDE DEF p
<1>7. P[s] = 0
  BY <1>1, <1>3, <1>6 DEF Pinned, Counts
<1>8. /\ g[s].ino = i /\ g[s].ref = 1 /\ g[s].mode = D[i].mode /\ g[s].nlink = D[i].nlink
      /\ \A u \in Slots : f[u].ino # i
  BY <1>5 DEF Ino, f
<1> HIDE DEF new
<1>9. OneSlot(g)
  BY <1>1, <1>3, <1>5, <1>8 DEF OneSlot, SameBut
<1>10. Pinned(g, O, P)
  BY <1>1, <1>3, <1>5, <1>7, <1>8 DEF Pinned, SameBut
<1>11. Fresh(g, D, t, X)
  BY <1>1, <1>3, <1>5, <1>8 DEF Fresh, SameBut
<1>12. Offers(g, c.win, t, X)
  BY <1>1, <1>3, <1>5, <1>8 DEF Offers, SameBut
<1>13. Kept(g, p, c.win, D, t, O, P, X)
  BY <1>6, <1>9, <1>10, <1>11, <1>12 DEF Kept
<1>14. Book(Loaded(c, s, i), D, t, O, P, X) /\ Loaded(c, s, i).slot = g /\ Loaded(c, s, i).ip = s
  BY <1>3, <1>4, <1>5, <1>13, BookSlot
<1> QED
  BY <1>3, <1>7, <1>8, <1>14

Spun(c, spin) == [c EXCEPT !.spin = spin, !.ip = Null]

(* iget, by cases.                                                         *)
LEMMA IgetCases ==
    ASSUME NEW c, c.spin = "no", NEW i
    PROVE  \/ \E s \in Slots : Ino(c, s) = i /\ Iget(c, i) = Spun(c, "iget")
           \/ \E s \in Slots : Ino(c, s) = i /\ Iget(c, i) = Hit(c, s)
           \/ (\A s \in Slots : Ino(c, s) # i) /\ c.list = <<>> /\ Iget(c, i) = [c EXCEPT !.ip = Null]
           \/ /\ \A s \in Slots : Ino(c, s) # i
              /\ c.list # <<>> /\ Iget(c, i) = Loaded(c, Head(c.list), i)
<1>1. CASE \E s \in Slots : Ino(c, s) = i
  <2> DEFINE s == CHOOSE s \in Slots : Ino(c, s) = i
  <2>1. s \in Slots /\ Ino(c, s) = i
    BY <1>1
  <2>2. Iget(c, i) = IF c.slot[s].locked THEN Spun(c, "iget") ELSE Hit(c, s)
    BY <1>1 DEF Iget, Spun
  <2> QED
    BY <2>1, <2>2
<1>2. CASE ~\E s \in Slots : Ino(c, s) = i
  BY <1>2 DEF Iget, Loaded
<1> QED
  BY <1>1, <1>2

(* A routine that never ends returned nothing.                             *)
LEMMA Stuck ==
    ASSUME NEW c \in Layer, NEW spin \in Spins \ {"no"}, NEW D, NEW t, NEW O, NEW P, NEW X, NEW i
    PROVE  Fetched(Spun(c, spin), D, t, O, P, X, i)
BY DEF Fetched, Layer, Spun

(* A layer that returned nothing.                                          *)
LEMMA Nothing ==
    ASSUME NEW c, NEW D, NEW t, NEW O, NEW P, NEW X, Book(c, D, t, O, P, X), NEW i
    PROVE  Fetched([c EXCEPT !.ip = Null], D, t, O, P, X, i)
<1>1. Book([c EXCEPT !.ip = Null], D, t, O, P, X)
  BY BookIp
<1>2. [c EXCEPT !.ip = Null].ip = Null
  BY BookFields DEF Layer
<1> QED
  BY <1>1, <1>2, BookFields DEF Fetched

(* A layer that returned the slot s, with a reference to spare.            *)
LEMMA Something ==
    ASSUME NEW c, NEW D, NEW t, NEW O, NEW P, NEW X, Book(c, D, t, O, P, X), NEW s \in Slots, c.ip = s,
           P[s] < c.slot[s].ref, c.slot[s].ino # 0, c.slot[s].mode # "free"
    PROVE  Fetched(c, D, t, O, P, X, c.slot[s].ino)
<1>1. c \in Layer /\ c.ip # Null
  BY BookFields, CacheAssumption DEF Slots
<1> QED
  BY <1>1, BookPin DEF Fetched, Ino

(* iget of an inode that has not gone.                                     *)
LEMMA IgetBook ==
    ASSUME NEW c, NEW D, NEW t, NEW O, NEW P, NEW X, Book(c, D, t, O, P, X), NEW i \in Alive(t, X)
    PROVE  Fetched(Iget(c, i), D, t, O, P, X, i)
<1>1. /\ c \in Layer /\ c.spin = "no" /\ Volume(D, t, X) /\ c.slot \in Slotted /\ P \in Counts
      /\ Fresh(c.slot, D, t, X) /\ Offers(c.slot, c.win, t, X)
  BY BookFields DEF Kept
<1>2. i \in Inodes /\ D[i].mode # "free" /\ i # 0
  BY <1>1, AliveHasLink, CacheAssumption DEF Inodes
<1>3. \A k \in 1..Len(c.win) : c.win[k] # i
  BY <1>1 DEF Offers
<1>4. ASSUME Iget(c, i) = Spun(c, "iget")
      PROVE  Fetched(Iget(c, i), D, t, O, P, X, i)
  BY <1>1, <1>4, Stuck DEF Spins
<1>5. ASSUME NEW s \in Slots, Ino(c, s) = i, Iget(c, i) = Hit(c, s)
      PROVE  Fetched(Iget(c, i), D, t, O, P, X, i)
  <2>1. c.slot[s].ino = i /\ c.slot[s].mode # "free" /\ \A k \in 1..Len(c.win) : c.win[k] # c.slot[s].ino
    BY <1>1, <1>2, <1>3, <1>5 DEF Ino, Fresh
  <2> DEFINE r == Hit(c, s)
  <2>2. /\ Book(r, D, t, O, P, X) /\ r.ip = s /\ r.slot[s].ref > P[s] /\ r.slot[s].ino = i
        /\ r.slot[s].mode # "free"
    BY <2>1, HitBook
  <2> HIDE DEF r
  <2>3. r.slot[s].ref \in Nat /\ P[s] \in Nat
    BY <1>1, <2>2, BookFields DEF Slotted, Slot, Counts
  <2>4. Fetched(r, D, t, O, P, X, r.slot[s].ino)
    BY <1>2, <2>2, <2>3, Something
  <2> QED
    BY <1>5, <2>2, <2>4 DEF r
<1>6. ASSUME Iget(c, i) = [c EXCEPT !.ip = Null]
      PROVE  Fetched(Iget(c, i), D, t, O, P, X, i)
  BY <1>6, Nothing
<1>7. ASSUME \A s \in Slots : Ino(c, s) # i, c.list # <<>>, Iget(c, i) = Loaded(c, Head(c.list), i)
      PROVE  Fetched(Iget(c, i), D, t, O, P, X, i)
  <2> DEFINE s == Head(c.list)
             r == Loaded(c, s, i)
  <2>1. /\ Book(r, D, t, O, P, X) /\ r.ip = s /\ s \in Slots /\ P[s] = 0 /\ r.slot[s].ref = 1
        /\ r.slot[s].ino = i /\ r.slot[s].mode = D[i].mode
    BY <1>2, <1>3, <1>7, LoadedBook
  <2> HIDE DEF r, s
  <2>2. Fetched(r, D, t, O, P, X, r.slot[s].ino)
    BY <1>2, <2>1, Something
  <2> QED
    BY <1>7, <2>1, <2>2 DEF r, s
<1> QED
  BY <1>1, <1>4, <1>5, <1>6, <1>7, IgetCases

(* The file table takes a reference of its own.                            *)
LEMMA HoldBook ==
    ASSUME NEW c, NEW D, NEW t, NEW O, NEW P, NEW X, Book(c, D, t, O, P, X),
           NEW s \in Slots, P[s] >= 1
    PROVE  Book(Hold(c, s), D, t, O, Plus(P, s), X) /\ Hold(c, s).ip = c.ip
<1> DEFINE f == c.slot
           g == [f EXCEPT ![s].ref = f[s].ref + 1]
<1>1. /\ c \in Layer /\ f \in Slotted /\ c.list \in Seq(Slots) /\ P \in Counts /\ Pinned(f, O, P)
      /\ O \in Owners /\ c.spin = "no" /\ c.ip \in Slots \union {Null}
      /\ Kept(f, c.list, c.win, D, t, O, P, X) /\ FreeList(f, c.list) /\ Offers(f, c.win, t, X)
  BY BookFields DEF Kept
<1>2. f[s].ref \in Nat /\ P[s] \in Nat /\ P[s] <= f[s].ref
  BY <1>1 DEF Slotted, Slot, Counts, Pinned
<1>3. /\ g \in Slotted /\ SameBut(f, g, s) /\ g[s].ino = f[s].ino /\ g[s].ref = f[s].ref + 1
      /\ g[s].mode = f[s].mode /\ g[s].nlink = f[s].nlink
  <2>1. f[s].ref + 1 \in Nat
    BY <1>2
  <2>2. g \in Slotted /\ SameBut(f, g, s) /\ g[s] = [f[s] EXCEPT !.ref = f[s].ref + 1]
    BY <1>1, <2>1 DEF Slotted, Slot, SameBut
  <2>3. f[s] \in Slot
    BY <1>1 DEF Slotted
  <2> HIDE DEF g
  <2> QED
    BY <2>2, <2>3 DEF Slot
<1>4. Hold(c, s) = WithSlots(c, g, c.list, c.ip)
  BY <1>1 DEF Hold, Layer, Slotted, Slot, WithSlots
<1> HIDE DEF f, g
<1>5. FreeList(g, c.list)
  <2>1. \A u \in Slots : g[u].ref = 0 <=> f[u].ref = 0
    BY <1>2, <1>3 DEF SameBut
  <2> QED
    BY <1>1, <2>1 DEF FreeList
<1>6. \A k \in 1..Len(c.win) : c.win[k] # f[s].ino
  BY <1>1, <1>2 DEF Offers
<1>7. Kept(g, c.list, c.win, D, t, O, P, X)
  <2>1. g[s].ref >= f[s].ref
    BY <1>2, <1>3
  <2> QED
    BY <1>1, <1>3, <1>5, <1>6, <2>1, KeptMore
<1> DEFINE r == Hold(c, s)
<1>8. Book(r, D, t, O, P, X) /\ r.slot = g /\ r.ip = c.ip
  BY <1>1, <1>3, <1>4, <1>7, BookSlot
<1>9. f[s].ino = O[s] /\ O[s] \in Inodes /\ f[s].mode # "free" /\ O[s] # 0
  BY PinInfo DEF Ino, f
<1> HIDE DEF r
<1>10. P[s] < r.slot[s].ref /\ Ino(r, s) = O[s] /\ r.slot[s].mode # "free"
  BY <1>2, <1>3, <1>8, <1>9 DEF Ino
<1>11. Book(r, D, t, Put(O, s, O[s]), Plus(P, s), X)
  BY <1>8, <1>9, <1>10, BookPin
<1>12. Put(O, s, O[s]) = O
  BY <1>1 DEF Put, Owners
<1> QED
  BY <1>8, <1>11, <1>12 DEF r

(* Locks are not in the books.                                             *)
LEMMA UnlockBook ==
    ASSUME NEW c, NEW D, NEW t, NEW O, NEW P, NEW X, Book(c, D, t, O, P, X), NEW s \in Slots
    PROVE  Book(Unlock(c, s), D, t, O, P, X) /\ Unlock(c, s).ip = c.ip
<1> DEFINE f == c.slot
           g == [f EXCEPT ![s].locked = FALSE]
<1>1. /\ c \in Layer /\ f \in Slotted /\ c.list \in Seq(Slots) /\ c.spin = "no"
      /\ c.ip \in Slots \union {Null}
      /\ Kept(f, c.list, c.win, D, t, O, P, X)
  BY BookFields
<1>2. /\ g \in Slotted
      /\ \A u \in Slots : /\ g[u].ino = f[u].ino /\ g[u].ref = f[u].ref
                          /\ g[u].mode = f[u].mode /\ g[u].nlink = f[u].nlink
  BY <1>1 DEF Slotted, Slot
<1>3. Unlock(c, s) = WithSlots(c, g, c.list, c.ip)
  BY <1>1 DEF Unlock, Layer, WithSlots
<1> HIDE DEF f, g
<1>4. Kept(g, c.list, c.win, D, t, O, P, X)
  BY <1>1, <1>2 DEF Kept, FreeList, OneSlot, Pinned, Fresh, Offers
<1> QED
  BY <1>1, <1>2, <1>3, <1>4, BookSlot

-----------------------------------------------------------------------------
(* The first k components of a path lead from the root to the inode i. *)
Way(t, at, k, w) == w[0] = Root /\ \A j \in 1..k : w[j] = t[w[j - 1]][at[j]]
Leads(t, at, k, i) == \E w \in [0..k -> Inodes] : Way(t, at, k, w) /\ w[k] = i

(* No component leads to the root.                                         *)
LEMMA LeadsNowhere ==
    ASSUME NEW t, NEW at
    PROVE  Leads(t, at, 0, Root)
<1> DEFINE w == [k \in 0..0 |-> Root]
<1>1. w \in [0..0 -> Inodes] /\ w[0] = Root
  BY RootIsAlive
<1> HIDE DEF w
<1>2. Way(t, at, 0, w)
  BY <1>1 DEF Way
<1> QED
  BY <1>1, <1>2 DEF Leads

(* One more component.                                                     *)
LEMMA LeadsOn ==
    ASSUME NEW t, NEW at, NEW k \in Nat, NEW i \in Inodes, Leads(t, at, k, i),
           NEW j \in Inodes, t[i][at[k + 1]] = j
    PROVE  Leads(t, at, k + 1, j)
<1>1. PICK w \in [0..k -> Inodes] : Way(t, at, k, w) /\ w[k] = i
  BY DEF Leads
<1> DEFINE v == [l \in 0..(k + 1) |-> IF l <= k THEN w[l] ELSE j]
<1>2. v \in [0..(k + 1) -> Inodes]
  OBVIOUS
<1>3. v[k + 1] = j /\ \A l \in 0..k : v[l] = w[l]
  OBVIOUS
<1> HIDE DEF v
<1>4. v[0] = Root
  BY <1>1, <1>3 DEF Way
<1>5. ASSUME NEW l \in 1..(k + 1)
      PROVE  v[l] = t[v[l - 1]][at[l]]
  <2>1. CASE l = k + 1
    BY <1>1, <1>3, <2>1
  <2>2. CASE l # k + 1
    <3>1. l \in 1..k /\ l \in 0..k /\ l - 1 \in 0..k
      BY <2>2
    <3> QED
      BY <1>1, <1>3, <3>1 DEF Way
  <2> QED
    BY <2>1, <2>2
<1>6. Way(t, at, k + 1, v)
  BY <1>4, <1>5 DEF Way
<1> QED
  BY <1>2, <1>3, <1>6 DEF Leads

(* A path with a last component leads there from its parent.               *)
LEMMA LeadsFrom ==
    ASSUME NEW t, NEW at, NEW k \in Nat \ {0}, NEW j, Leads(t, at, k, j), NEW l, l = k - 1
    PROVE  \E i \in Inodes : Leads(t, at, l, i) /\ t[i][at[k]] = j
<1>1. PICK w \in [0..k -> Inodes] : Way(t, at, k, w) /\ w[k] = j
  BY DEF Leads
<1> DEFINE v == [x \in 0..(k - 1) |-> w[x]]
<1>2. v \in [0..(k - 1) -> Inodes] /\ v[k - 1] = w[k - 1] /\ w[k - 1] \in Inodes
  OBVIOUS
<1>3. \A x \in 0..(k - 1) : v[x] = w[x]
  OBVIOUS
<1> HIDE DEF v
<1>4. v[0] = Root
  BY <1>1, <1>3 DEF Way
<1>5. ASSUME NEW x \in 1..(k - 1)
      PROVE  v[x] = t[v[x - 1]][at[x]]
  <2>1. x \in 1..k /\ x \in 0..(k - 1) /\ x - 1 \in 0..(k - 1)
    OBVIOUS
  <2> QED
    BY <1>1, <1>3, <2>1 DEF Way
<1>6. Way(t, at, k - 1, v)
  BY <1>4, <1>5 DEF Way
<1>7. Leads(t, at, k - 1, w[k - 1])
  BY <1>2, <1>6 DEF Leads
<1>8. t[w[k - 1]][at[k]] = j
  <2>1. k \in 1..k
    OBVIOUS
  <2> QED
    BY <1>1, <2>1 DEF Way
<1> QED
  BY <1>2, <1>7, <1>8

(* It leads to one inode.                                                  *)
LEMMA LeadsOnce ==
    ASSUME NEW t, NEW at, NEW bt, NEW k \in Nat, \A j \in 1..k : at[j] = bt[j],
           NEW i, NEW j, Leads(t, at, k, i), Leads(t, bt, k, j)
    PROVE  i = j
<1>1. PICK w \in [0..k -> Inodes] : Way(t, at, k, w) /\ w[k] = i
  BY DEF Leads
<1>2. PICK v \in [0..k -> Inodes] : Way(t, bt, k, v) /\ v[k] = j
  BY DEF Leads
<1> DEFINE S == {l \in 0..k : w[l] = v[l]}
<1>3. 0 \in S
  BY <1>1, <1>2 DEF Way
<1>4. ASSUME NEW l \in 0..(k - 1), l \in S
      PROVE  l + 1 \in S
  <2>1. l + 1 \in 1..k /\ (l + 1) - 1 = l
    OBVIOUS
  <2>2. w[l + 1] = t[w[l]][at[l + 1]] /\ v[l + 1] = t[v[l]][bt[l + 1]]
    BY <1>1, <1>2, <2>1 DEF Way
  <2> QED
    BY <1>4, <2>1, <2>2
<1> HIDE DEF S
<1>5. \A l \in 0..k : l \in S
  BY <1>3, <1>4, InductionUpTo
<1>6. k \in S
  BY <1>5
<1> QED
  BY <1>1, <1>2, <1>6 DEF S

(* What a path leads to has not gone.                                      *)
LEMMA LeadsAlive ==
    ASSUME NEW D, NEW t, NEW X, Volume(D, t, X), NEW at, NEW k \in Nat,
           \A j \in 1..k : at[j] \in Names, NEW i, Leads(t, at, k, i)
    PROVE  /\ i \in Inodes /\ i \in Alive(t, X) /\ i \in Linked(t, X)
           /\ (k = 0 => i = Root) /\ (k # 0 => i # Root)
<1>1. PICK w \in [0..k -> Inodes] : Way(t, at, k, w) /\ w[k] = i
  BY DEF Leads
<1>2. i \in Inodes
  BY <1>1
<1>3. CASE k = 0
  BY <1>1, <1>2, <1>3, RootIsAlive DEF Way
<1>4. CASE k # 0
  <2>1. k \in 1..k /\ w[k - 1] \in Inodes /\ at[k] \in Names
    BY <1>4
  <2>2. t[w[k - 1]][at[k]] = i
    BY <1>1, <2>1 DEF Way
  <2>3. i # 0
    BY <1>2, CacheAssumption DEF Inodes
  <2>4. i \in Alive(t, X) /\ i \in Linked(t, X) /\ i # Root
    BY <2>1, <2>2, <2>3, NamedIsAlive
  <2> QED
    BY <1>2, <1>4, <2>4
<1> QED
  BY <1>3, <1>4

(* A state of the walk: nothing, or the inode the first components lead to.*)
OnTheWay(r, D, t, O, P, X, at, k) ==
    \E i : Fetched(r, D, t, O, P, X, i) /\ (r.ip # Null => Leads(t, at, k, i))

(* What was fetched is nothing, or an inode the books account for.         *)
LEMMA FetchedIs ==
    ASSUME NEW r, NEW D, NEW t, NEW O, NEW P, NEW X, NEW i, Fetched(r, D, t, O, P, X, i)
    PROVE  /\ r \in Layer /\ r.ip \in Slots \union {Null}
           /\ r.spin # "no" => r.ip = Null
           /\ r.ip = Null /\ r.spin = "no" => Book(r, D, t, O, P, X)
           /\ r.ip # Null => \E Q \in Owners : /\ Agree(O, Q, P) /\ Q[r.ip] = i /\ i \in Inodes
                                               /\ Book(r, D, t, Q, Plus(P, r.ip), X)
<1>1. r \in Layer /\ r.ip \in Slots \union {Null}
  BY DEF Fetched, Layer
<1>2. \A Q : Book(r, D, t, Q, Plus(P, r.ip), X) => r.spin = "no"
  BY DEF Book
<1> QED
  BY <1>1, <1>2 DEF Fetched

(* Books are also those of owners that agree where it matters.             *)
LEMMA BookAgree ==
    ASSUME NEW c, NEW D, NEW t, NEW O \in Owners, NEW P, NEW X, NEW Q, Agree(O, Q, P),
           Book(c, D, t, Q, P, X)
    PROVE  Book(c, D, t, O, P, X)
<1>1. Pinned(c.slot, Q, P)
  BY DEF Book, Kept
<1>2. Pinned(c.slot, O, P)
  BY <1>1 DEF Pinned, Agree
<1> QED
  BY <1>2 DEF Book, Kept

(* The same of what was fetched.                                           *)
LEMMA FetchedAgree ==
    ASSUME NEW r, NEW D, NEW t, NEW O \in Owners, NEW P, NEW X, NEW Q, Agree(O, Q, P), NEW m,
           Fetched(r, D, t, Q, P, X, m)
    PROVE  Fetched(r, D, t, O, P, X, m)
<1>1. r.ip # Null => \E M \in Owners : /\ Agree(O, M, P) /\ M[r.ip] = m /\ m \in Inodes
                                       /\ Book(r, D, t, M, Plus(P, r.ip), X)
  BY DEF Fetched, Agree
<1>2. Book(r, D, t, Q, P, X) => Book(r, D, t, O, P, X)
  BY BookAgree
<1> QED
  BY <1>1, <1>2 DEF Fetched

(* One component of a walk.                                                *)
LEMMA WalkStepBook ==
    ASSUME NEW D, NEW t, NEW O \in Owners, NEW P \in Counts, NEW X, Volume(D, t, X), NEW at, NEW k \in Nat,
           \A j \in 1..(k + 1) : at[j] \in Names,
           NEW c, OnTheWay(c, D, t, O, P, X, at, k)
    PROVE  OnTheWay(WalkStep(c, at[k + 1]), D, t, O, P, X, at, k + 1)
<1>1. PICK i : Fetched(c, D, t, O, P, X, i) /\ (c.ip # Null => Leads(t, at, k, i))
  BY DEF OnTheWay
<1>2. CASE c.ip = Null
  BY <1>1, <1>2 DEF WalkStep, OnTheWay
<1>3. CASE c.ip # Null
  <2> DEFINE s == c.ip
             n == at[k + 1]
             j == Lookup(c, s, n)
             left == Iput(c, s)
  <2>1. PICK Q \in Owners : /\ Agree(O, Q, P) /\ Q[s] = i /\ i \in Inodes
                            /\ Book(c, D, t, Q, Plus(P, s), X)
    BY <1>1, <1>3, FetchedIs
  <2>2. s \in Slots /\ n \in Names /\ t \in Trees
    <3>1. k + 1 \in 1..(k + 1)
      OBVIOUS
    <3> QED
      BY <1>1, <1>3, <3>1, FetchedIs DEF Volume
  <2>3. i \in Alive(t, X)
    BY <1>1, <1>3, LeadsAlive
  <2>4. Plus(P, s)[s] >= 1
    BY <2>2 DEF Plus, Counts
  <2>5. j = IF D[i].mode = "dir" THEN t[i][n] ELSE 0
    BY <2>1, <2>2, <2>3, <2>4, PinInfo
  <2>6. Book(left, D, t, Q, P, X)
    <3>1. Book(left, D, t, Q, Minus(Plus(P, s), s), X)
      BY <2>1, <2>2, <2>4, IputBook
    <3> QED
      BY <3>1, PlusMinus
  <2>7. \A r, m : Fetched(r, D, t, Q, P, X, m) => Fetched(r, D, t, O, P, X, m)
    BY <2>1, FetchedAgree
  <2>8. WalkStep(c, n) = IF j = 0 THEN [left EXCEPT !.ip = Null] ELSE Iget(left, j)
    BY <1>3 DEF WalkStep
  <2> HIDE DEF left, j
  <2>9. CASE j = 0
    <3> DEFINE r == [left EXCEPT !.ip = Null]
    <3>1. Fetched(r, D, t, O, P, X, 0) /\ r.ip = Null
      <4>1. Fetched(r, D, t, Q, P, X, 0)
        BY <2>6, Nothing
      <4>2. r.ip = Null
        BY <2>6, BookFields DEF Layer
      <4> HIDE DEF r
      <4> QED
        BY <2>7, <4>1, <4>2
    <3> HIDE DEF r
    <3>2. OnTheWay(r, D, t, O, P, X, at, k + 1)
      BY <3>1 DEF OnTheWay
    <3> QED
      BY <2>8, <2>9, <3>2 DEF r
  <2>10. CASE j # 0
    <3>1. j = t[i][n] /\ j \in Inodes /\ j \in Alive(t, X)
      <4>1. j = t[i][n]
        BY <2>5, <2>10
      <4>2. t[i][n] # 0
        BY <2>10, <4>1
      <4> QED
        BY <2>1, <2>2, <4>1, <4>2, NamedIsAlive
    <3>2. Leads(t, at, k + 1, j)
      BY <1>1, <1>3, <2>1, <3>1, LeadsOn
    <3>3. Fetched(Iget(left, j), D, t, O, P, X, j)
      BY <2>6, <2>7, <3>1, IgetBook
    <3> QED
      BY <2>8, <2>10, <3>2, <3>3 DEF OnTheWay
  <2> QED
    BY <2>9, <2>10
<1> QED
  BY <1>2, <1>3

(* namei of an absolute path.                                              *)
LEMMA NameiBook ==
    ASSUME NEW c, NEW D, NEW t, NEW O, NEW P, NEW X, Book(c, D, t, O, P, X),
           NEW path \in PathSet, path.abs, NEW w
    PROVE  OnTheWay(Namei(c, path, w), D, t, O, P, X, path.at, Len(path.at))
<1> DEFINE U == {s \in Slots : P[s] > 0}
           m == Len(path.at)
           at == path.at
<1>1. Good(c, U, Slots) /\ U \in SUBSET Slots /\ Volume(D, t, X) /\ P \in Counts /\ O \in Owners
  BY BookGood, BookFields
<1>2. m \in Nat /\ \A k \in 1..m : at[k] \in Names
  BY LenProperties, ElementOfSeq DEF PathSet
<1>3. PICK F : WalkOf(c, path, w, F)
  <2>1. CanStart(path, w, U)
    BY DEF CanStart
  <2> HIDE DEF U
  <2> QED
    BY <1>1, <2>1, NameiWalk
<1> DEFINE I == [k \in 0..m |-> {d \in Layer : OnTheWay(d, D, t, O, P, X, at, k)}]
<1>4. F[0] \in I[0]
  <2>1. F[0] = Iget(c, Root)
    BY <1>3 DEF WalkOf, Start
  <2>2. Fetched(Iget(c, Root), D, t, O, P, X, Root)
    BY RootIsAlive, IgetBook
  <2>3. Leads(t, at, 0, Root)
    BY LeadsNowhere
  <2>4. OnTheWay(F[0], D, t, O, P, X, at, 0)
    BY <2>1, <2>2, <2>3 DEF OnTheWay
  <2>5. F[0] \in Layer
    BY <2>1, <2>2 DEF Fetched
  <2> QED
    BY <1>2, <2>4, <2>5
<1>5. ASSUME NEW k \in 1..m, F[k - 1] \in I[k - 1]
      PROVE  F[k] \in I[k]
  <2>1. k - 1 \in Nat /\ k - 1 \in 0..m /\ (k - 1) + 1 = k /\ k \in 0..m
    BY <1>2
  <2>2. OnTheWay(F[k - 1], D, t, O, P, X, at, k - 1)
    BY <1>5, <2>1
  <2>3. F[k] = WalkStep(F[k - 1], at[k])
    BY <1>3 DEF WalkOf
  <2>4. \A j \in 1..((k - 1) + 1) : at[j] \in Names
    BY <1>2, <2>1
  <2> DEFINE l == k - 1
  <2>5. OnTheWay(WalkStep(F[l], at[l + 1]), D, t, O, P, X, at, l + 1)
    <3> HIDE DEF l, I
    <3>1. l \in Nat /\ (\A j \in 1..(l + 1) : at[j] \in Names) /\ OnTheWay(F[l], D, t, O, P, X, at, l)
      BY <2>1, <2>2, <2>4 DEF l
    <3> QED
      BY <1>1, <3>1, WalkStepBook
  <2>6. OnTheWay(F[k], D, t, O, P, X, at, k)
    BY <2>1, <2>3, <2>5
  <2>7. F[k] \in Layer
    BY <2>6 DEF OnTheWay, Fetched
  <2> QED
    BY <2>1, <2>6, <2>7
<1> HIDE DEF I
<1>6. \A k \in 0..m : F[k] \in I[k]
  BY <1>2, <1>4, <1>5, LoopUpTo
<1>7. F[m] \in I[m] /\ m \in 0..m
  BY <1>2, <1>6
<1>8. OnTheWay(F[m], D, t, O, P, X, at, m)
  BY <1>7 DEF I
<1> QED
  BY <1>3, <1>8 DEF WalkOf

-----------------------------------------------------------------------------
(* The window. Free(w, D, m): it offers inodes that are free on the disk   *)
(* and numbered up to m, each of them once.                                *)
FreeUpTo(D, m) ==
    {w \in Wins : /\ \A k \in 1..Len(w) : w[k] <= m /\ D[w[k]].mode = "free"
                  /\ \A j, k \in 1..Len(w) : w[j] = w[k] => j = k}

(* sb_refill_inodes collects free numbers, each of them once.              *)
LEMMA FillsFree ==
    ASSUME NEW c \in Layer, NEW f, Fills(c, f)
    PROVE  f[MaxIno] \in FreeUpTo(c.disk, MaxIno)
<1>1. MaxIno \in Nat /\ SB_FREE_INODE_MAX \in Nat /\ c.seen \in 1..MaxIno
  BY CacheAssumption DEF Layer, Inodes
<1>2. \A m : <<>> \in FreeUpTo(c.disk, m)
  <2>1. <<>> \in Seq(Inodes) /\ Len(<<>>) = 0
    BY EmptySeq
  <2> QED
    BY <1>1, <2>1 DEF FreeUpTo, Wins
<1>3. ASSUME NEW i \in 1..MaxIno, NEW w \in FreeUpTo(c.disk, i - 1)
      PROVE  AddFree(c, w, i) \in FreeUpTo(c.disk, i)
  <2>1. w \in Seq(Inodes) /\ w \in Wins /\ Len(w) \in Nat /\ \A k \in 1..Len(w) : w[k] \in Nat
    <3>1. w \in Seq(Inodes) /\ w \in Wins
      BY DEF FreeUpTo, Wins
    <3> QED
      BY <1>1, <3>1, LenProperties, ElementOfSeq DEF Inodes
  <2>2. CASE IsFree(c, i) /\ Len(w) < SB_FREE_INODE_MAX
    <3> DEFINE v == Append(w, i)
    <3>1. /\ v \in Seq(Inodes) /\ Len(v) = Len(w) + 1 /\ v[Len(w) + 1] = i
          /\ \A k \in 1..Len(w) : v[k] = w[k]
      BY <2>1, AppendProperties DEF Inodes
    <3>2. v \in Wins
      BY <1>1, <2>1, <2>2, <3>1 DEF Wins
    <3>3. AddFree(c, w, i) = v
      BY <2>2 DEF AddFree
    <3> HIDE DEF v
    <3>4. \A k \in 1..Len(w) : w[k] <= i - 1 /\ c.disk[w[k]].mode = "free"
      BY DEF FreeUpTo
    <3>5. ASSUME NEW k \in 1..Len(v) PROVE v[k] <= i /\ c.disk[v[k]].mode = "free"
      <4>1. CASE k = Len(w) + 1
        BY <2>2, <3>1, <4>1 DEF IsFree
      <4>2. CASE k # Len(w) + 1
        <5>1. k \in 1..Len(w)
          BY <2>1, <3>1, <4>2
        <5> QED
          BY <2>1, <3>1, <3>4, <5>1
      <4> QED
        BY <4>1, <4>2
    <3>6. ASSUME NEW j \in 1..Len(v), NEW k \in 1..Len(v), v[j] = v[k] PROVE j = k
      <4>1. \A l \in 1..Len(v) : l = Len(w) + 1 \/ l \in 1..Len(w)
        BY <2>1, <3>1
      <4>2. \A l \in 1..Len(w) : v[l] # i
        BY <2>1, <3>1, <3>4
      <4>3. j \in 1..Len(w) /\ k \in 1..Len(w) => j = k
        BY <3>1, <3>6 DEF FreeUpTo
      <4> QED
        BY <3>1, <3>6, <4>1, <4>2, <4>3
    <3> QED
      BY <3>2, <3>3, <3>5, <3>6 DEF FreeUpTo
  <2>3. CASE ~(IsFree(c, i) /\ Len(w) < SB_FREE_INODE_MAX)
    <3>1. AddFree(c, w, i) = w
      BY <2>3 DEF AddFree
    <3>2. \A k \in 1..Len(w) : w[k] <= i
      BY <2>1 DEF FreeUpTo
    <3> QED
      BY <3>1, <3>2 DEF FreeUpTo
  <2> QED
    BY <2>2, <2>3
<1> DEFINE I == [i \in 0..MaxIno |-> FreeUpTo(c.disk, i)]
<1>4. \A i \in 0..MaxIno : f[i] = IF i < c.seen THEN <<>> ELSE AddFree(c, f[i - 1], i)
  BY DEF Fills
<1>5. f[0] \in I[0]
  BY <1>1, <1>2, <1>4
<1>6. \A i \in 1..MaxIno : f[i - 1] \in I[i - 1] => f[i] \in I[i]
  BY <1>1, <1>2, <1>3, <1>4
<1> HIDE DEF I
<1>7. \A i \in 0..MaxIno : f[i] \in I[i]
  BY <1>1, <1>5, <1>6, LoopUpTo
<1> QED
  BY <1>1, <1>7 DEF I

WithWin(c, w, n) == [c EXCEPT !.win = w, !.seen = n]

(* sb_refill_inodes offers free inodes.                                    *)
LEMMA RefilledFree ==
    ASSUME NEW c \in Layer
    PROVE  \E w \in FreeUpTo(c.disk, MaxIno), n \in Inodes : Refill(c) = WithWin(c, w, n)
<1> DEFINE w == (CHOOSE f : Fills(c, f))[MaxIno]
           n == IF w = <<>> THEN c.seen ELSE Last(w)
<1>1. w \in FreeUpTo(c.disk, MaxIno)
  <2>1. Fills(c, CHOOSE f : Fills(c, f))
    BY FillsTyped
  <2> QED
    BY <2>1, FillsFree
<1>2. Refill(c) = [c EXCEPT !.win = w, !.seen = IF w = <<>> THEN @ ELSE Last(w)]
  BY RefillIs
<1> HIDE DEF w
<1>3. w \in Seq(Inodes)
  BY <1>1 DEF FreeUpTo, Wins
<1>4. n \in Inodes
  <2>1. CASE w # <<>>
    <3>1. Len(w) \in 1..Len(w)
      BY <1>3, <2>1, EmptySeq, LenProperties
    <3> QED
      BY <1>3, <2>1, <3>1, ElementOfSeq DEF Last
  <2>2. CASE w = <<>>
    BY <2>2 DEF Layer
  <2> QED
    BY <2>1, <2>2
<1>5. Refill(c) = WithWin(c, w, n)
  BY <1>2 DEF WithWin, Layer
<1> QED
  BY <1>1, <1>4, <1>5

(* Another window that offers nothing that is alive or held.               *)
LEMMA BookWin ==
    ASSUME NEW c, NEW D, NEW t, NEW O, NEW P, NEW X, Book(c, D, t, O, P, X),
           NEW w \in Seq(Inodes), Len(w) <= SB_FREE_INODE_MAX, NEW n \in Inodes,
           Offers(c.slot, w, t, X)
    PROVE  Book(WithWin(c, w, n), D, t, O, P, X)
<1> DEFINE r == WithWin(c, w, n)
<1>1. /\ c \in Layer /\ c.spin = "no" /\ c.disk = D /\ c.dirs = t
      /\ c.slot \in Slotted /\ c.list \in Seq(Slots) /\ c.ip \in Slots \union {Null}
      /\ O \in Owners /\ P \in Counts /\ Volume(D, t, X) /\ Kept(c.slot, c.list, c.win, D, t, O, P, X)
  BY BookFields
<1>2. r = Rec(c.slot, c.list, D, t, w, n, c.ip, "no")
  <2>1. r = [c EXCEPT !.win = w, !.seen = n]
    BY DEF WithWin
  <2> HIDE DEF r
  <2> QED
    BY <1>1, <2>1 DEF Rec, Layer
<1>3. Kept(c.slot, c.list, w, D, t, O, P, X)
  BY <1>1 DEF Kept
<1> QED
  BY <1>1, <1>2, <1>3, BookRec

(* sb_refill_inodes keeps the books.                                       *)
LEMMA StockedBook ==
    ASSUME NEW c, NEW D, NEW t, NEW O, NEW P, NEW X, Book(c, D, t, O, P, X)
    PROVE  Book(Stocked(c), D, t, O, P, X)
<1>1. c \in Layer /\ c.disk = D /\ c.slot \in Slotted /\ Volume(D, t, X) /\ Fresh(c.slot, D, t, X)
  BY BookFields DEF Kept
<1>2. PICK w \in FreeUpTo(D, MaxIno), n \in Inodes : Refill(c) = WithWin(c, w, n)
  BY <1>1, RefilledFree
<1>3. w \in Seq(Inodes) /\ Len(w) <= SB_FREE_INODE_MAX
  BY <1>2 DEF FreeUpTo, Wins
<1>4. Offers(c.slot, w, t, X)
  <2>1. \A k \in 1..Len(w) : w[k] \in Inodes /\ w[k] # 0 /\ D[w[k]].mode = "free"
    <3>1. \A k \in 1..Len(w) : w[k] \in Inodes /\ D[w[k]].mode = "free"
      BY <1>2, <1>3, LenProperties, ElementOfSeq DEF FreeUpTo
    <3> QED
      BY <3>1, CacheAssumption DEF Inodes
  <2>2. \A k \in 1..Len(w) : w[k] \notin Alive(t, X)
    BY <1>1, <2>1, AliveHasLink
  <2>3. \A k \in 1..Len(w), s \in Slots : c.slot[s].ino # w[k]
    BY <1>1, <2>1 DEF Fresh
  <2> QED
    BY <1>2, <2>2, <2>3 DEF Offers, FreeUpTo
<1>5. Book(Refill(c), D, t, O, P, X)
  BY <1>2, <1>3, <1>4, BookWin
<1> QED
  BY <1>5 DEF Stocked

(* The number that is offered next, and the window it leaves.              *)
LEMMA FrontOffers ==
    ASSUME NEW w \in Seq(Inodes), w # <<>>, Len(w) <= SB_FREE_INODE_MAX, NEW f, NEW t, NEW X, Offers(f, w, t, X)
    PROVE  /\ Last(w) \in Inodes /\ Last(w) \notin Alive(t, X)
           /\ \A s \in Slots : f[s].ino = Last(w) => f[s].ref = 0
           /\ Front(w) \in Seq(Inodes) /\ Len(Front(w)) <= SB_FREE_INODE_MAX
           /\ Offers(f, Front(w), t, X)
           /\ \A k \in 1..Len(Front(w)) : Front(w)[k] # Last(w)
<1> DEFINE v == Front(w)
<1>1. Len(w) \in Nat /\ Len(w) # 0 /\ \A k \in 1..Len(w) : w[k] \in Inodes
  BY EmptySeq, LenProperties, ElementOfSeq
<1>2. Last(w) = w[Len(w)] /\ Len(w) \in 1..Len(w)
  BY <1>1 DEF Last
<1>3. v \in Seq(Inodes) /\ Len(v) = Len(w) - 1 /\ \A k \in 1..Len(v) : v[k] = w[k]
  <2>1. \A k \in 1..(Len(w) - 1) : w[k] \in Inodes
    BY <1>1
  <2>2. Len(w) - 1 \in Int /\ 1 \in Int
    BY <1>1
  <2>3. /\ v \in Seq(Inodes) /\ Len(v) = IF 1 <= Len(w) - 1 THEN (Len(w) - 1) - 1 + 1 ELSE 0
        /\ \A k \in 1..((Len(w) - 1) - 1 + 1) : v[k] = w[1 + k - 1]
    BY <2>1, <2>2, SubSeqProperties DEF Front
  <2> HIDE DEF v
  <2>4. Len(v) = Len(w) - 1
    <3> DEFINE m == Len(w)
               l == Len(v)
    <3>1. m \in Nat /\ m # 0 /\ l = IF 1 <= m - 1 THEN (m - 1) - 1 + 1 ELSE 0
      BY <1>1, <2>3
    <3> HIDE DEF m, l
    <3>2. l = m - 1
      BY <3>1
    <3> QED
      BY <3>2 DEF m, l
  <2>5. ASSUME NEW k \in 1..Len(v) PROVE v[k] = w[k]
    <3>1. 1 + k - 1 = k /\ k \in 1..((Len(w) - 1) - 1 + 1)
      BY <1>1, <2>4
    <3> QED
      BY <2>3, <3>1
  <2> QED
    BY <2>3, <2>4, <2>5
<1> HIDE DEF v
<1>4. \A k \in 1..Len(v) : k \in 1..Len(w) /\ k # Len(w)
  BY <1>1, <1>3
<1>5. Len(v) <= SB_FREE_INODE_MAX
  BY <1>1, <1>3, CacheAssumption
<1>6. Offers(f, v, t, X) /\ \A k \in 1..Len(v) : v[k] # Last(w)
  <2>1. \A k \in 1..Len(v) : v[k] = w[k] /\ k \in 1..Len(w)
    BY <1>3, <1>4
  <2>2. Offers(f, v, t, X)
    BY <1>2, <2>1 DEF Offers
  <2>3. ASSUME NEW k \in 1..Len(v) PROVE v[k] # Last(w)
    BY <1>2, <1>4, <2>1 DEF Offers
  <2> QED
    BY <2>2, <2>3
<1>7. /\ Last(w) \in Inodes /\ Last(w) \notin Alive(t, X)
      /\ \A s \in Slots : f[s].ino = Last(w) => f[s].ref = 0
  BY <1>1, <1>2 DEF Offers
<1> QED
  BY <1>3, <1>5, <1>6, <1>7 DEF v

(* A free inode on the disk that no slot holds can be written there.       *)
LEMMA BookDisk ==
    ASSUME NEW c, NEW D, NEW t, NEW O, NEW P, NEW X, Book(c, D, t, O, P, X),
           NEW i \in Inodes, D[i].mode = "free", NEW D2, Volume(D2, t, X),
           \A j \in Inodes \ {i} : D2[j] = D[j]
    PROVE  Book([c EXCEPT !.disk = D2], D2, t, O, P, X)
<1> DEFINE r == [c EXCEPT !.disk = D2]
<1>1. /\ c \in Layer /\ c.spin = "no" /\ c.disk = D /\ c.dirs = t /\ Len(c.win) <= SB_FREE_INODE_MAX
      /\ c.slot \in Slotted /\ c.list \in Seq(Slots) /\ c.ip \in Slots \union {Null}
      /\ c.win \in Seq(Inodes) /\ c.seen \in Inodes
      /\ O \in Owners /\ P \in Counts /\ Kept(c.slot, c.list, c.win, D, t, O, P, X)
  BY BookFields
<1>2. r = Rec(c.slot, c.list, D2, t, c.win, c.seen, c.ip, "no")
  BY <1>1 DEF Rec, Layer
<1> HIDE DEF r
<1>3. \A s \in Slots : c.slot[s].ino # 0 => c.slot[s].ino \in Inodes \ {i}
  BY <1>1 DEF Kept, Fresh, Slotted, Slot
<1>4. Fresh(c.slot, D2, t, X)
  BY <1>1, <1>3 DEF Kept, Fresh
<1>5. Kept(c.slot, c.list, c.win, D2, t, O, P, X)
  BY <1>1, <1>4 DEF Kept
<1>6. Book(r, D2, t, O, P, X)
  BY <1>1, <1>2, <1>5, BookRec
<1> QED
  BY <1>6 DEF r

-----------------------------------------------------------------------------
(* The disk when the free inode i has been claimed, and what ialloc then   *)
(* returns: an inode that was free, accounted for; or nothing, the books as*)
(* before, unless the routine never ends.                                  *)
Given(D, i, kind) == [D EXCEPT ![i] = [mode |-> kind, nlink |-> 0]]
Allotted(r, D, t, O, P, X, kind) ==
    /\ r \in Layer
    /\ r.ip = Null => r.spin # "no" \/ Book(r, D, t, O, P, X)
    /\ r.ip # Null => \E i \in Inodes, Q \in Owners :
                          /\ D[i].mode = "free" /\ Agree(O, Q, P) /\ Q[r.ip] = i
                          /\ Book(r, Given(D, i, kind), t, Q, Plus(P, r.ip), X)
                          /\ r.slot[r.ip].mode = kind

(* A claimed inode is what iget would have fetched had its mode been there.*)
LEMMA ClaimIs ==
    ASSUME NEW c \in Layer, c.spin = "no", c.list # <<>>, NEW s \in Slots, NEW i \in Inodes,
           c.disk[i].mode = "free",
           NEW kind \in Modes \ {"free"}
    PROVE  Claim(Loaded(c, s, i), kind) =
               [c |-> Loaded([c EXCEPT !.disk = Given(c.disk, i, kind)], s, i), over |-> TRUE]
<1> DEFINE D2 == Given(c.disk, i, kind)
           f1 == [c.slot EXCEPT ![s] = [ino |-> i, ref |-> 1, locked |-> TRUE,
                                        mode |-> c.disk[i].mode, nlink |-> c.disk[i].nlink]]
           f2 == [c.slot EXCEPT ![s] = [ino |-> i, ref |-> 1, locked |-> TRUE,
                                        mode |-> kind, nlink |-> 0]]
           x == Loaded(c, s, i)
           y == [x EXCEPT !.slot[s].mode = kind, !.slot[s].nlink = 0]
           z == Loaded([c EXCEPT !.disk = D2], s, i)
<1>1. /\ c.slot \in Slotted /\ c.disk \in Disks
      /\ s # Null
  BY CacheAssumption DEF Layer, Slots
<1>2. x = Rec(f1, Tail(c.list), c.disk, c.dirs, c.win, c.seen, s, "no")
  <2>1. x = WithSlots(c, f1, Tail(c.list), s)
    BY DEF Loaded, WithSlots, Layer
  <2> HIDE DEF f1, x
  <2> QED
    BY <2>1, WithSlotsRec
<1>3. f1[s] = [ino |-> i, ref |-> 1, locked |-> TRUE, mode |-> c.disk[i].mode, nlink |-> c.disk[i].nlink]
      /\ f2 = [f1 EXCEPT ![s].mode = kind, ![s].nlink = 0]
      /\ f2[s].mode = kind /\ f2[s].nlink = 0 /\ f2[s].ino = i
  BY <1>1 DEF Slotted
<1>4. D2[i].mode = kind /\ D2[i].nlink = 0
  BY <1>1 DEF Disks, Given
<1>5. z = Rec(f2, Tail(c.list), D2, c.dirs, c.win, c.seen, s, "no")
  <2> DEFINE e == [c EXCEPT !.disk = D2]
  <2>1. D2 \in Disks
    BY <1>1 DEF Disks, Given, Info
  <2> HIDE DEF D2
  <2>2. /\ e \in Layer /\ e.slot = c.slot /\ e.list = c.list /\ e.disk = D2 /\ e.dirs = c.dirs
        /\ e.win = c.win /\ e.seen = c.seen /\ e.spin = "no"
    BY <2>1 DEF Layer
  <2> HIDE DEF e
  <2>3. Loaded(e, s, i) = WithSlots(e, f2, Tail(e.list), s)
    BY <1>4, <2>2 DEF Loaded, WithSlots, Layer
  <2> HIDE DEF f2
  <2>4. WithSlots(e, f2, Tail(e.list), s)
            = Rec(f2, Tail(e.list), e.disk, e.dirs, e.win, e.seen, s, e.spin)
    BY <2>2, WithSlotsRec
  <2> QED
    BY <2>2, <2>3, <2>4 DEF e
<1> HIDE DEF f1, f2
<1>6. y = Rec(f2, Tail(c.list), c.disk, c.dirs, c.win, c.seen, s, "no")
  <2>1. x.slot = f1
    BY <1>2 DEF Rec
  <2>2. f1 \in Slotted
    <3>1. [ino |-> i, ref |-> 1, locked |-> TRUE, mode |-> c.disk[i].mode, nlink |-> c.disk[i].nlink] \in Slot
      BY <1>1 DEF Slot, Disks, Info
    <3> QED
      BY <1>1, <3>1 DEF Slotted, f1
  <2>3. Tail(c.list) \in Seq(Slots)
    BY HeadTailProperties DEF Layer
  <2>4. x \in Layer
    BY <1>1, <1>2, <2>2, <2>3 DEF Rec, Layer, Spins
  <2> HIDE DEF x
  <2>5. y = [x EXCEPT !.slot = [x.slot EXCEPT ![s].mode = kind, ![s].nlink = 0]]
    BY <2>4 DEF Layer, Slotted, Slot
  <2>6. y = [x EXCEPT !.slot = f2]
    BY <1>3, <2>1, <2>5
  <2> HIDE DEF y
  <2> QED
    BY <1>2, <2>6 DEF Rec
<1>7. Iupdate(y, s) = z
  <2> HIDE DEF y
  <2>1. Iupdate(y, s) = [y EXCEPT !.disk[y.slot[s].ino] = [mode |-> y.slot[s].mode, nlink |-> y.slot[s].nlink]]
    BY <1>6 DEF Rec, Iupdate, Ino
  <2>2. y.slot[s].mode = kind /\ y.slot[s].nlink = 0 /\ y.slot[s].ino = i
    BY <1>3, <1>6 DEF Rec
  <2> HIDE DEF z
  <2> QED
    BY <1>5, <1>6, <2>1, <2>2 DEF Rec, Given
<1>8. x.ip = s /\ IsFree(x, Ino(x, x.ip))
  BY <1>2, <1>3 DEF Rec, IsFree, Ino
<1>9. Claim(x, kind) = [c |-> Iupdate(y, s), over |-> TRUE]
  <2> HIDE DEF x, z
  <2> QED
    BY <1>1, <1>8 DEF Claim
<1> QED
  BY <1>7, <1>9

(* What is owed at the end of a turn of ialloc's loop.                     *)
TurnedBook(r, D, t, O, P, X, kind) ==
    /\ r.c \in Layer
    /\ r.over \in BOOLEAN
    /\ r.over => Allotted(r.c, D, t, O, P, X, kind)
    /\ ~r.over => Book(r.c, D, t, O, P, X)

(* An inode that ialloc fetched and does not want is let go.               *)
LEMMA Unwanted ==
    ASSUME NEW c, NEW D, NEW t, NEW O, NEW P, NEW X, Book(c, D, t, O, P, X), NEW kind,
           NEW s \in Slots, c.ip = s, P[s] < c.slot[s].ref, NEW i \in Inodes, c.slot[s].ino = i,
           D[i].mode # "free"
    PROVE  TurnedBook(Claim(c, kind), D, t, O, P, X, kind)
<1>1. s # Null /\ i # 0
  BY CacheAssumption DEF Slots, Inodes
<1>2. c.disk = D
  BY BookFields
<1>3. Claim(c, kind) = [c |-> Iput(c, s), over |-> FALSE]
  BY <1>1, <1>2 DEF Claim, IsFree, Ino
<1>4. Book(Iput(c, s), D, t, O, P, X)
  BY <1>1, IputSpare DEF Ino
<1>5. Iput(c, s) \in Layer
  BY <1>4, BookFields
<1> QED
  BY <1>3, <1>4, <1>5 DEF TurnedBook

(* A turn of ialloc's loop.                                                *)
LEMMA TurnBook ==
    ASSUME NEW c, NEW D, NEW t, NEW O, NEW P, NEW X, Book(c, D, t, O, P, X), NEW kind \in Modes \ {"free"}
    PROVE  TurnedBook(IallocTurn(c, kind), D, t, O, P, X, kind)
<1>1. /\ c \in Layer /\ c.spin = "no" /\ c.disk = D /\ c.dirs = t /\ Len(c.win) <= SB_FREE_INODE_MAX
      /\ c.win \in Seq(Inodes) /\ c.seen \in Inodes /\ c.slot \in Slotted
      /\ O \in Owners /\ P \in Counts /\ Volume(D, t, X)
      /\ Offers(c.slot, c.win, t, X) /\ Fresh(c.slot, D, t, X)
  BY BookFields DEF Kept
<1>2. CASE c.win = <<>>
  <2> DEFINE r == [c EXCEPT !.ip = Null]
  <2>1. IallocTurn(c, kind) = [c |-> r, over |-> TRUE]
    BY <1>2 DEF IallocTurn
  <2>2. Book(r, D, t, O, P, X)
    BY BookIp
  <2>3. r \in Layer /\ r.ip = Null
    BY <1>1 DEF Layer
  <2> HIDE DEF r
  <2>4. Allotted(r, D, t, O, P, X, kind)
    BY <2>2, <2>3 DEF Allotted
  <2> QED
    BY <2>1, <2>3, <2>4 DEF TurnedBook
<1>3. CASE c.win # <<>>
  <2> DEFINE w == Front(c.win)
             i == Last(c.win)
             b == WithWin(c, w, c.seen)
             r == Iget(b, i)
  <2>1. /\ i \in Inodes /\ i \notin Alive(t, X)
        /\ w \in Seq(Inodes) /\ Len(w) <= SB_FREE_INODE_MAX /\ Offers(c.slot, w, t, X)
        /\ \A k \in 1..Len(w) : w[k] # i
    BY <1>1, <1>3, FrontOffers
  <2>2. Offered(c) = r
    BY <1>1 DEF Offered, WithWin, Layer
  <2>3. IallocTurn(c, kind) = Claim(r, kind)
    BY <1>3, <2>2 DEF IallocTurn
  <2>4. b.win = w /\ b.slot = c.slot /\ b.spin = "no" /\ b.disk = D /\ b \in Layer
    BY <1>1, <2>1 DEF WithWin, Layer
  <2> HIDE DEF w, i
  <2>5. Book(b, D, t, O, P, X)
    BY <1>1, <2>1, BookWin
  <2> HIDE DEF b, r
  <2>6. ASSUME r = Spun(b, "iget")
        PROVE  TurnedBook(Claim(r, kind), D, t, O, P, X, kind)
    <3>1. r.spin = "iget" /\ r.ip = Null /\ r \in Layer
      BY <2>4, <2>6 DEF Spun, Layer, Spins
    <3>2. Claim(r, kind) = [c |-> r, over |-> TRUE]
      BY <3>1 DEF Claim
    <3>3. Allotted(r, D, t, O, P, X, kind)
      BY <3>1 DEF Allotted
    <3> QED
      BY <3>1, <3>2, <3>3 DEF TurnedBook
  <2>7. ASSUME NEW s \in Slots, Ino(b, s) = i, r = Hit(b, s)
        PROVE  TurnedBook(Claim(r, kind), D, t, O, P, X, kind)
    <3>1. b.slot[s].ino = i /\ i # 0
      BY <2>1, <2>7, CacheAssumption DEF Ino, Inodes
    <3>2. /\ Book(r, D, t, O, P, X) /\ r.ip = s /\ r.slot[s].ref > P[s] /\ r.slot[s].ino = i
      BY <2>1, <2>4, <2>5, <2>7, <3>1, HitBook
    <3>3. D[i].mode # "free"
      BY <1>1, <2>4, <3>1 DEF Fresh
    <3>4. r.slot[s].ref \in Nat /\ P[s] \in Nat
      BY <1>1, <3>2, BookFields DEF Slotted, Slot, Counts
    <3> QED
      BY <2>1, <3>2, <3>3, <3>4, Unwanted
  <2>8. ASSUME r = [b EXCEPT !.ip = Null]
        PROVE  TurnedBook(Claim(r, kind), D, t, O, P, X, kind)
    <3>1. r.spin = "no" /\ r.ip = Null /\ r \in Layer
      BY <2>4, <2>8 DEF Layer
    <3>2. Claim(r, kind) = [c |-> r, over |-> FALSE]
      BY <3>1 DEF Claim
    <3>3. Book(r, D, t, O, P, X)
      BY <2>5, <2>8, BookIp
    <3> QED
      BY <3>1, <3>2, <3>3 DEF TurnedBook
  <2>9. ASSUME \A s \in Slots : Ino(b, s) # i, b.list # <<>>, r = Loaded(b, Head(b.list), i)
        PROVE  TurnedBook(Claim(r, kind), D, t, O, P, X, kind)
    <3> DEFINE s == Head(b.list)
    <3>1. CASE D[i].mode # "free"
      <4>1. /\ Book(r, D, t, O, P, X) /\ r.ip = s /\ s \in Slots /\ P[s] = 0 /\ r.slot[s].ref = 1
            /\ r.slot[s].ino = i
        BY <2>1, <2>4, <2>5, <2>9, <3>1, LoadedBook
      <4> HIDE DEF s
      <4>2. P[s] < r.slot[s].ref
        BY <4>1
      <4> QED
        BY <2>1, <3>1, <4>1, <4>2, Unwanted
    <3>2. CASE D[i].mode = "free"
      <4> DEFINE D2 == Given(D, i, kind)
                 e  == [b EXCEPT !.disk = D2]
                 z  == Loaded(e, s, i)
      <4>1. Volume(D2, t, X)
        BY <1>1, <2>1, <3>2, VolumeClaim DEF Given
      <4>2. D2[i] = [mode |-> kind, nlink |-> 0] /\ \A j \in Inodes \ {i} : D2[j] = D[j]
        BY <1>1, <2>1 DEF Volume, Disks, Given
      <4> HIDE DEF D2
      <4>3. Book(e, D2, t, O, P, X)
        BY <2>1, <2>5, <3>2, <4>1, <4>2, BookDisk
      <4>4. e.list = b.list /\ e.win = w /\ \A u \in Slots : Ino(e, u) # i
        BY <2>4, <2>9 DEF Ino, Layer
      <4> HIDE DEF e
      <4>5. /\ Book(z, D2, t, O, P, X) /\ z.ip = s /\ s \in Slots /\ P[s] = 0 /\ z.slot[s].ref = 1
            /\ z.slot[s].ino = i /\ z.slot[s].mode = kind
        BY <2>1, <2>9, <4>2, <4>3, <4>4, LoadedBook
      <4> HIDE DEF z, s
      <4>6. P[s] < z.slot[s].ref /\ Ino(z, s) = i /\ i # 0
        BY <2>1, <4>5, CacheAssumption DEF Ino, Inodes
      <4> DEFINE Q == Put(O, s, i)
      <4>7. Book(z, D2, t, Q, Plus(P, s), X) /\ Q \in Owners /\ Q[s] = i /\ Agree(O, Q, P)
        BY <4>5, <4>6, BookPin
      <4> HIDE DEF Q
      <4>8. z \in Layer
        BY <4>5, BookFields
      <4>9. Allotted(z, D, t, O, P, X, kind)
        <5>1. s # Null
          BY <4>5, CacheAssumption DEF Slots
        <5> QED
          BY <2>1, <3>2, <4>5, <4>7, <4>8, <5>1 DEF Allotted, D2
      <4>10. Claim(r, kind) = [c |-> z, over |-> TRUE]
        BY <2>1, <2>4, <2>9, <3>2, <4>5, ClaimIs DEF z, e, D2, s
      <4> QED
        BY <4>8, <4>9, <4>10 DEF TurnedBook
    <3> QED
      BY <3>1, <3>2
  <2>10. TurnedBook(Claim(r, kind), D, t, O, P, X, kind)
    <3>1. \/ \E s \in Slots : Ino(b, s) = i /\ r = Spun(b, "iget")
          \/ \E s \in Slots : Ino(b, s) = i /\ r = Hit(b, s)
          \/ (\A s \in Slots : Ino(b, s) # i) /\ b.list = <<>> /\ r = [b EXCEPT !.ip = Null]
          \/ /\ \A s \in Slots : Ino(b, s) # i
             /\ b.list # <<>> /\ r = Loaded(b, Head(b.list), i)
      BY <2>4, IgetCases DEF r
    <3> QED
      BY <2>6, <2>7, <2>8, <2>9, <3>1
  <2> QED
    BY <2>3, <2>10
<1> QED
  BY <1>2, <1>3

(* ialloc_dev.                                                             *)
LEMMA IallocBook ==
    ASSUME NEW c, NEW D, NEW t, NEW O, NEW P, NEW X, Book(c, D, t, O, P, X), NEW kind \in Modes \ {"free"}
    PROVE  Allotted(Ialloc(c, kind), D, t, O, P, X, kind)
<1> DEFINE R == {r \in [c : Layer, over : BOOLEAN] : TurnedBook(r, D, t, O, P, X, kind)}
           base == [c |-> c, over |-> FALSE]
<1>1. c \in Layer /\ c.spin = "no"
  BY BookFields
<1>2. base \in R
  BY <1>1 DEF TurnedBook
<1>3. ASSUME NEW r \in R
      PROVE  NextTurn(r, kind) \in R
  <2>1. CASE r.over
    BY <2>1 DEF NextTurn
  <2>2. CASE ~r.over
    <3>1. Book(Stocked(r.c), D, t, O, P, X)
      BY <2>2, StockedBook DEF TurnedBook
    <3> DEFINE q == IallocTurn(Stocked(r.c), kind)
    <3>2. TurnedBook(q, D, t, O, P, X, kind)
      BY <3>1, TurnBook
    <3>3. q = [c |-> q.c, over |-> q.over]
      BY DEF IallocTurn, Claim
    <3>4. NextTurn(r, kind) = q
      BY <2>2 DEF NextTurn
    <3> HIDE DEF q
    <3>5. q \in [c : Layer, over : BOOLEAN]
      BY <3>2, <3>3 DEF TurnedBook
    <3> QED
      BY <3>2, <3>4, <3>5
  <2> QED
    BY <2>1, <2>2
<1> HIDE DEF base
<1>4. PICK r \in R : Ialloc(c, kind) = IallocEnd(c, r)
  <2> HIDE DEF R
  <2>1. \E r \in R : Ialloc(c, kind) = IF c.spin # "no" THEN [c EXCEPT !.ip = Null] ELSE IallocEnd(c, r)
    BY <1>2, <1>3, TurnsKeep DEF base
  <2> QED
    BY <1>1, <2>1
<1>5. CASE r.over
  BY <1>4, <1>5 DEF IallocEnd, TurnedBook
<1>6. CASE ~r.over
  <2> DEFINE d == [c EXCEPT !.spin = "ialloc", !.ip = Null]
  <2>1. IallocEnd(c, r) = d
    BY <1>6 DEF IallocEnd
  <2>2. d \in Layer /\ d.ip = Null /\ d.spin = "ialloc"
    BY <1>1 DEF Layer, Spins
  <2> HIDE DEF d
  <2>3. Allotted(d, D, t, O, P, X, kind)
    BY <2>2 DEF Allotted
  <2> QED
    BY <1>4, <2>1, <2>3
<1> QED
  BY <1>5, <1>6

-----------------------------------------------------------------------------
(* Books when names and inodes are written. Those who hold a slot go on    *)
(* holding what they held.                                                 *)

(* Owners agree with themselves, one after the other, and where less is    *)
(* accounted for.                                                          *)
LEMMA AgreeAgain ==
    ASSUME NEW O, NEW Q, NEW R, NEW P \in Counts, NEW P2 \in Counts, \A s \in Slots : P[s] <= P2[s]
    PROVE  /\ Agree(O, O, P)
           /\ Agree(O, Q, P2) => Agree(O, Q, P)
           /\ Agree(O, Q, P) /\ Agree(Q, R, P2) => Agree(O, R, P)
<1>1. \A s \in Slots : P[s] > 0 => P2[s] > 0
  BY DEF Counts
<1> QED
  BY <1>1 DEF Agree

(* A reference more is accounted for, and in any order.                    *)
LEMMA PlusMore ==
    ASSUME NEW P \in Counts, NEW s, NEW u
    PROVE  /\ Plus(P, s) \in Counts
           /\ \A x \in Slots : P[x] <= Plus(P, s)[x]
           /\ s \in Slots => Plus(P, s)[s] >= 1
           /\ Plus(Plus(P, s), u) = Plus(Plus(P, u), s)
BY DEF Plus, Counts

(* The last reference taken is put back.                                   *)
LEMMA PutBack ==
    ASSUME NEW c, NEW D, NEW t, NEW O, NEW P \in Counts, NEW X, NEW s \in Slots,
           Book(c, D, t, O, Plus(P, s), X)
    PROVE  Book(Iput(c, s), D, t, O, P, X) /\ Iput(c, s).ip = c.ip
<1>1. Plus(P, s)[s] >= 1
  BY PlusMore
<1>2. Book(Iput(c, s), D, t, O, Minus(Plus(P, s), s), X) /\ Iput(c, s).ip = c.ip
  BY <1>1, IputBook
<1> QED
  BY <1>2, PlusMinus

(* The last reference but one.                                             *)
LEMMA PutBackOther ==
    ASSUME NEW c, NEW D, NEW t, NEW O, NEW P \in Counts, NEW X, NEW s \in Slots, NEW u,
           Book(c, D, t, O, Plus(Plus(P, s), u), X)
    PROVE  Book(Iput(c, s), D, t, O, Plus(P, u), X) /\ Iput(c, s).ip = c.ip
<1>1. Plus(Plus(P, s), u) = Plus(Plus(P, u), s) /\ Plus(P, u) \in Counts
  BY PlusMore
<1> QED
  BY <1>1, PutBack

(* Books with other directories.                                           *)
LEMMA BookDirs ==
    ASSUME NEW c, NEW D, NEW t, NEW O, NEW P, NEW X, Book(c, D, t, O, P, X),
           NEW t2, NEW X2, Volume(D, t2, X2), Alive(t2, X2) \subseteq Alive(t, X)
    PROVE  Book([c EXCEPT !.dirs = t2], D, t2, O, P, X2)
<1> DEFINE r == [c EXCEPT !.dirs = t2]
<1>1. /\ c \in Layer /\ c.spin = "no" /\ c.disk = D /\ Len(c.win) <= SB_FREE_INODE_MAX
      /\ c.slot \in Slotted /\ c.list \in Seq(Slots) /\ c.ip \in Slots \union {Null}
      /\ c.win \in Seq(Inodes) /\ c.seen \in Inodes
      /\ O \in Owners /\ P \in Counts /\ Kept(c.slot, c.list, c.win, D, t, O, P, X)
  BY BookFields
<1>2. r = Rec(c.slot, c.list, D, t2, c.win, c.seen, c.ip, "no")
  BY <1>1 DEF Rec, Layer
<1> HIDE DEF r
<1>3. Fresh(c.slot, D, t2, X2) /\ Offers(c.slot, c.win, t2, X2)
  BY <1>1 DEF Kept, Fresh, Offers
<1>4. Kept(c.slot, c.list, c.win, D, t2, O, P, X2)
  BY <1>1, <1>3 DEF Kept
<1>5. Book(r, D, t2, O, P, X2)
  BY <1>1, <1>2, <1>4, BookRec
<1> QED
  BY <1>5 DEF r

(* The slot of an inode and the disk are written together.                 *)
LEMMA KeptWritten ==
    ASSUME NEW f \in Slotted, NEW g \in Slotted, NEW q, NEW w, NEW D, NEW D2, NEW t, NEW t2, NEW X, NEW X2,
           NEW O, NEW P \in Counts, Kept(f, q, w, D, t, O, P, X),
           NEW s \in Slots, P[s] >= 1, SameBut(f, g, s), g[s].ino = f[s].ino, g[s].ref = f[s].ref,
           g[s].mode # "free", g[s].mode = D2[O[s]].mode, g[s].nlink = D2[O[s]].nlink,
           \A j \in Inodes \ {O[s]} : D2[j] = D[j],
           Alive(t2, X2) \subseteq Alive(t, X) \union {O[s]}
    PROVE  Kept(g, q, w, D2, t2, O, P, X2)
<1>1. FreeList(f, q) /\ OneSlot(f) /\ Pinned(f, O, P) /\ Fresh(f, D, t, X) /\ Offers(f, w, t, X)
  BY DEF Kept
<1>2. f[s].ino = O[s] /\ O[s] \in Inodes /\ O[s] # 0 /\ f[s].ref # 0
  <2>1. P[s] \in Nat /\ P[s] > 0 /\ f[s].ref \in Nat
    BY DEF Counts, Slotted, Slot
  <2>2. f[s].ino = O[s] /\ O[s] \in Inodes /\ P[s] <= f[s].ref
    BY <1>1, <2>1 DEF Pinned
  <2> QED
    BY <2>1, <2>2, CacheAssumption DEF Inodes
<1>3. \A u \in Slots : g[u].ino = f[u].ino /\ g[u].ref = f[u].ref
  BY DEF SameBut
<1>4. FreeList(g, q)
  BY <1>1, <1>3 DEF FreeList
<1>5. OneSlot(g)
  BY <1>1, <1>3 DEF OneSlot
<1>6. Pinned(g, O, P)
  BY <1>1, <1>3 DEF Pinned, SameBut
<1>7. \A u \in Slots \ {s} : f[u].ino # 0 => f[u].ino \in Inodes \ {O[s]}
  BY <1>1, <1>2 DEF OneSlot, Slotted, Slot
<1>8. Fresh(g, D2, t2, X2)
  <2> SUFFICES ASSUME NEW u \in Slots, g[u].ino # 0
               PROVE  /\ D2[g[u].ino].mode # "free"
                      /\ g[u].ino \in Alive(t2, X2) =>
                            g[u].mode = D2[g[u].ino].mode /\ g[u].nlink = D2[g[u].ino].nlink
    BY DEF Fresh
  <2>1. CASE u = s
    BY <1>2, <2>1
  <2>2. CASE u # s
    <3>1. g[u] = f[u] /\ f[u].ino \in Inodes \ {O[s]} /\ D2[f[u].ino] = D[f[u].ino]
      BY <1>3, <1>7, <2>2 DEF SameBut
    <3> QED
      BY <1>1, <3>1 DEF Fresh
  <2> QED
    BY <2>1, <2>2
<1>9. Offers(g, w, t2, X2)
  <2>1. \A k \in 1..Len(w) : w[k] # O[s]
    BY <1>1, <1>2 DEF Offers
  <2> QED
    BY <1>1, <1>3, <2>1 DEF Offers
<1> QED
  BY <1>4, <1>5, <1>6, <1>8, <1>9 DEF Kept

(* An inode gets another link count, in its slot and on the disk.          *)
LEMMA BookCount ==
    ASSUME NEW c, NEW D, NEW t, NEW O, NEW P, NEW X, Book(c, D, t, O, P, X),
           NEW s \in Slots, P[s] >= 1, NEW k \in Nat, NEW X2,
           c.slot[s].mode = D[O[s]].mode,
           Volume([D EXCEPT ![O[s]].nlink = k], t, X2), Alive(t, X2) \subseteq Alive(t, X) \union {O[s]}
    PROVE  LET r == Iupdate([c EXCEPT !.slot[s].nlink = k], s)
           IN  Book(r, [D EXCEPT ![O[s]].nlink = k], t, O, P, X2) /\ r.ip = c.ip
<1> DEFINE f == c.slot
           g == [f EXCEPT ![s].nlink = k]
           e == [c EXCEPT !.slot[s].nlink = k]
           D2 == [D EXCEPT ![O[s]].nlink = k]
           r == Iupdate(e, s)
<1>1. /\ c \in Layer /\ c.spin = "no" /\ c.disk = D /\ c.dirs = t /\ Len(c.win) <= SB_FREE_INODE_MAX
      /\ f \in Slotted /\ c.list \in Seq(Slots) /\ c.ip \in Slots \union {Null}
      /\ c.win \in Seq(Inodes) /\ c.seen \in Inodes /\ D \in Disks
      /\ O \in Owners /\ P \in Counts /\ Kept(f, c.list, c.win, D, t, O, P, X)
  BY BookFields
<1>2. f[s].ino = O[s] /\ O[s] \in Inodes /\ f[s].mode # "free"
  BY PinInfo DEF Ino
<1>3. g \in Slotted /\ SameBut(f, g, s) /\ g[s] = [f[s] EXCEPT !.nlink = k]
  BY <1>1 DEF Slotted, Slot, SameBut
<1>4. g[s].ino = f[s].ino /\ g[s].ref = f[s].ref /\ g[s].mode = f[s].mode /\ g[s].nlink = k
  BY <1>1, <1>3 DEF Slotted, Slot
<1>5. D2[O[s]] = [mode |-> f[s].mode, nlink |-> k] /\ D2 \in Disks /\ \A j \in Inodes \ {O[s]} : D2[j] = D[j]
  BY <1>1, <1>2 DEF Disks, Info
<1>6. D2 = [D EXCEPT ![O[s]] = [mode |-> f[s].mode, nlink |-> k]]
  <2>1. D[O[s]] \in Info
    BY <1>1, <1>2 DEF Disks
  <2>2. [D[O[s]] EXCEPT !.nlink = k] = [mode |-> f[s].mode, nlink |-> k]
    BY <2>1 DEF Info
  <2> QED
    BY <2>2
<1>7. e = [c EXCEPT !.slot = g]
  BY <1>1 DEF Layer
<1> HIDE DEF g, D2, e
<1>8. r = Rec(g, c.list, D2, t, c.win, c.seen, c.ip, "no")
  <2>1. e = Rec(g, c.list, D, t, c.win, c.seen, c.ip, "no")
    BY <1>1, <1>7 DEF Rec, Layer
  <2>2. r = [e EXCEPT !.disk[e.slot[s].ino] = [mode |-> e.slot[s].mode, nlink |-> e.slot[s].nlink]]
    BY <2>1 DEF Rec, Iupdate, Ino
  <2>3. e.slot[s].ino = O[s] /\ e.slot[s].mode = f[s].mode /\ e.slot[s].nlink = k
    BY <1>2, <1>4, <2>1 DEF Rec
  <2> HIDE DEF r
  <2> QED
    BY <1>6, <2>1, <2>2, <2>3 DEF Rec
<1>9. Volume(D2, t, X2)
  BY DEF D2
<1>10. Kept(g, c.list, c.win, D2, t, O, P, X2)
  <2>1. /\ g[s].mode # "free" /\ g[s].mode = D2[O[s]].mode /\ g[s].nlink = D2[O[s]].nlink
        /\ g[s].ino = f[s].ino /\ g[s].ref = f[s].ref
        /\ Alive(t, X2) \subseteq Alive(t, X) \union {O[s]}
    BY <1>2, <1>4, <1>5
  <2>2. \A j \in Inodes \ {O[s]} : D2[j] = D[j]
    BY <1>5
  <2>3. f \in Slotted /\ g \in Slotted /\ P \in Counts /\ Kept(f, c.list, c.win, D, t, O, P, X) /\ SameBut(f, g, s)
    BY <1>1, <1>3
  <2>4. s \in Slots /\ P[s] >= 1
    OBVIOUS
  <2> HIDE DEF f
  <2> QED
    BY ONLY <2>1, <2>2, <2>3, <2>4, KeptWritten
<1>11. Book(r, D2, t, O, P, X2) /\ r.ip = c.ip
  <2> HIDE DEF r
  <2>1. Book(Rec(g, c.list, D2, t, c.win, c.seen, c.ip, "no"), D2, t, O, P, X2)
    BY <1>1, <1>3, <1>9, <1>10, BookRec
  <2> QED
    BY <1>8, <2>1 DEF Rec
<1> QED
  BY <1>11 DEF r, e, D2

(* The volume when one entry or one link count is written. *)
Entry(t, d, n, i) == [t EXCEPT ![d][n] = i]
Recount(D, i, k)  == [D EXCEPT ![i].nlink = k]

(* What they are afterwards.                                               *)
LEMMA EntryIs ==
    ASSUME NEW t \in Trees, NEW d \in Inodes, NEW n \in Names, NEW i \in {0} \union Inodes
    PROVE  /\ Entry(t, d, n, i) \in Trees
           /\ Entry(t, d, n, i)[d][n] = i
           /\ \A e \in Inodes, m \in Names :
                 e # d \/ m # n => Entry(t, d, n, i)[e][m] = t[e][m]
           /\ t[d][n] = i => Entry(t, d, n, i) = t
           /\ \A j : Entry(Entry(t, d, n, j), d, n, i) = Entry(t, d, n, i)
<1>1. t[d] \in [Names -> {0} \union Inodes]
  BY DEF Trees
<1>2. Entry(t, d, n, i) = [t EXCEPT ![d] = [t[d] EXCEPT ![n] = i]]
  BY DEF Entry
<1>3. Entry(t, d, n, i) \in Trees /\ Entry(t, d, n, i)[d] = [t[d] EXCEPT ![n] = i]
      /\ \A e \in Inodes \ {d} : Entry(t, d, n, i)[e] = t[e]
  BY <1>1, <1>2 DEF Trees
<1>4. t[d][n] = i => [t[d] EXCEPT ![n] = i] = t[d]
  BY <1>1
<1>5. t[d][n] = i => Entry(t, d, n, i) = t
  BY <1>2, <1>4 DEF Trees
<1>6. \A j : Entry(Entry(t, d, n, j), d, n, i) = Entry(t, d, n, i)
  BY <1>1 DEF Entry, Trees
<1>7. Entry(t, d, n, i)[d][n] = i /\ \A m \in Names \ {n} : Entry(t, d, n, i)[d][m] = t[d][m]
  BY <1>1, <1>3
<1> QED
  BY <1>3, <1>5, <1>6, <1>7

(* One more link than was asked for.                                       *)
LEMMA VolumeMore ==
    ASSUME NEW D, NEW t, NEW X, Volume(D, t, X), NEW i \in Inodes, D[i].mode # "free"
    PROVE  /\ D[i].nlink + 1 \in Nat
           /\ Volume(Recount(D, i, D[i].nlink + 1), t, X)
<1>1. D[i].nlink \in Nat /\ X \in SUBSET (Inodes \ {Root}) /\ i \in Inodes
  BY DEF Volume, Disks, Info
<1>2. NameCount(t, i) \in Nat /\ DirCount(D, t, i) \in Nat /\ Spare(X, i) \in Nat
  BY CountsAreNat DEF Spare
<1>3. /\ NameCount(t, i) + Spare(X, i) <= D[i].nlink
      /\ D[i].mode = "dir" => NameCount(t, i) + Spare(X, i) <= 1
      /\ D[i].mode = "dir" /\ i \in Linked(t, X) => 2 + DirCount(D, t, i) <= D[i].nlink
  BY DEF Volume
<1> DEFINE k == D[i].nlink + 1
<1>4. /\ k \in Nat /\ NameCount(t, i) + Spare(X, i) <= k /\ 1 <= k
      /\ D[i].mode = "dir" /\ i \in Linked(t, X) => 2 + DirCount(D, t, i) <= k
  BY <1>1, <1>2, <1>3
<1> HIDE DEF k
<1>5. Volume([D EXCEPT ![i].nlink = k], t, X)
  BY <1>1, <1>3, <1>4, VolumeRecount
<1> QED
  BY <1>4, <1>5 DEF Recount, k

(* The first links of an inode that has just been claimed.                 *)
LEMMA VolumeFirst ==
    ASSUME NEW D, NEW t, NEW X, Volume(D, t, X), NEW i \in Inodes, D[i].mode # "free", NameCount(t, i) = 0,
           t[i] = NoNames, i # Root, NEW k \in Nat \ {0}, D[i].mode = "dir" => 2 <= k
    PROVE  Volume(Recount(D, i, k), t, X \union {i})
<1> DEFINE X2 == X \union {i}
<1>1. X \in SUBSET (Inodes \ {Root})
  BY DEF Volume
<1>2. X2 \in SUBSET (Inodes \ {Root}) /\ Spare(X2, i) = 1 /\ \A j \in Inodes \ {i} : j \in X2 <=> j \in X
  BY <1>1 DEF Spare
<1>3. DirCount(D, t, i) = 0
  <2>1. DirsIn(D, t, i) = {}
    BY DEF DirsIn, NoNames
  <2> QED
    BY <2>1, CountsAreNat
<1> HIDE DEF X2
<1>4. /\ NameCount(t, i) + Spare(X2, i) <= k
      /\ D[i].mode = "dir" => /\ NameCount(t, i) + Spare(X2, i) <= 1
                              /\ 2 + DirCount(D, t, i) <= k
  BY <1>2, <1>3
<1>5. Volume([D EXCEPT ![i].nlink = k], t, X2)
  BY <1>2, <1>4, VolumeRecount
<1> QED
  BY <1>5 DEF Recount, X2

(* A name is removed.                                                      *)
LEMMA ClearBook ==
    ASSUME NEW c, NEW D, NEW t, NEW O, NEW P, NEW X, Book(c, D, t, O, P, X),
           NEW s \in Slots, P[s] >= 1, NEW n \in Names, NEW i \in Inodes \ X, t[O[s]][n] = i
    PROVE  /\ Book(RemoveEntry(c, s, n), D, Entry(t, O[s], n, 0), O, P, X \union {i})
           /\ RemoveEntry(c, s, n).ip = c.ip
           /\ D[i].mode = "dir" /\ O[s] \in Linked(t, X) =>
                 3 + DirCount(D, Entry(t, O[s], n, 0), O[s]) <= D[O[s]].nlink
<1> DEFINE t2 == [t EXCEPT ![O[s]][n] = 0]
           r == [c EXCEPT !.dirs = t2]
<1>1. /\ c \in Layer /\ c.spin = "no" /\ c.dirs = t /\ Volume(D, t, X)
  BY BookFields
<1>2. Ino(c, s) = O[s] /\ O[s] \in Inodes
  BY PinInfo
<1>3. RemoveEntry(c, s, n) = r
  BY <1>1, <1>2 DEF RemoveEntry, AddEntry, Layer
<1>4. r.ip = c.ip
  BY <1>1 DEF Layer
<1>5. /\ Volume(D, t2, X \union {i}) /\ Alive(t2, X \union {i}) \subseteq Alive(t, X)
      /\ D[i].mode = "dir" /\ O[s] \in Linked(t, X) => 3 + DirCount(D, t2, O[s]) <= D[O[s]].nlink
  BY <1>1, <1>2, VolumeClear
<1> HIDE DEF t2
<1>6. Book(r, D, t2, O, P, X \union {i})
  BY <1>5, BookDirs
<1> QED
  BY <1>3, <1>4, <1>5, <1>6 DEF Entry, t2

(* A name is added.                                                        *)
LEMMA EnterBook ==
    ASSUME NEW c, NEW D, NEW t, NEW O, NEW P, NEW X, Book(c, D, t, O, P, X),
           NEW s \in Slots, P[s] >= 1, NEW n \in Names, O[s] \in Alive(t, X), D[O[s]].mode = "dir",
           t[O[s]][n] = 0, NEW i \in X,
           D[i].mode = "dir" => 3 + DirCount(D, t, O[s]) <= D[O[s]].nlink
    PROVE  /\ Book(AddEntry(c, s, n, i), D, Entry(t, O[s], n, i), O, P, X \ {i})
           /\ AddEntry(c, s, n, i).ip = c.ip
<1> DEFINE t2 == [t EXCEPT ![O[s]][n] = i]
           r == [c EXCEPT !.dirs = t2]
<1>1. /\ c \in Layer /\ c.spin = "no" /\ c.dirs = t /\ Volume(D, t, X)
  BY BookFields
<1>2. Ino(c, s) = O[s] /\ O[s] \in Inodes
  BY PinInfo
<1>3. AddEntry(c, s, n, i) = r
  BY <1>1, <1>2 DEF AddEntry, Layer
<1>4. r.ip = c.ip
  BY <1>1 DEF Layer
<1>5. Volume(D, t2, X \ {i}) /\ Alive(t2, X \ {i}) \subseteq Alive(t, X)
  BY <1>1, <1>2, VolumeEnter
<1> HIDE DEF t2
<1>6. Book(r, D, t2, O, P, X \ {i})
  BY <1>5, BookDirs
<1> QED
  BY <1>3, <1>4, <1>6 DEF Entry, t2

(* All names of a directory are removed.                                   *)
LEMMA EmptyBook ==
    ASSUME NEW c, NEW D, NEW t, NEW O, NEW P, NEW X, Book(c, D, t, O, P, X), NEW d \in Inodes
    PROVE  LET r == [c EXCEPT !.dirs[d] = NoNames]
           IN  Book(r, D, [t EXCEPT ![d] = NoNames], O, P, X) /\ r.ip = c.ip
<1> DEFINE t2 == [t EXCEPT ![d] = NoNames]
           r == [c EXCEPT !.dirs[d] = NoNames]
<1>1. c \in Layer /\ c.dirs = t /\ Volume(D, t, X)
  BY BookFields
<1>2. r = [c EXCEPT !.dirs = t2] /\ r.ip = c.ip
  BY <1>1 DEF Layer
<1>3. Volume(D, t2, X) /\ Alive(t2, X) \subseteq Alive(t, X)
  BY <1>1, VolumeEmpty
<1> HIDE DEF t2, r
<1>4. Book(r, D, t2, O, P, X)
  BY <1>2, <1>3, BookDirs
<1> QED
  BY <1>2, <1>4 DEF t2, r

(* A link count changes by one.                                            *)
LEMMA RelinkBook ==
    ASSUME NEW c, NEW D, NEW t, NEW O, NEW P, NEW X, Book(c, D, t, O, P, X),
           NEW s \in Slots, P[s] >= 1, O[s] \in Alive(t, X), NEW d \in {-1, 1}, NEW k \in Nat,
           k = D[O[s]].nlink + d, NEW X2, Volume(Recount(D, O[s], k), t, X2),
           Alive(t, X2) \subseteq Alive(t, X) \union {O[s]}
    PROVE  Book(Relink(c, s, d), Recount(D, O[s], k), t, O, P, X2) /\ Relink(c, s, d).ip = c.ip
<1> DEFINE e == [c EXCEPT !.slot[s].nlink = k]
<1>1. c \in Layer /\ c.spin = "no" /\ c.slot \in Slotted
  BY BookFields
<1>2. c.slot[s].mode = D[O[s]].mode /\ c.slot[s].nlink = D[O[s]].nlink /\ c.slot[s] \in Slot
  BY PinInfo
<1>3. c.slot[s].nlink + d = k /\ ~(c.slot[s].nlink + d < 0)
  BY <1>2 DEF Slot
<1>4. Relink(c, s, d) = Iupdate(e, s)
  BY <1>1, <1>3 DEF Relink, Layer, Slotted, Slot
<1>5. Volume([D EXCEPT ![O[s]].nlink = k], t, X2)
  BY DEF Recount
<1> HIDE DEF e
<1>6. Book(Iupdate(e, s), [D EXCEPT ![O[s]].nlink = k], t, O, P, X2) /\ Iupdate(e, s).ip = c.ip
  BY <1>2, <1>5, BookCount DEF e
<1> QED
  BY <1>4, <1>6 DEF Recount

(* Names are no part of what iupdate writes, nor its disk of what a name   *)
(* is: the two can change places.                                          *)
LEMMA UpdateEnter ==
    ASSUME NEW c \in Layer, NEW s, NEW n, NEW i, NEW u
    PROVE  Iupdate(AddEntry(c, s, n, i), u) = AddEntry(Iupdate(c, u), s, n, i)
BY DEF Iupdate, AddEntry, Layer, Ino

-----------------------------------------------------------------------------
(* The references that the tables and the current directory hold, and the  *)
(* inodes that the slots hold.                                             *)
Holding(f, s) == {x \in Files : f[x].ip = s}
Pins(f, w) == [s \in Slots |-> Cardinality(Holding(f, s)) + (IF w = s THEN 1 ELSE 0)]
InoOf(c) == [s \in Slots |-> c.slot[s].ino]

(* The entries that hold a slot can be counted.                            *)
LEMMA HoldingFinite ==
    ASSUME NEW f, NEW s
    PROVE  /\ IsFiniteSet(Holding(f, s)) /\ Cardinality(Holding(f, s)) \in Nat
           /\ Cardinality(Holding(f, s)) = 0 <=> Holding(f, s) = {}
<1>1. IsFiniteSet(Files)
  BY FS_Interval, CallAssumption DEF Files
<1>2. IsFiniteSet(Holding(f, s))
  BY <1>1, FS_Subset DEF Holding
<1> QED
  BY <1>2, FS_CardinalityType, FS_EmptySet

(* References are counted, and a slot that is named is counted.            *)
LEMMA PinsType ==
    ASSUME NEW f, NEW w
    PROVE  /\ Pins(f, w) \in Counts
           /\ \A x \in Files : f[x].ip \in Slots => Pins(f, w)[f[x].ip] > 0
           /\ w \in Slots => Pins(f, w)[w] > 0
<1>1. \A s : Cardinality(Holding(f, s)) \in Nat /\ (Cardinality(Holding(f, s)) = 0 <=> Holding(f, s) = {})
  BY HoldingFinite
<1>2. \A x \in Files : x \in Holding(f, f[x].ip)
  BY DEF Holding
<1>3. Pins(f, w) \in Counts
  BY <1>1 DEF Pins, Counts
<1>4. ASSUME NEW x \in Files, f[x].ip \in Slots PROVE Pins(f, w)[f[x].ip] > 0
  <2> DEFINE s == f[x].ip
  <2>1. Cardinality(Holding(f, s)) \in Nat /\ Cardinality(Holding(f, s)) # 0
    BY <1>1, <1>2
  <2>2. Pins(f, w)[s] = Cardinality(Holding(f, s)) + (IF w = s THEN 1 ELSE 0)
    BY <1>4 DEF Pins
  <2> HIDE DEF s
  <2>3. Pins(f, w)[s] > 0
    BY <2>1, <2>2
  <2> QED
    BY <2>3 DEF s
<1>5. w \in Slots => Pins(f, w)[w] > 0
  BY <1>1 DEF Pins
<1> QED
  BY <1>3, <1>4, <1>5

(* Tables that name the same slots.                                        *)
LEMMA PinsSame ==
    ASSUME NEW f, NEW g, NEW w, \A x \in Files : g[x].ip = f[x].ip
    PROVE  Pins(g, w) = Pins(f, w)
<1>1. \A s : Holding(g, s) = Holding(f, s)
  BY DEF Holding
<1> QED
  BY <1>1 DEF Pins

(* One entry more names a slot.                                            *)
LEMMA PinsOpen ==
    ASSUME NEW f, NEW g, NEW w, NEW k \in Files, \A x \in Files \ {k} : g[x].ip = f[x].ip,
           NEW s \in Slots, f[k].ip = Null, g[k].ip = s
    PROVE  Pins(g, w) = Plus(Pins(f, w), s)
<1>1. s # Null /\ Null \notin Slots
  BY CacheAssumption DEF Slots
<1>2. Holding(g, s) = Holding(f, s) \union {k} /\ k \notin Holding(f, s)
  BY <1>1 DEF Holding
<1>3. \A u \in Slots \ {s} : Holding(g, u) = Holding(f, u)
  BY <1>1 DEF Holding
<1>4. Cardinality(Holding(g, s)) = Cardinality(Holding(f, s)) + 1
  <2> DEFINE H == Holding(f, s)
  <2>1. IsFiniteSet(H)
    BY HoldingFinite
  <2>2. Holding(g, s) = H \union {k} /\ k \notin H
    BY <1>2
  <2> HIDE DEF H
  <2>3. Cardinality(H \union {k}) = Cardinality(H) + 1
    BY <2>1, <2>2, FS_AddElement
  <2> QED
    BY <2>2, <2>3 DEF H
<1>5. Cardinality(Holding(f, s)) \in Nat
  BY HoldingFinite
<1>6. \A u \in Slots : Pins(g, w)[u] = IF u = s THEN Pins(f, w)[u] + 1 ELSE Pins(f, w)[u]
  BY <1>3, <1>4, <1>5 DEF Pins
<1>7. Pins(g, w) = [u \in Slots |-> Pins(g, w)[u]]
  BY DEF Pins
<1> QED
  BY <1>6, <1>7 DEF Plus

(* The current directory holds a slot.                                     *)
LEMMA PinsCwd ==
    ASSUME NEW f, NEW s \in Slots
    PROVE  Pins(f, s) = Plus(Pins(f, Null), s)
<1>1. \A u \in Slots : u # Null /\ Cardinality(Holding(f, u)) \in Nat
  BY HoldingFinite, CacheAssumption DEF Slots
<1> QED
  BY <1>1 DEF Pins, Plus
-----------------------------------------------------------------------------
(* What an inode is, and which exist, from the layer.                      *)
InodeIn(c, i) ==
    IF \E s \in Slots : Ino(c, s) = i
    THEN LET s == CHOOSE s \in Slots : Ino(c, s) = i
         IN  [mode |-> c.slot[s].mode, nlink |-> c.slot[s].nlink]
    ELSE c.disk[i]
Exists(c) == {i \in Inodes : \/ InodeIn(c, i).nlink > 0
                             \/ \E s \in Slots : Ino(c, s) = i /\ c.slot[s].ref > 0}

(* An inode that has not gone is what the disk says; one that is free on   *)
(* the disk is in no slot.                                                 *)
LEMMA InodeInBook ==
    ASSUME NEW c, NEW D, NEW t, NEW O, NEW P, NEW X, Book(c, D, t, O, P, X), NEW i \in Inodes
    PROVE  /\ i \in Alive(t, X) => InodeIn(c, i).mode = D[i].mode /\ InodeIn(c, i).nlink = D[i].nlink
           /\ D[i].mode = "free" => InodeIn(c, i) = D[i] /\ \A s \in Slots : Ino(c, s) # i
<1>1. Fresh(c.slot, D, t, X) /\ c.disk = D /\ i # 0
  BY BookFields, CacheAssumption DEF Kept, Inodes
<1>2. CASE \E s \in Slots : Ino(c, s) = i
  <2> DEFINE s == CHOOSE s \in Slots : Ino(c, s) = i
  <2>1. s \in Slots /\ Ino(c, s) = i
    BY <1>2
  <2>2. InodeIn(c, i) = [mode |-> c.slot[s].mode, nlink |-> c.slot[s].nlink]
    BY <1>2 DEF InodeIn
  <2> HIDE DEF s
  <2> QED
    BY <1>1, <2>1, <2>2 DEF Fresh, Ino
<1>3. CASE ~\E s \in Slots : Ino(c, s) = i
  BY <1>1, <1>3 DEF InodeIn
<1> QED
  BY <1>2, <1>3

(* What can be reached or is held exists; what is free on the disk does not.*)
LEMMA ExistsBook ==
    ASSUME NEW c, NEW D, NEW t, NEW O, NEW P, NEW X, Book(c, D, t, O, P, X)
    PROVE  /\ Alive(t, X) \subseteq Exists(c)
           /\ \A s \in Slots : P[s] > 0 => Ino(c, s) = O[s] /\ O[s] \in Exists(c)
           /\ \A i \in Inodes : D[i].mode = "free" => i \notin Exists(c)
<1>1. Volume(D, t, X) /\ P \in Counts /\ c.slot \in Slotted /\ Pinned(c.slot, O, P)
  BY BookFields DEF Kept
<1>2. ASSUME NEW i \in Alive(t, X) PROVE i \in Exists(c)
  <2>1. i \in Inodes /\ 1 <= D[i].nlink /\ D[i].nlink \in Nat
    BY <1>1, AliveHasLink DEF Info
  <2>2. InodeIn(c, i).nlink = D[i].nlink
    BY <2>1, InodeInBook
  <2> QED
    BY <2>1, <2>2 DEF Exists
<1>3. ASSUME NEW s \in Slots, P[s] > 0 PROVE Ino(c, s) = O[s] /\ O[s] \in Exists(c)
  <2>1. P[s] \in Nat /\ c.slot[s].ref \in Nat /\ P[s] <= c.slot[s].ref /\ c.slot[s].ino = O[s] /\ O[s] \in Inodes
    BY <1>1, <1>3 DEF Counts, Slotted, Slot, Pinned
  <2>2. c.slot[s].ref > 0
    BY <1>3, <2>1
  <2> QED
    BY <2>1, <2>2 DEF Exists, Ino
<1>4. ASSUME NEW i \in Inodes, D[i].mode = "free" PROVE i \notin Exists(c)
  <2>1. InodeIn(c, i) = D[i] /\ (\A s \in Slots : Ino(c, s) # i) /\ D[i].nlink = 0
    BY <1>1, <1>4, InodeInBook DEF Volume
  <2> QED
    BY <2>1 DEF Exists
<1> QED
  BY <1>2, <1>3, <1>4

(* The end of a call: the books, and what FileRules sees of it. *)
Booked(c, f, w) == Book(c, c.disk, c.dirs, InoOf(c), Pins(f, w), {})
OfIn(c, s)  == IF s = Null THEN 0 ELSE Ino(c, s)
OfAll(c, f) == [x \in Files |-> OfIn(c, f[x].ip)]

(* A call that does not return leaves everything as it was; one that does  *)
(* leaves what it computed, with the books in order.                       *)
LEMMA ReturnBooked ==
    ASSUME Booked(fs, file, cwd), NEW call, NEW c, NEW f, NEW u, NEW w, Return(call, c, f, u, w),
           NEW D, NEW t, NEW Q, NEW P, Book(c, D, t, Q, P, {}),
           \A s \in Slots : Pins(f, w)[s] <= P[s], Agree(InoOf(fs), Q, Pins(file, cwd))
    PROVE  /\ Booked(fs', file', cwd')
           /\ fs'.dirs = t /\ file' = f /\ ufd' = u /\ cwd' = w
           /\ \A s \in Slots : P[s] > 0 => Ino(fs', s) = Q[s]
           /\ \A s \in Slots : Pins(file, cwd)[s] > 0 => Q[s] = Ino(fs, s)
<1> DEFINE e == [c EXCEPT !.ip = Null]
           P2 == Pins(f, w)
<1>1. c.spin = "no"
  BY DEF Book
<1>2. fs' = e /\ file' = f /\ ufd' = u /\ cwd' = w
  BY <1>1 DEF Return
<1>3. Book(e, D, t, Q, P, {})
  BY BookIp
<1> HIDE DEF e
<1>4. e.disk = D /\ e.dirs = t /\ e.slot \in Slotted /\ Pinned(e.slot, Q, P) /\ P \in Counts
  BY <1>3, BookFields DEF Kept
<1>5. P2 \in Counts
  BY PinsType
<1> HIDE DEF P2
<1>6. Book(e, D, t, Q, P2, {})
  BY <1>3, <1>5, BookLess DEF P2
<1>7. InoOf(e) \in Owners
  BY <1>4 DEF InoOf, Owners, Slotted, Slot
<1>8. Agree(InoOf(e), Q, P2)
  <2>1. Pinned(e.slot, Q, P2)
    BY <1>6, BookFields DEF Kept
  <2> QED
    BY <2>1 DEF Pinned, Agree, InoOf
<1>9. Book(e, D, t, InoOf(e), P2, {})
  BY <1>6, <1>7, <1>8, BookAgree
<1>10. \A s \in Slots : P[s] > 0 => Ino(e, s) = Q[s]
  BY <1>4 DEF Pinned, Ino
<1>11. \A s \in Slots : Pins(file, cwd)[s] > 0 => Q[s] = Ino(fs, s)
  BY DEF Agree, InoOf, Ino
<1> QED
  BY <1>2, <1>4, <1>9, <1>10, <1>11 DEF Booked, P2

(* What a name, an entry or the current directory refers to exists.        *)
LEMMA UsedExists ==
    ASSUME NEW c, NEW f \in [Files -> Entries], NEW w \in Slots \union {Null}, Booked(c, f, w)
    PROVE  /\ \A d \in Inodes, n \in Names : c.dirs[d][n] # 0 => c.dirs[d][n] \in Exists(c)
           /\ \A x \in Files : OfAll(c, f)[x] # 0 => OfAll(c, f)[x] \in Exists(c)
           /\ OfIn(c, w) # 0 => OfIn(c, w) \in Exists(c)
<1> DEFINE P == Pins(f, w)
           t == c.dirs
<1>1. Book(c, c.disk, t, InoOf(c), P, {})
  BY DEF Booked
<1>2. Alive(t, {}) \subseteq Exists(c) /\ \A s \in Slots : P[s] > 0 => Ino(c, s) \in Exists(c)
  <2> HIDE DEF P, t
  <2> QED
    BY <1>1, ExistsBook
<1>3. Volume(c.disk, t, {})
  BY <1>1, BookFields
<1>4. \A d \in Inodes, n \in Names : t[d][n] # 0 => t[d][n] \in Exists(c)
  BY <1>2, <1>3, NamedIsAlive
<1>5. ASSUME NEW x \in Files, OfAll(c, f)[x] # 0 PROVE OfAll(c, f)[x] \in Exists(c)
  <2>1. f[x].ip \in Slots /\ OfAll(c, f)[x] = Ino(c, f[x].ip)
    BY <1>5 DEF Entries, OfAll, OfIn
  <2> QED
    BY <1>2, <2>1, PinsType
<1>6. ASSUME OfIn(c, w) # 0 PROVE OfIn(c, w) \in Exists(c)
  <2>1. w \in Slots /\ OfIn(c, w) = Ino(c, w)
    BY <1>6 DEF OfIn
  <2> QED
    BY <1>2, <2>1, PinsType
<1> QED
  BY <1>4, <1>5, <1>6

(* The inodes that exist for FileRules.                                    *)
LEMMA ExistsIs ==
    /\ {i \in Inodes : Inode(i).nlink > 0 \/ \E s \in Slots : Ino(fs, s) = i /\ Held(s)} = Exists(fs)
    /\ {i \in Inodes : Inode(i)'.nlink > 0 \/ \E s \in Slots : Ino(fs', s) = i /\ Held(s)'} = Exists(fs')
BY DEF Inode, InodeIn, Held, Exists

(* Whatever refers to an inode after a call refers to one that exists.     *)
LEMMA UsedStays ==
    ASSUME Booked(fs', file', cwd'), file' \in [Files -> Entries], cwd' \in Slots \union {Null}
    PROVE  Rules!Used' \subseteq
               {i \in Inodes : Inode(i)'.nlink > 0 \/ \E s \in Slots : Ino(fs', s) = i /\ Held(s)'}
<1>1. /\ \A d \in Inodes, n \in Names : fs'.dirs[d][n] # 0 => fs'.dirs[d][n] \in Exists(fs')
      /\ \A x \in Files : OfAll(fs', file')[x] # 0 => OfAll(fs', file')[x] \in Exists(fs')
      /\ OfIn(fs', cwd') # 0 => OfIn(fs', cwd') \in Exists(fs')
  BY UsedExists
<1>2. \A x \in Files : OfAll(fs', file')[x] = Of(file[x].ip)'
  BY DEF OfAll, OfIn, Of
<1>3. OfIn(fs', cwd') = Of(cwd)'
  BY DEF OfIn, Of
<1>4. Rules!Used' \subseteq Exists(fs')
  BY <1>1, <1>2, <1>3 DEF Rules!Used, Rules!Named
<1> QED
  BY <1>4, ExistsIs

(* The steps of FileRules that leave the current directory alone.          *)
LEMMA RulesNext ==
    ASSUME Booked(fs', file', cwd'), file' \in [Files -> Entries], cwd' \in Slots \union {Null},
           OfIn(fs', cwd') = OfIn(fs, cwd),
           Rules!NoChange \/ Rules!FdsChange \/ Rules!NamesChange
    PROVE  Rules!Next
<1>1. Of(cwd)' = Of(cwd)
  BY DEF Of, OfIn
<1> QED
  BY <1>1, UsedStays DEF Rules!Next

(* How the names of a volume may change. *)
Cleared(t, t2)  == \E d \in Inodes, n \in Names : t[d][n] # 0 /\ t2 = Entry(t, d, n, 0)
Purged(t, t2)   == \E d \in Inodes, n \in Names :
                       t[d][n] # 0 /\ t2 = [t EXCEPT ![t[d][n]] = NoNames, ![d][n] = 0]
NameAdded(t, t2, i) == \E d \in Inodes, n \in Names : t[d][n] = 0 /\ t2 = Entry(t, d, n, i)
Moved(t, t2)    == \E d, e \in Inodes, n, m \in Names :
                       t[d][n] # 0 /\ t2 = [t EXCEPT ![d][n] = 0, ![e][m] = t[d][n]]
NamesStep(c, t2) ==
    \/ t2 = c.dirs \/ Cleared(c.dirs, t2) \/ Purged(c.dirs, t2) \/ Moved(c.dirs, t2)
    \/ \E i \in Inodes : NameAdded(c.dirs, t2, i) /\ (i \notin Exists(c) \/ NamesIn(c.dirs, i) # {})

(* What does not concern descriptors.                                      *)
LEMMA SameFds ==
    ASSUME ufd' = ufd, OfAll(fs', file') = OfAll(fs, file)
    PROVE  Rules!NoFds
BY DEF Rules!NoFds, OfAll, OfIn, Of

(* A change of names only.                                                 *)
LEMMA NamesRules ==
    ASSUME NamesStep(fs, fs'.dirs), ufd' = ufd, OfAll(fs', file') = OfAll(fs, file)
    PROVE  Rules!NoChange \/ Rules!NamesChange
<1>1. Rules!NoFds
  BY SameFds
<1>2. CASE fs'.dirs = fs.dirs
  BY <1>1, <1>2 DEF Rules!NoChange, Rules!Unnamed
<1>3. CASE Cleared(fs.dirs, fs'.dirs)
  BY <1>1, <1>3 DEF Cleared, Entry, Rules!NamesChange, Rules!Unlink, Rules!Remove
<1>4. CASE Purged(fs.dirs, fs'.dirs)
  BY <1>1, <1>4 DEF Purged, NoNames, Rules!NamesChange, Rules!Unlink, Rules!RemoveAll, Rules!Empty
<1>5. CASE Moved(fs.dirs, fs'.dirs)
  BY <1>1, <1>5 DEF Moved, Rules!NamesChange, Rules!Rename, Rules!Move
<1>6. ASSUME NEW i \in Inodes, NameAdded(fs.dirs, fs'.dirs, i),
             i \notin Exists(fs) \/ NamesIn(fs.dirs, i) # {}
      PROVE  Rules!NamesChange
  <2>1. PICK d \in Inodes, n \in Names : fs.dirs[d][n] = 0 /\ fs'.dirs = Entry(fs.dirs, d, n, i)
    BY <1>6 DEF NameAdded
  <2>2. Rules!Add(d, n, i)
    BY <2>1 DEF Rules!Add, Entry
  <2>3. CASE i \notin Exists(fs)
    <3>1. Rules!Create(d, n, i)
      BY <1>1, <2>2, <2>3, ExistsIs DEF Rules!Create
    <3> QED
      BY <2>1, <3>1 DEF Rules!NamesChange
  <2>4. CASE NamesIn(fs.dirs, i) # {}
    <3>1. i \in Rules!Named
      <4>1. PICK e \in Inodes, m \in Names : fs.dirs[e][m] = i
        BY <2>4 DEF NamesIn
      <4>2. i # 0
        BY CacheAssumption DEF Inodes
      <4> QED
        BY <4>1, <4>2 DEF Rules!Named
    <3>2. Rules!Link(d, n, i)
      BY <1>1, <2>2, <3>1 DEF Rules!Link
    <3> QED
      BY <2>1, <3>2 DEF Rules!NamesChange
  <2> QED
    BY <1>6, <2>3, <2>4
<1> QED
  BY <1>2, <1>3, <1>4, <1>5, <1>6 DEF NamesStep

FsInv == TypeInv /\ Booked(fs, file, cwd)
O0 == InoOf(fs)
P0 == Pins(file, cwd)

(* What a call starts from.                                                *)
LEMMA StartBook ==
    ASSUME FsInv
    PROVE  /\ Book(fs, fs.disk, fs.dirs, O0, P0, {}) /\ Volume(fs.disk, fs.dirs, {})
           /\ O0 \in Owners /\ P0 \in Counts /\ fs.dirs \in Trees /\ fs.spin = "no"
           /\ Tables(file, ufd, cwd) /\ file \in [Files -> Entries] /\ cwd \in Slots \union {Null}
<1>1. Book(fs, fs.disk, fs.dirs, O0, P0, {})
  BY DEF FsInv, Booked, O0, P0
<1>2. Tables(file, ufd, cwd) /\ file \in [Files -> Entries] /\ cwd \in Slots \union {Null}
  BY DEF FsInv, TypeInv, Tables
<1> QED
  BY <1>1, <1>2, BookFields

(* A step of the calls: the books stay in order, and FileRules allows it.  *)
Allowed == Booked(fs', file', cwd') /\ (Rules!Next \/ UNCHANGED Rules!vars)

(* A call that never returns changes nothing.                              *)
LEMMA StuckAllowed ==
    ASSUME FsInv, NEW call, NEW c, NEW f, NEW u, NEW w, Return(call, c, f, u, w), c.spin # "no"
    PROVE  Allowed
<1>1. UNCHANGED <<fs, file, ufd, cwd>>
  BY DEF Return
<1>2. UNCHANGED Rules!vars
  BY <1>1 DEF Rules!vars, Of, Ino, Inode, Held, IsDir
<1> QED
  BY <1>1, <1>2 DEF Allowed, FsInv

(* How a call that changes names only leaves the layer: stuck, or with the *)
(* books in order and what was held still held.                            *)
Ends(c, t, Q, P) ==
    /\ \E D : Book(c, D, t, Q, P, {})
    /\ Q \in Owners /\ P \in Counts
    /\ Agree(O0, Q, P0) /\ \A s \in Slots : P0[s] <= P[s]
EndsFor(c) == c.spin # "no" \/ \E t, Q, P : Ends(c, t, Q, P) /\ NamesStep(fs, t)

(* The current directory and the entries still stand for the same inodes.  *)
LEMMA HeldSame ==
    ASSUME FsInv, \A s \in Slots : P0[s] > 0 => Ino(fs', s) = Ino(fs, s)
    PROVE  OfAll(fs', file) = OfAll(fs, file) /\ OfIn(fs', cwd) = OfIn(fs, cwd)
<1>1. file \in [Files -> Entries] /\ cwd \in Slots \union {Null}
  BY StartBook
<1>2. ASSUME NEW x \in Files PROVE OfIn(fs', file[x].ip) = OfIn(fs, file[x].ip)
  <2>1. file[x].ip \in Slots => P0[file[x].ip] > 0
    BY PinsType DEF P0
  <2>2. file[x].ip \in Slots \union {Null}
    BY <1>1 DEF Entries
  <2> QED
    BY <2>1, <2>2 DEF OfIn
<1>3. OfIn(fs', cwd) = OfIn(fs, cwd)
  BY <1>1, PinsType DEF OfIn, P0
<1> QED
  BY <1>2, <1>3 DEF OfAll

(* A call that changes names only.                                         *)
LEMMA FinishAllowed ==
    ASSUME FsInv, NEW call, NEW c, Finish(call, c), EndsFor(c)
    PROVE  Allowed
<1>1. CASE c.spin # "no"
  BY <1>1, StuckAllowed DEF Finish
<1>2. CASE c.spin = "no"
  <2>1. PICK t, Q, P : Ends(c, t, Q, P) /\ NamesStep(fs, t)
    BY <1>2 DEF EndsFor
  <2>2. PICK D : Book(c, D, t, Q, P, {})
    BY <2>1 DEF Ends
  <2>3. Return(call, c, file, ufd, cwd)
    BY DEF Finish
  <2>4. /\ Booked(fs, file, cwd) /\ Agree(InoOf(fs), Q, Pins(file, cwd))
        /\ \A s \in Slots : Pins(file, cwd)[s] <= P[s]
    BY <2>1 DEF Ends, FsInv, O0, P0
  <2>5. /\ Booked(fs', file', cwd') /\ fs'.dirs = t /\ file' = file /\ ufd' = ufd /\ cwd' = cwd
        /\ \A s \in Slots : P[s] > 0 => Ino(fs', s) = Q[s]
        /\ \A s \in Slots : Pins(file, cwd)[s] > 0 => Q[s] = Ino(fs, s)
    BY <2>2, <2>3, <2>4, ReturnBooked
  <2>6. \A s \in Slots : P0[s] > 0 => Ino(fs', s) = Ino(fs, s)
    <3>1. P \in Counts /\ P0 \in Counts
      BY <2>1, StartBook DEF Ends
    <3> QED
      BY <2>4, <2>5, <3>1 DEF P0, Counts
  <2>7. OfAll(fs', file') = OfAll(fs, file) /\ OfIn(fs', cwd') = OfIn(fs, cwd)
    BY <2>5, <2>6, HeldSame
  <2>8. Rules!NoChange \/ Rules!NamesChange
    BY <2>1, <2>5, <2>7, NamesRules
  <2>9. file' \in [Files -> Entries] /\ cwd' \in Slots \union {Null}
    BY <2>5, StartBook
  <2> QED
    BY <2>5, <2>7, <2>8, <2>9, RulesNext DEF Allowed
<1> QED
  BY <1>1, <1>2

-----------------------------------------------------------------------------
(* The books in the middle of a call that started from fs: what the tables *)
(* and the current directory hold stays held.                              *)
Over(P) == P \in Counts /\ \A s \in Slots : P0[s] <= P[s]
In(c, D, t, Q, P, X)   == Book(c, D, t, Q, P, X) /\ Agree(O0, Q, P0) /\ Over(P)
Done(c, D, t, Q, P, X) == c.spin # "no" \/ In(c, D, t, Q, P, X)

(* r returned no inode, or the inode i in a slot of its own. *)
NotFound(r, D, t, Q, P, X) == r \in Layer /\ r.ip = Null /\ Done(r, D, t, Q, P, X)
Taken(r, D, t, Q, P, X, R, i) ==
    /\ r.ip \in Slots /\ R[r.ip] = i /\ i \in Inodes /\ Agree(Q, R, P)
    /\ In(r, D, t, R, Plus(P, r.ip), X)

(* More references.                                                        *)
LEMMA OverPlus ==
    ASSUME NEW P, Over(P), NEW s
    PROVE  /\ Over(Plus(P, s)) /\ Plus(P, s) \in Counts
           /\ s \in Slots => Plus(P, s)[s] >= 1
           /\ \A u \in Slots : P[u] >= 1 => Plus(P, s)[u] >= 1
<1>1. P \in Counts /\ P0 \in Counts
  BY PinsType DEF Over, P0
<1>2. Plus(P, s) \in Counts /\ (\A u \in Slots : P[u] <= Plus(P, s)[u]) /\ (s \in Slots => Plus(P, s)[s] >= 1)
  BY <1>1, PlusMore
<1>3. \A u \in Slots : P0[u] <= Plus(P, s)[u]
  BY <1>1, <1>2 DEF Over, Counts
<1> QED
  BY <1>1, <1>2, <1>3 DEF Over, Counts

(* A call starts with the books in order.                                  *)
LEMMA InStart ==
    ASSUME FsInv
    PROVE  In(fs, fs.disk, fs.dirs, O0, P0, {}) /\ Over(P0)
<1>1. Book(fs, fs.disk, fs.dirs, O0, P0, {}) /\ P0 \in Counts
  BY StartBook
<1>2. \A s \in Slots : P0[s] <= P0[s]
  BY <1>1 DEF Counts
<1>3. Agree(O0, O0, P0)
  BY DEF Agree
<1> QED
  BY <1>1, <1>2, <1>3 DEF In, Over

(* It may end when every link count is settled.                            *)
LEMMA DoneEnds ==
    ASSUME NEW c, NEW D, NEW t, NEW Q, NEW P, Done(c, D, t, Q, P, {}), NamesStep(fs, t)
    PROVE  EndsFor(c)
<1>1. ASSUME In(c, D, t, Q, P, {}) PROVE Ends(c, t, Q, P)
  <2>1. Q \in Owners /\ P \in Counts
    BY <1>1, BookFields DEF In
  <2> QED
    BY <1>1, <2>1 DEF In, Over, Ends
<1> QED
  BY <1>1 DEF Done, EndsFor

(* A call that changes nothing.                                            *)
LEMMA SameNames == NamesStep(fs, fs.dirs)
BY DEF NamesStep

(* iput puts a reference back.                                             *)
LEMMA InPut ==
    ASSUME NEW c, NEW D, NEW t, NEW Q, NEW P, NEW X, NEW s \in Slots, Over(P),
           In(c, D, t, Q, Plus(P, s), X)
    PROVE  In(Iput(c, s), D, t, Q, P, X) /\ Iput(c, s).ip = c.ip
<1>1. P \in Counts
  BY DEF Over
<1> QED
  BY <1>1, PutBack DEF In

(* The last reference but one.                                             *)
LEMMA InPutOther ==
    ASSUME NEW c, NEW D, NEW t, NEW Q, NEW P, NEW X, NEW s \in Slots, NEW u, Over(P),
           In(c, D, t, Q, Plus(Plus(P, s), u), X)
    PROVE  In(Iput(c, s), D, t, Q, Plus(P, u), X) /\ Iput(c, s).ip = c.ip
<1>1. P \in Counts
  BY DEF Over
<1> QED
  BY <1>1, OverPlus, PutBackOther DEF In

(* iput after a routine that may not have returned.                        *)
LEMMA DonePut ==
    ASSUME NEW c, NEW D, NEW t, NEW Q, NEW P, NEW X, NEW s \in Slots, Over(P),
           Done(c, D, t, Q, Plus(P, s), X)
    PROVE  Done(Iput(c, s), D, t, Q, P, X)
<1>1. ASSUME c.spin # "no" PROVE Iput(c, s) = c
  BY <1>1 DEF Iput
<1> QED
  BY <1>1, InPut DEF Done

(* The references that are held make the slots hold inodes.                *)
LEMMA InHas ==
    ASSUME NEW c, NEW D, NEW t, NEW Q, NEW P, NEW X, In(c, D, t, Q, P, X)
    PROVE  /\ Volume(D, t, X) /\ c \in Layer /\ c.spin = "no" /\ Over(P) /\ P \in Counts
           /\ D \in Disks /\ t \in Trees /\ Q \in Owners /\ c.dirs = t /\ c.disk = D
           /\ \A s \in Slots : P[s] >= 1 => Ino(c, s) = Q[s] /\ Q[s] \in Inodes /\ Q[s] # 0
           /\ \A s \in Slots : P[s] >= 1 /\ Q[s] \in Alive(t, X) =>
                 /\ c.slot[s].mode = D[Q[s]].mode /\ c.slot[s].nlink = D[Q[s]].nlink
                 /\ IsDir(c, s) = (D[Q[s]].mode = "dir")
                 /\ \A n : Lookup(c, s, n) = IF D[Q[s]].mode = "dir" THEN t[Q[s]][n] ELSE 0
<1>1. /\ Volume(D, t, X) /\ c \in Layer /\ c.spin = "no" /\ Over(P) /\ P \in Counts
      /\ D \in Disks /\ t \in Trees /\ Q \in Owners /\ c.dirs = t /\ c.disk = D
  BY BookFields DEF In
<1>2. Book(c, D, t, Q, P, X)
  BY DEF In
<1> QED
  BY <1>1, <1>2, PinInfo

(* namei.                                                                  *)
LEMMA NameiFinds ==
    ASSUME NEW c, NEW D, NEW t, NEW Q, NEW P, NEW X, In(c, D, t, Q, P, X),
           NEW path \in PathSet, path.abs, NEW w, NEW r, r = Namei(c, path, w)
    PROVE  \/ NotFound(r, D, t, Q, P, X)
           \/ \E R, i : /\ Taken(r, D, t, Q, P, X, R, i) /\ i \in Alive(t, X) /\ i \in Linked(t, X)
                        /\ Leads(t, path.at, Len(path.at), i)
<1>1. Book(c, D, t, Q, P, X) /\ Agree(O0, Q, P0) /\ Over(P) /\ P \in Counts /\ P0 \in Counts
  BY PinsType DEF In, Over, P0
<1>2. OnTheWay(r, D, t, Q, P, X, path.at, Len(path.at))
  BY <1>1, NameiBook
<1>3. PICK i : Fetched(r, D, t, Q, P, X, i) /\ (r.ip # Null => Leads(t, path.at, Len(path.at), i))
  BY <1>2 DEF OnTheWay
<1>4. /\ r \in Layer /\ r.ip \in Slots \union {Null}
      /\ r.ip = Null /\ r.spin = "no" => Book(r, D, t, Q, P, X)
      /\ r.ip # Null => \E R \in Owners : /\ Agree(Q, R, P) /\ R[r.ip] = i /\ i \in Inodes
                                          /\ Book(r, D, t, R, Plus(P, r.ip), X)
  BY <1>3, FetchedIs
<1>5. CASE r.ip = Null
  BY <1>1, <1>4, <1>5 DEF NotFound, Done, In
<1>6. CASE r.ip # Null
  <2>1. PICK R \in Owners : /\ Agree(Q, R, P) /\ R[r.ip] = i /\ i \in Inodes
                            /\ Book(r, D, t, R, Plus(P, r.ip), X)
    BY <1>4, <1>6
  <2>2. Agree(O0, R, P0)
    BY <1>1, <2>1, AgreeAgain DEF Over
  <2>3. In(r, D, t, R, Plus(P, r.ip), X)
    BY <1>1, <2>1, <2>2, OverPlus DEF In
  <2>4. Taken(r, D, t, Q, P, X, R, i)
    BY <1>4, <1>6, <2>1, <2>3 DEF Taken
  <2>5. Volume(D, t, X)
    BY <1>1, BookFields
  <2>6. Len(path.at) \in Nat /\ \A j \in 1..Len(path.at) : path.at[j] \in Names
    BY DEF PathSet
  <2>7. Leads(t, path.at, Len(path.at), i)
    BY <1>3, <1>6
  <2>8. i \in Alive(t, X) /\ i \in Linked(t, X)
    BY <2>5, <2>6, <2>7, LeadsAlive
  <2> QED
    BY <2>4, <2>7, <2>8
<1> QED
  BY <1>5, <1>6

(* iget of an inode that has not gone.                                     *)
LEMMA IgetFinds ==
    ASSUME NEW c, NEW D, NEW t, NEW Q, NEW P, NEW X, In(c, D, t, Q, P, X), NEW i \in Alive(t, X)
    PROVE  \/ NotFound(Iget(c, i), D, t, Q, P, X)
           \/ \E R : Taken(Iget(c, i), D, t, Q, P, X, R, i)
<1> DEFINE r == Iget(c, i)
<1>1. Book(c, D, t, Q, P, X) /\ Agree(O0, Q, P0) /\ Over(P) /\ P \in Counts /\ P0 \in Counts
  BY PinsType DEF In, Over, P0
<1>2. Fetched(r, D, t, Q, P, X, i)
  BY <1>1, IgetBook
<1> HIDE DEF r
<1>4. /\ r \in Layer /\ r.ip \in Slots \union {Null}
      /\ r.ip = Null /\ r.spin = "no" => Book(r, D, t, Q, P, X)
      /\ r.ip # Null => \E R \in Owners : /\ Agree(Q, R, P) /\ R[r.ip] = i /\ i \in Inodes
                                          /\ Book(r, D, t, R, Plus(P, r.ip), X)
  BY <1>2, FetchedIs
<1>5. CASE r.ip = Null
  BY <1>1, <1>4, <1>5 DEF NotFound, Done, In, r
<1>6. CASE r.ip # Null
  <2>1. PICK R \in Owners : /\ Agree(Q, R, P) /\ R[r.ip] = i /\ i \in Inodes
                            /\ Book(r, D, t, R, Plus(P, r.ip), X)
    BY <1>4, <1>6
  <2>2. Agree(O0, R, P0)
    BY <1>1, <2>1, AgreeAgain DEF Over
  <2>3. In(r, D, t, R, Plus(P, r.ip), X)
    BY <1>1, <2>1, <2>2, OverPlus DEF In
  <2> QED
    BY <1>4, <1>6, <2>1, <2>3 DEF Taken, r
<1> QED
  BY <1>5, <1>6

(* ialloc_dev: an inode that was free.                                     *)
LEMMA IallocFinds ==
    ASSUME NEW c, NEW D, NEW t, NEW Q, NEW P, NEW X, In(c, D, t, Q, P, X), NEW kind \in Modes \ {"free"},
           NEW r, r = Ialloc(c, kind)
    PROVE  \/ NotFound(r, D, t, Q, P, X)
           \/ \E R, i : /\ Taken(r, Given(D, i, kind), t, Q, P, X, R, i) /\ D[i].mode = "free"
                        /\ i \notin Alive(t, X) /\ NameCount(t, i) = 0 /\ t[i] = NoNames /\ i # Root
                        /\ r.slot[r.ip].mode = kind
<1>1. Book(c, D, t, Q, P, X) /\ Agree(O0, Q, P0) /\ Over(P) /\ P \in Counts /\ P0 \in Counts
  BY PinsType DEF In, Over, P0
<1>2. Allotted(r, D, t, Q, P, X, kind)
  BY <1>1, IallocBook
<1>3. r \in Layer /\ r.ip \in Slots \union {Null}
  BY <1>2 DEF Allotted, Layer
<1>5. CASE r.ip = Null
  BY <1>1, <1>2, <1>3, <1>5 DEF Allotted, NotFound, Done, In
<1>6. CASE r.ip # Null
  <2>1. PICK i \in Inodes, R \in Owners :
            /\ D[i].mode = "free" /\ Agree(Q, R, P) /\ R[r.ip] = i
            /\ Book(r, Given(D, i, kind), t, R, Plus(P, r.ip), X) /\ r.slot[r.ip].mode = kind
    BY <1>2, <1>6 DEF Allotted
  <2>2. Agree(O0, R, P0)
    BY <1>1, <2>1, AgreeAgain DEF Over
  <2>3. In(r, Given(D, i, kind), t, R, Plus(P, r.ip), X)
    BY <1>1, <2>1, <2>2, OverPlus DEF In
  <2>4. Taken(r, Given(D, i, kind), t, Q, P, X, R, i)
    BY <1>3, <1>6, <2>1, <2>3 DEF Taken
  <2>5. Volume(D, t, X)
    BY <1>1, BookFields
  <2>6. i \notin Alive(t, X) /\ NameCount(t, i) = 0 /\ t[i] = NoNames
    <3>1. i \in Inodes /\ D[i].mode = "free"
      BY <2>1
    <3> QED
      BY <2>5, <3>1, VolumeClaim
  <2>7. i # Root
    BY <2>6, RootIsAlive
  <2> QED
    BY <2>1, <2>4, <2>6, <2>7
<1> QED
  BY <1>5, <1>6

(* What the writes of a call do to the books in the middle of it.          *)

(* dir_remove: the inode has a link to spare.                              *)
LEMMA InClear ==
    ASSUME NEW c, NEW D, NEW t, NEW Q, NEW P, NEW X, In(c, D, t, Q, P, X),
           NEW s \in Slots, P[s] >= 1, NEW n \in Names, NEW i, i # 0, i \notin X, t[Q[s]][n] = i
    PROVE  /\ In(RemoveEntry(c, s, n), D, Entry(t, Q[s], n, 0), Q, P, X \union {i})
           /\ RemoveEntry(c, s, n).ip = c.ip
           /\ D[i].mode = "dir" /\ Q[s] \in Linked(t, X) =>
                 3 + DirCount(D, Entry(t, Q[s], n, 0), Q[s]) <= D[Q[s]].nlink
<1>1. Book(c, D, t, Q, P, X) /\ Volume(D, t, X) /\ Q[s] \in Inodes
  BY InHas DEF In
<1>2. i \in Inodes
  BY <1>1, NamedIsAlive
<1>3. i \in Inodes \ X
  BY <1>2
<1> QED
  BY <1>1, <1>3, ClearBook DEF In

(* dir_add, for a link to spare.                                           *)
LEMMA InEnter ==
    ASSUME NEW c, NEW D, NEW t, NEW Q, NEW P, NEW X, In(c, D, t, Q, P, X),
           NEW s \in Slots, P[s] >= 1, NEW n \in Names, Q[s] \in Alive(t, X), D[Q[s]].mode = "dir",
           t[Q[s]][n] = 0, NEW i \in X,
           D[i].mode = "dir" => 3 + DirCount(D, t, Q[s]) <= D[Q[s]].nlink
    PROVE  /\ In(AddEntry(c, s, n, i), D, Entry(t, Q[s], n, i), Q, P, X \ {i})
           /\ AddEntry(c, s, n, i).ip = c.ip
BY EnterBook DEF In

(* The link to spare goes.                                                 *)
LEMMA InLower ==
    ASSUME NEW c, NEW D, NEW t, NEW Q, NEW P, NEW X, In(c, D, t, Q, P, X),
           NEW s \in Slots, P[s] >= 1, Q[s] \in X
    PROVE  /\ In(Relink(c, s, -1), Recount(D, Q[s], D[Q[s]].nlink - 1), t, Q, P, X \ {Q[s]})
           /\ Relink(c, s, -1).ip = c.ip
<1> DEFINE i == Q[s]
           k == D[i].nlink - 1
<1>1. Book(c, D, t, Q, P, X) /\ Volume(D, t, X) /\ i \in Inodes
  BY InHas DEF In
<1>2. k \in Nat /\ Volume(Recount(D, i, k), t, X \ {i}) /\ Alive(t, X \ {i}) \subseteq Alive(t, X)
  BY <1>1, VolumeLower DEF Recount
<1>3. i \in Alive(t, X)
  BY <1>1 DEF Alive
<1>4. D[i].nlink \in Nat
  BY <1>1 DEF Volume, Disks, Info
<1>5. -1 \in {-1, 1} /\ k = D[i].nlink + (-1)
  BY <1>4
<1>6. Book(Relink(c, s, -1), Recount(D, i, k), t, Q, P, X \ {i}) /\ Relink(c, s, -1).ip = c.ip
  <2> HIDE DEF k
  <2> QED
    <3> DEFINE X2 == X \ {i}
    <3>1. Volume(Recount(D, i, k), t, X2) /\ Alive(t, X2) \subseteq Alive(t, X) \union {i}
      BY <1>2
    <3> HIDE DEF X2
    <3>2. Book(Relink(c, s, -1), Recount(D, i, k), t, Q, P, X2) /\ Relink(c, s, -1).ip = c.ip
      BY <1>1, <1>2, <1>3, <1>5, <3>1, RelinkBook
    <3> QED
      BY <3>2 DEF X2
<1> QED
  BY <1>6 DEF In

(* A file gets a link to spare.                                            *)
LEMMA InRaise ==
    ASSUME NEW c, NEW D, NEW t, NEW Q, NEW P, NEW X, In(c, D, t, Q, P, X),
           NEW s \in Slots, P[s] >= 1, Q[s] \notin X, Q[s] \in Alive(t, X), D[Q[s]].mode # "dir"
    PROVE  /\ In(Relink(c, s, 1), Recount(D, Q[s], D[Q[s]].nlink + 1), t, Q, P, X \union {Q[s]})
           /\ Relink(c, s, 1).ip = c.ip
<1> DEFINE i == Q[s]
           k == D[i].nlink + 1
<1>1. Book(c, D, t, Q, P, X) /\ Volume(D, t, X) /\ i \in Inodes
  BY InHas DEF In
<1>2. D[i].mode \notin {"dir", "free"}
  BY <1>1, AliveHasLink
<1>3. k \in Nat /\ Volume(Recount(D, i, k), t, X \union {i})
  BY <1>1, <1>2, VolumeRaise DEF Recount
<1>4. Alive(t, X \union {i}) \subseteq Alive(t, X) \union {i}
  BY DEF Alive
<1>5. 1 \in {-1, 1} /\ k = D[i].nlink + 1
  OBVIOUS
<1>6. Book(Relink(c, s, 1), Recount(D, i, k), t, Q, P, X \union {i}) /\ Relink(c, s, 1).ip = c.ip
  <2> HIDE DEF k
  <2> QED
    <3> DEFINE X2 == X \union {i}
    <3>1. Volume(Recount(D, i, k), t, X2) /\ Alive(t, X2) \subseteq Alive(t, X) \union {i}
      BY <1>3, <1>4
    <3> HIDE DEF X2
    <3>2. Book(Relink(c, s, 1), Recount(D, i, k), t, Q, P, X2) /\ Relink(c, s, 1).ip = c.ip
      BY <1>1, <1>3, <1>5, <3>1, RelinkBook
    <3> QED
      BY <3>2 DEF X2
<1> QED
  BY <1>6 DEF In

(* A link count rises before there is an entry for it. *)
LEMMA InMore ==
    ASSUME NEW c, NEW D, NEW t, NEW Q, NEW P, NEW X, In(c, D, t, Q, P, X),
           NEW s \in Slots, P[s] >= 1, Q[s] \in Alive(t, X)
    PROVE  /\ In(Relink(c, s, 1), Recount(D, Q[s], D[Q[s]].nlink + 1), t, Q, P, X)
           /\ Relink(c, s, 1).ip = c.ip
<1> DEFINE i == Q[s]
           k == D[i].nlink + 1
<1>1. Book(c, D, t, Q, P, X) /\ Volume(D, t, X) /\ i \in Inodes
  BY InHas DEF In
<1>2. D[i].mode # "free"
  BY <1>1, AliveHasLink
<1>3. k \in Nat /\ Volume(Recount(D, i, k), t, X)
  BY <1>1, <1>2, VolumeMore
<1>5. 1 \in {-1, 1} /\ k = D[i].nlink + 1
  OBVIOUS
<1>6. Book(Relink(c, s, 1), Recount(D, i, k), t, Q, P, X) /\ Relink(c, s, 1).ip = c.ip
  <2> HIDE DEF k
  <2> QED
    BY <1>1, <1>3, <1>5, RelinkBook
<1> QED
  BY <1>6 DEF In

(* The link count of a directory falls after ".." in it is gone. *)
LEMMA InLess ==
    ASSUME NEW c, NEW D, NEW t, NEW Q, NEW P, NEW X, In(c, D, t, Q, P, X),
           NEW s \in Slots, P[s] >= 1, Q[s] \in Alive(t, X), D[Q[s]].mode = "dir",
           3 + DirCount(D, t, Q[s]) <= D[Q[s]].nlink
    PROVE  /\ In(Relink(c, s, -1), Recount(D, Q[s], D[Q[s]].nlink - 1), t, Q, P, X)
           /\ Relink(c, s, -1).ip = c.ip
<1> DEFINE i == Q[s]
           k == D[i].nlink - 1
<1>1. Book(c, D, t, Q, P, X) /\ Volume(D, t, X) /\ i \in Inodes
  BY InHas DEF In
<1>2. DirCount(D, t, i) \in Nat /\ D[i].nlink \in Nat /\ NameCount(t, i) \in Nat
  BY <1>1, CountsAreNat DEF Volume, Disks, Info
<1>3. k \in Nat /\ 2 + DirCount(D, t, i) <= k /\ 2 <= k /\ 1 <= k
  BY <1>2
<1>4. NameCount(t, i) + Spare(X, i) <= 1 /\ X \in SUBSET (Inodes \ {Root})
  BY <1>1 DEF Volume
<1>5. NameCount(t, i) + Spare(X, i) <= k
  <2>1. Spare(X, i) \in Nat
    BY DEF Spare
  <2> HIDE DEF i, k
  <2> QED
    BY <1>2, <1>3, <1>4, <2>1
<1>6. Volume(Recount(D, i, k), t, X)
  <2> HIDE DEF k
  <2>1. Volume([D EXCEPT ![i].nlink = k], t, X)
    BY <1>1, <1>3, <1>4, <1>5, VolumeRecount
  <2> QED
    BY <2>1 DEF Recount
<1>7. -1 \in {-1, 1} /\ k = D[i].nlink + (-1)
  BY <1>2
<1>8. Book(Relink(c, s, -1), Recount(D, i, k), t, Q, P, X) /\ Relink(c, s, -1).ip = c.ip
  <2> HIDE DEF k
  <2> QED
    BY <1>1, <1>3, <1>6, <1>7, RelinkBook
<1> QED
  BY <1>8 DEF In

(* An inode that ialloc returned gets its first links. *)
LEMMA InFirst ==
    ASSUME NEW c, NEW D, NEW t, NEW Q, NEW P, NEW X, In(c, D, t, Q, P, X),
           NEW s \in Slots, P[s] >= 1, NEW i, i = Q[s], c.slot[s].mode = D[i].mode, D[i].mode # "free",
           NameCount(t, i) = 0, t[i] = NoNames, i # Root, NEW k \in Nat \ {0}, D[i].mode = "dir" => 2 <= k
    PROVE  LET r == Iupdate([c EXCEPT !.slot[s].nlink = k], s)
           IN  In(r, Recount(D, i, k), t, Q, P, X \union {i}) /\ r.ip = c.ip
<1>1. Book(c, D, t, Q, P, X) /\ Volume(D, t, X) /\ i \in Inodes
  BY InHas DEF In
<1>2. Volume(Recount(D, i, k), t, X \union {i})
  BY <1>1, VolumeFirst
<1>3. Alive(t, X \union {i}) \subseteq Alive(t, X) \union {i}
  BY DEF Alive
<1> DEFINE r == Iupdate([c EXCEPT !.slot[s].nlink = k], s)
<1>4. Book(r, Recount(D, i, k), t, Q, P, X \union {i}) /\ r.ip = c.ip
  <2> DEFINE X2 == X \union {i}
  <2>1. /\ Volume([D EXCEPT ![Q[s]].nlink = k], t, X2) /\ Alive(t, X2) \subseteq Alive(t, X) \union {Q[s]}
        /\ Recount(D, i, k) = [D EXCEPT ![Q[s]].nlink = k]
    BY <1>2, <1>3 DEF Recount
  <2>2. k \in Nat /\ c.slot[s].mode = D[Q[s]].mode
    OBVIOUS
  <2> HIDE DEF X2, r
  <2>3. Book(r, [D EXCEPT ![Q[s]].nlink = k], t, Q, P, X2) /\ r.ip = c.ip
    BY <1>1, <2>1, <2>2, BookCount DEF r
  <2> QED
    BY <2>1, <2>3 DEF X2
<1> QED
  BY <1>4 DEF In

(* A recount leaves the modes and the other inodes alone.                  *)
LEMMA RecountIs ==
    ASSUME NEW D \in Disks, NEW i \in Inodes, NEW k \in Nat
    PROVE  /\ Recount(D, i, k) \in Disks /\ Recount(D, i, k)[i].nlink = k
           /\ \A j \in Inodes : Recount(D, i, k)[j].mode = D[j].mode
           /\ \A j \in Inodes \ {i} : Recount(D, i, k)[j] = D[j]
BY DEF Recount, Disks, Info

(* The parent of an absolute path, and the last component.                 *)
LEMMA ParentAt ==
    ASSUME NEW path \in PathSet, path.abs
    PROVE  /\ Parent(path) \in PathSet /\ Parent(path).abs
           /\ path.at # <<>> =>
                 /\ Len(path.at) \in Nat \ {0} /\ Len(Parent(path).at) = Len(path.at) - 1
                 /\ \A j \in 1..Len(Parent(path).at) : Parent(path).at[j] = path.at[j]
                 /\ Base(path) = path.at[Len(path.at)] /\ Base(path) \in Names
<1>1. Parent(path) \in PathSet
  BY ParentType
<1> DEFINE q == path.at
           m == Len(q)
<1>2. q \in Seq(Names) /\ m \in Nat /\ path.abs \in BOOLEAN
  BY DEF PathSet
<1>3. CASE m <= 1
  <2>1. Parent(path) = [abs |-> TRUE, at |-> <<>>]
    BY <1>3 DEF Parent
  <2>2. q # <<>> => m = 1 /\ Base(path) = q[1] /\ q[1] \in Names
    <3>1. q # <<>> => m # 0
      BY <1>2
    <3>2. q # <<>> => m = 1
      <4>1. m \in Nat /\ m <= 1 /\ (q # <<>> => m # 0)
        BY <1>2, <1>3, <3>1
      <4> HIDE DEF m
      <4> QED
        BY <4>1
    <3>3. m = 1 => q[1] \in Names
      BY <1>2
    <3>4. Base(path) = q[m]
      BY DEF Base, Last
    <3> QED
      BY <3>2, <3>3, <3>4
  <2> QED
    BY <1>1, <2>1, <2>2
<1>4. CASE ~(m <= 1)
  <2>1. Parent(path) = [path EXCEPT !.at = Front(q)]
    BY <1>4 DEF Parent
  <2>2. Parent(path).abs /\ Parent(path).at = Front(q)
    BY <2>1 DEF PathSet
  <2>3. Front(q) = [i \in 1..(m - 1) |-> q[i]]
    BY <1>2, <1>4 DEF Front
  <2>4. Len(Front(q)) = m - 1 /\ \A j \in 1..(m - 1) : Front(q)[j] = q[j]
    BY <1>2, <1>4, <2>3
  <2>5. Base(path) = q[m] /\ q[m] \in Names /\ m # 0
    BY <1>2, <1>4 DEF Base, Last
  <2> QED
    BY <1>1, <1>2, <2>2, <2>4, <2>5
<1> QED
  BY <1>3, <1>4

(* Two paths, one of them without the last name of the other, and what they*)
(* lead to.                                                                *)
Precedes(t, a, b, m, l, i, d) ==
    /\ m \in Nat \ {0} /\ l \in Nat /\ l = m - 1 /\ \A j \in 1..l : b[j] = a[j]
    /\ Leads(t, a, m, i) /\ Leads(t, b, l, d)

(* The last name is in between.                                            *)
LEMMA LastName ==
    ASSUME NEW t, NEW a, NEW b, NEW m, NEW l, NEW i, NEW d, Precedes(t, a, b, m, l, i, d)
    PROVE  t[d][a[m]] = i
<1>1. /\ m \in Nat \ {0} /\ l \in Nat /\ l = m - 1 /\ \A j \in 1..l : b[j] = a[j]
      /\ Leads(t, a, m, i) /\ Leads(t, b, l, d)
  BY DEF Precedes
<1>2. PICK e \in Inodes : Leads(t, a, l, e) /\ t[e][a[m]] = i
  BY <1>1, LeadsFrom, SMT
<1>3. e = d
  BY <1>1, <1>2, LeadsOnce
<1> QED
  BY <1>2, <1>3

(* So for a path and its parent.                                           *)
LEMMA ParentLeads ==
    ASSUME NEW path \in PathSet, path.abs, path.at # <<>>, NEW t, NEW i, NEW d,
           Leads(t, path.at, Len(path.at), i),
           Leads(t, Parent(path).at, Len(Parent(path).at), d)
    PROVE  t[d][Base(path)] = i
<1> DEFINE m == Len(path.at)
           l == Len(Parent(path).at)
           a == path.at
           b == Parent(path).at
<1>1. m \in Nat \ {0} /\ l = m - 1 /\ (\A j \in 1..l : b[j] = a[j]) /\ Base(path) = a[m]
  BY ParentAt
<1>2. Leads(t, a, m, i) /\ Leads(t, b, l, d)
  OBVIOUS
<1> HIDE DEF m, l, a, b
<1>3. l \in Nat
  BY <1>1
<1>4. Precedes(t, a, b, m, l, i, d)
  BY <1>1, <1>2, <1>3 DEF Precedes
<1> QED
  BY <1>1, <1>4, LastName

-----------------------------------------------------------------------------
(* The calls, one by one: each is allowed by FileRules and leaves the books*)
(* in order. Every path is absolute.                                       *)
Absolute == \A p \in Paths : p.abs

(* What is known of a path of a call.                                      *)
LEMMA PathFacts ==
    ASSUME Absolute, NEW p \in Paths
    PROVE  /\ p \in PathSet /\ p.abs /\ Parent(p) \in PathSet /\ Parent(p).abs
           /\ p \in Named => p.at # <<>> /\ Base(p) \in Names
<1>1. p \in PathSet /\ p.abs
  BY PathType DEF Absolute
<1> QED
  BY <1>1, ParentAt DEF Named

(* What is known of a slot that was returned.                              *)
LEMMA TakenHas ==
    ASSUME NEW r, NEW D, NEW t, NEW Q, NEW P, NEW X, NEW R, NEW i, Over(P), Taken(r, D, t, Q, P, X, R, i),
           NEW s, s = r.ip
    PROVE  /\ s \in Slots /\ s # Null /\ i \in Inodes /\ i # 0 /\ R[s] = i
           /\ In(r, D, t, R, Plus(P, s), X) /\ Over(Plus(P, s)) /\ Plus(P, s)[s] >= 1
           /\ \A u \in Slots : P[u] >= 1 => R[u] = Q[u] /\ Plus(P, s)[u] >= 1
<1>1. s \in Slots /\ i \in Inodes /\ R[s] = i /\ In(r, D, t, R, Plus(P, s), X) /\ Agree(Q, R, P)
  BY DEF Taken
<1>2. s # Null /\ i # 0
  BY <1>1, CacheAssumption DEF Slots, Inodes
<1>3. Over(Plus(P, s)) /\ Plus(P, s)[s] >= 1 /\ \A u \in Slots : P[u] >= 1 => Plus(P, s)[u] >= 1
  BY <1>1, OverPlus
<1>4. ASSUME NEW u \in Slots, P[u] >= 1 PROVE R[u] = Q[u]
  <2>1. P[u] > 0
    BY <1>4 DEF Over, Counts
  <2> QED
    BY <1>1, <2>1 DEF Agree
<1> QED
  BY <1>1, <1>2, <1>3, <1>4

(* The inode that was taken is released, or nothing was taken.             *)
LEMMA TakenPut ==
    ASSUME NEW r, NEW D, NEW t, NEW Q, NEW P, NEW X, Over(P), NEW R, NEW i, Taken(r, D, t, Q, P, X, R, i)
    PROVE  In(Iput(r, r.ip), D, t, R, P, X)
<1>1. r.ip \in Slots /\ In(r, D, t, R, Plus(P, r.ip), X)
  BY TakenHas
<1> QED
  BY <1>1, InPut

(* stat.                                                                   *)
LEMMA StatAllowed ==
    ASSUME FsInv, Absolute, NEW path \in Paths, Stat(path)
    PROVE  Allowed
<1> DEFINE D == fs.disk
           t == fs.dirs
           n == Namei(fs, path, cwd)
           res == IF n.ip = Null THEN n ELSE Iput(n, n.ip)
<1>1. Finish([op |-> "stat", new |-> path], res)
  BY DEF Stat
<1>2. In(fs, D, t, O0, P0, {}) /\ Over(P0) /\ path \in PathSet /\ path.abs
  BY InStart, PathFacts
<1>3. \/ NotFound(n, D, t, O0, P0, {})
      \/ \E R, i : Taken(n, D, t, O0, P0, {}, R, i)
  BY <1>2, NameiFinds
<1> HIDE DEF D, n
<1>4. EndsFor(res)
  <2>1. CASE NotFound(n, D, t, O0, P0, {})
    BY <2>1, DoneEnds, SameNames DEF NotFound
  <2>2. ASSUME NEW R, NEW i, Taken(n, D, t, O0, P0, {}, R, i) PROVE EndsFor(res)
    <3>1. n.ip # Null /\ In(Iput(n, n.ip), D, t, R, P0, {})
      BY <1>2, <2>2, TakenHas, TakenPut
    <3>2. Done(Iput(n, n.ip), D, t, R, P0, {})
      BY <3>1 DEF Done
    <3> QED
      BY <3>1, <3>2, DoneEnds, SameNames
  <2> QED
    BY <1>3, <2>1, <2>2
<1> HIDE DEF res
<1> QED
  BY <1>1, <1>4, FinishAllowed

(* unlink.                                                                 *)
LEMMA UnlinkAllowed ==
    ASSUME FsInv, Absolute, NEW path \in Named, Unlink(path)
    PROVE  Allowed
<1> DEFINE D == fs.disk
           t == fs.dirs
           b == Base(path)
           d == Namei(fs, Parent(path), cwd)
           dir == d.ip
           i == Lookup(d, dir, b)
           n == Iget(d, i)
           ip == n.ip
           off == RemoveEntry(n, dir, b)
           gone == Iput(off, dir)
           less == Relink(gone, ip, -1)
           res == IF dir = Null THEN d
                  ELSE IF i = 0 THEN Iput(d, dir)
                  ELSE IF ip = Null THEN Iput(n, dir)
                  ELSE IF IsDir(n, ip) THEN IputAll(n, <<ip, dir>>)
                  ELSE Iput(less, ip)
<1>1. Finish([op |-> "unlink", new |-> path], res)
  BY DEF Unlink
<1>2. /\ In(fs, D, t, O0, P0, {}) /\ Over(P0) /\ b \in Names
      /\ Parent(path) \in PathSet /\ Parent(path).abs
  BY InStart, PathFacts, NamedType
<1>3. \/ NotFound(d, D, t, O0, P0, {})
      \/ \E R, j : Taken(d, D, t, O0, P0, {}, R, j) /\ j \in Alive(t, {}) /\ j \in Linked(t, {})
  BY <1>2, NameiFinds
<1> HIDE DEF D, d, b
<1>4. ASSUME NotFound(d, D, t, O0, P0, {}) PROVE EndsFor(res)
  <2>1. EndsFor(d)
    BY <1>4, DoneEnds, SameNames DEF NotFound
  <2>2. res = d
    BY <1>4 DEF NotFound
  <2> HIDE DEF res
  <2> QED
    BY <2>1, <2>2
<1>5. ASSUME NEW R, NEW j, Taken(d, D, t, O0, P0, {}, R, j), j \in Alive(t, {}), j \in Linked(t, {})
      PROVE  EndsFor(res)
  <2> DEFINE P1 == Plus(P0, dir)
  <2>1. /\ dir \in Slots /\ dir # Null /\ R[dir] = j /\ j \in Inodes
        /\ In(d, D, t, R, P1, {}) /\ Over(P1) /\ P1[dir] >= 1
    BY <1>2, <1>5, TakenHas
  <2>2. Volume(D, t, {}) /\ i = IF D[j].mode = "dir" THEN t[j][b] ELSE 0
    BY <1>5, <2>1, InHas
  <2> HIDE DEF dir, i
  <2>3. CASE i = 0
    <3>1. In(Iput(d, dir), D, t, R, P0, {})
      BY <1>2, <2>1, InPut
    <3>2. EndsFor(Iput(d, dir))
      BY <3>1, DoneEnds, SameNames DEF Done
    <3> QED
      BY <2>1, <2>3, <3>2
  <2>4. CASE i # 0
    <3>1. i \in Alive(t, {}) /\ t[j][b] = i
      BY <1>2, <2>1, <2>2, <2>4, NamedIsAlive
    <3>2. \/ NotFound(n, D, t, R, P1, {})
          \/ \E S : Taken(n, D, t, R, P1, {}, S, i)
      BY <2>1, <3>1, IgetFinds
    <3> HIDE DEF n
    <3>3. CASE NotFound(n, D, t, R, P1, {})
      <4>1. Done(Iput(n, dir), D, t, R, P0, {})
        BY <1>2, <2>1, <3>3, DonePut DEF NotFound
      <4>2. EndsFor(Iput(n, dir))
        BY <4>1, DoneEnds, SameNames
      <4>3. ip = Null
        BY <3>3 DEF NotFound
      <4> QED
        BY <2>1, <2>4, <4>2, <4>3
    <3>4. ASSUME NEW S, Taken(n, D, t, R, P1, {}, S, i) PROVE EndsFor(res)
      <4> DEFINE P2 == Plus(P1, ip)
      <4>1. /\ ip \in Slots /\ ip # Null /\ S[ip] = i /\ i \in Inodes
            /\ In(n, D, t, S, P2, {}) /\ Over(P2) /\ P2[ip] >= 1
            /\ S[dir] = j /\ P2[dir] >= 1
        BY <2>1, <3>4, TakenHas
      <4> HIDE DEF ip
      <4>2. CASE IsDir(n, ip)
        <5>1. In(Iput(n, ip), D, t, S, P1, {})
          BY <2>1, <4>1, InPut
        <5>2. In(Iput(Iput(n, ip), dir), D, t, S, P0, {})
          BY <1>2, <2>1, <5>1, InPut
        <5>3. EndsFor(IputAll(n, <<ip, dir>>))
          BY <5>2, IputAllTwo, DoneEnds, SameNames DEF Done
        <5> QED
          BY <2>1, <2>4, <4>1, <4>2, <5>3
      <4>3. CASE ~IsDir(n, ip)
        <5> DEFINE t2 == Entry(t, j, b, 0)
                   D2 == Recount(D, i, D[i].nlink - 1)
        <5>1. In(off, D, t2, S, P2, {i})
          <6> HIDE DEF P2
          <6>1. In(RemoveEntry(n, dir, b), D, Entry(t, S[dir], b, 0), S, P2, {} \union {i})
            BY <1>2, <2>1, <2>4, <3>1, <4>1, InClear
          <6> QED
            BY <4>1, <6>1
        <5> HIDE DEF off, t2
        <5>2. In(gone, D, t2, S, Plus(P0, ip), {i})
          BY <1>2, <2>1, <4>1, <5>1, InPutOther
        <5> HIDE DEF gone
        <5>3. In(less, D2, t2, S, Plus(P0, ip), {})
          <6> DEFINE P3 == Plus(P0, ip)
          <6>1. P3[ip] >= 1 /\ S[ip] \in {i}
            BY <1>2, <4>1, OverPlus
          <6> HIDE DEF P3, D2
          <6>2. In(Relink(gone, ip, -1), Recount(D, S[ip], D[S[ip]].nlink - 1), t2, S, P3, {i} \ {S[ip]})
            BY <4>1, <5>2, <6>1, InLower DEF P3
          <6>3. {i} \ {S[ip]} = {}
            BY <4>1
          <6> QED
            BY <4>1, <6>2, <6>3 DEF P3, D2
        <5> HIDE DEF less
        <5>4. In(Iput(less, ip), D2, t2, S, P0, {})
          BY <1>2, <4>1, <5>3, InPut
        <5>5. NamesStep(fs, t2)
          BY <1>2, <2>1, <2>4, <3>1 DEF NamesStep, Cleared, t2
        <5>6. EndsFor(Iput(less, ip))
          BY <5>4, <5>5, DoneEnds DEF Done
        <5> QED
          BY <2>1, <2>4, <4>1, <4>3, <5>6
      <4> QED
        BY <4>2, <4>3
    <3> QED
      BY <3>2, <3>3, <3>4
  <2> QED
    BY <2>3, <2>4
<1> HIDE DEF res
<1>6. EndsFor(res)
  BY <1>3, <1>4, <1>5
<1> QED
  BY <1>1, <1>6, FinishAllowed

(* The end of a call that holds the slot p, p and q, and so on.            *)
LEMMA PutOneEnds ==
    ASSUME FsInv, NEW p \in Slots, NEW c, NEW D, NEW t, NEW Q, Done(c, D, t, Q, Plus(P0, p), {}),
           NamesStep(fs, t)
    PROVE  EndsFor(Iput(c, p))
<1>1. Over(P0)
  BY InStart
<1>2. Done(Iput(c, p), D, t, Q, P0, {})
  BY <1>1, DonePut
<1> QED
  BY <1>2, DoneEnds

(* Two slots, in either order.                                             *)
LEMMA PutTwoEnds ==
    ASSUME FsInv, NEW p \in Slots, NEW q \in Slots, NEW c, NEW D, NEW t, NEW Q,
           Done(c, D, t, Q, Plus(Plus(P0, p), q), {}), NamesStep(fs, t)
    PROVE  EndsFor(IputAll(c, <<q, p>>)) /\ EndsFor(IputAll(c, <<p, q>>))
<1>1. Over(P0) /\ Over(Plus(P0, p)) /\ Over(Plus(P0, q)) /\ P0 \in Counts
  BY InStart, OverPlus DEF Over
<1>2. Done(Iput(c, q), D, t, Q, Plus(P0, p), {})
  BY <1>1, DonePut
<1>3. EndsFor(Iput(Iput(c, q), p))
  BY <1>2, PutOneEnds
<1>4. Plus(Plus(P0, p), q) = Plus(Plus(P0, q), p)
  BY <1>1, PlusMore
<1>5. Done(c, D, t, Q, Plus(Plus(P0, q), p), {})
  BY <1>4
<1>6. Done(Iput(c, p), D, t, Q, Plus(P0, q), {})
  BY <1>1, <1>5, DonePut
<1>7. EndsFor(Iput(Iput(c, p), q))
  BY <1>6, PutOneEnds
<1> QED
  BY <1>3, <1>7, IputAllTwo

(* Three slots, the last one first.                                        *)
LEMMA PutThreeEnds ==
    ASSUME FsInv, NEW p \in Slots, NEW q \in Slots, NEW r \in Slots, NEW c, NEW D, NEW t, NEW Q,
           Done(c, D, t, Q, Plus(Plus(Plus(P0, p), q), r), {}), NamesStep(fs, t)
    PROVE  EndsFor(IputAll(c, <<r, q, p>>))
<1>1. Over(Plus(Plus(P0, p), q))
  BY InStart, OverPlus
<1>2. Done(Iput(c, r), D, t, Q, Plus(Plus(P0, p), q), {})
  BY <1>1, DonePut
<1>3. EndsFor(IputAll(Iput(c, r), <<q, p>>))
  BY <1>2, PutTwoEnds
<1> QED
  BY <1>3, IputAllTwo, IputAllThree

(* Four.                                                                   *)
LEMMA PutFourEnds ==
    ASSUME FsInv, NEW p \in Slots, NEW q \in Slots, NEW r \in Slots, NEW u \in Slots,
           NEW c, NEW D, NEW t, NEW Q,
           Done(c, D, t, Q, Plus(Plus(Plus(Plus(P0, p), q), r), u), {}), NamesStep(fs, t)
    PROVE  EndsFor(IputAll(c, <<u, r, q, p>>))
<1>1. Over(Plus(Plus(Plus(P0, p), q), r))
  BY InStart, OverPlus
<1>2. Done(Iput(c, u), D, t, Q, Plus(Plus(Plus(P0, p), q), r), {})
  BY <1>1, DonePut
<1>3. EndsFor(IputAll(Iput(c, u), <<r, q, p>>))
  BY <1>2, PutThreeEnds
<1> QED
  BY <1>3, IputAllThree, IputAllFour

(* A directory whose last name is gone loses its own names and its links.  *)
LEMMA InGone ==
    ASSUME NEW c, NEW D, NEW t, NEW Q, NEW P, NEW X, In(c, D, t, Q, P, X),
           NEW s \in Slots, P[s] >= 1, NEW i, i = Q[s], i \in X, D[i].mode = "dir"
    PROVE  LET r == Iupdate([c EXCEPT !.dirs[i] = NoNames, !.slot[s].nlink = 0], s)
           IN  In(r, Recount(D, i, 0), [t EXCEPT ![i] = NoNames], Q, P, X \ {i}) /\ r.ip = c.ip
<1> DEFINE t2 == [t EXCEPT ![i] = NoNames]
           e == [c EXCEPT !.dirs[i] = NoNames]
           g == [e EXCEPT !.slot[s].nlink = 0]
           X2 == X \ {i}
<1>1. Book(c, D, t, Q, P, X) /\ Volume(D, t, X) /\ i \in Inodes /\ t \in Trees /\ c \in Layer
  BY InHas DEF In
<1>2. Book(e, D, t2, Q, P, X) /\ e.ip = c.ip
  BY <1>1, EmptyBook
<1>3. [c EXCEPT !.dirs[i] = NoNames, !.slot[s].nlink = 0] = g
  BY <1>1 DEF Layer
<1>4. t2[i] = NoNames
  BY <1>1 DEF Trees
<1> HIDE DEF t2, e
<1>5. Volume(D, t2, X)
  BY <1>2, BookFields
<1>6. i # Root /\ NameCount(t2, i) = 0 /\ NamesIn(t2, i) = {} /\ D[i].mode # "free" /\ X2 \in SUBSET (Inodes \ {Root})
  <2>1. NameCount(t2, i) + Spare(X, i) <= 1 /\ i # Root /\ X2 \in SUBSET (Inodes \ {Root})
    BY <1>1, <1>5 DEF Volume
  <2>2. Spare(X, i) = 1 /\ NameCount(t2, i) \in Nat /\ (NameCount(t2, i) = 0 <=> NamesIn(t2, i) = {})
    BY CountsAreNat DEF Spare
  <2>3. NameCount(t2, i) = 0
    BY <2>1, <2>2
  <2> QED
    BY <2>1, <2>2, <2>3
<1>7. /\ \A j \in Inodes \ {i} : j \in X2 <=> j \in X
      /\ i \notin X2 /\ i \notin Linked(t2, X2) /\ Spare(X2, i) = 0
      /\ Alive(t2, X2) \subseteq Alive(t2, X) \union {i}
  BY <1>6 DEF Linked, Spare, Alive
<1> HIDE DEF X2
<1>8. Volume([D EXCEPT ![i].nlink = 0], t2, X2)
  <2>1. NameCount(t2, i) + Spare(X2, i) <= 0 /\ NameCount(t2, i) + Spare(X2, i) <= 1 /\ 0 \in Nat
    BY <1>6, <1>7
  <2> QED
    BY <1>1, <1>4, <1>5, <1>6, <1>7, <2>1, VolumeRecount
<1>9. e.slot[s].mode = D[Q[s]].mode
  <2>1. i \in Alive(t2, X)
    BY <1>1 DEF Alive
  <2> QED
    BY <1>2, <2>1, PinInfo
<1> DEFINE r == Iupdate(g, s)
<1>10. Book(r, [D EXCEPT ![i].nlink = 0], t2, Q, P, X2) /\ r.ip = e.ip
  <2>1. Volume([D EXCEPT ![Q[s]].nlink = 0], t2, X2) /\ Alive(t2, X2) \subseteq Alive(t2, X) \union {Q[s]} /\ 0 \in Nat
    BY <1>7, <1>8
  <2> HIDE DEF r
  <2>2. Book(r, [D EXCEPT ![Q[s]].nlink = 0], t2, Q, P, X2) /\ r.ip = e.ip
    BY <1>2, <1>9, <2>1, BookCount DEF r
  <2> QED
    BY <2>2
<1> QED
  BY <1>2, <1>3, <1>10 DEF In, Recount, t2, X2

(* Locks are not in the books.                                             *)
LEMMA InUnlock ==
    ASSUME NEW c, NEW D, NEW t, NEW Q, NEW P, NEW X, In(c, D, t, Q, P, X), NEW s \in Slots
    PROVE  In(Unlock(c, s), D, t, Q, P, X) /\ Unlock(c, s).ip = c.ip
BY UnlockBook DEF In

(* A name is gone; what has not lost one is alive and linked as before.    *)
LEMMA ClearedNames ==
    ASSUME NEW D, NEW t, NEW X, Volume(D, t, X), NEW d \in Inodes, NEW n \in Names, NEW i, i # 0,
           t[d][n] = i, NEW X2
    PROVE  /\ \A j \in Inodes \ {i} : NamesIn(Entry(t, d, n, 0), j) = NamesIn(t, j)
           /\ \A j \in Inodes \ {i} : j \in Linked(t, {}) => j \in Linked(Entry(t, d, n, 0), X2)
           /\ \A j \in Inodes \ {i} : j \in Linked(t, {}) => j \in Alive(Entry(t, d, n, 0), X2)
<1>1. i \in Inodes /\ t \in Trees
  BY NamedIsAlive DEF Volume
<1>2. Entered(Entry(t, d, n, 0), t, d, n, i)
  BY <1>1, ClearedEntered DEF Entry
<1>3. \A j \in Inodes \ {i} : NamesIn(Entry(t, d, n, 0), j) = NamesIn(t, j)
  BY <1>2, EnteredNames
<1> QED
  BY <1>3 DEF Linked, Alive

(* A directory that has two links at most has no subdirectory; its parent  *)
(* is another one.                                                         *)
LEMMA TwoLinks ==
    ASSUME NEW D, NEW t, NEW X, Volume(D, t, X), NEW i \in Linked(t, X), D[i].mode = "dir",
           D[i].nlink <= 2, NEW j \in Inodes, NEW n \in Names, t[j][n] = i
    PROVE  i # j
<1>1. 2 + DirCount(D, t, i) <= D[i].nlink /\ i \in Inodes /\ D[i].nlink \in Nat
  BY DEF Volume, Linked, Disks, Info
<1>2. DirCount(D, t, i) \in Nat /\ (DirCount(D, t, i) = 0 <=> DirsIn(D, t, i) = {})
  BY CountsAreNat
<1>3. DirCount(D, t, i) = 0
  BY <1>1, <1>2
<1>4. DirsIn(D, t, i) = {} /\ i # 0
  BY <1>1, <1>2, <1>3, CacheAssumption DEF Inodes
<1> QED
  BY <1>4 DEF DirsIn

(* A name is cleared, and the directory it led to emptied.                 *)
LEMMA PurgedIs ==
    ASSUME NEW t \in Trees, NEW j \in Inodes, NEW n \in Names, NEW i \in Inodes, i # j, t[j][n] = i
    PROVE  Purged(t, [Entry(t, j, n, 0) EXCEPT ![i] = NoNames])
<1> DEFINE u == [Entry(t, j, n, 0) EXCEPT ![i] = NoNames]
           v == [t EXCEPT ![t[j][n]] = NoNames, ![j][n] = 0]
<1>1. u = v
  BY DEF Trees, Entry
<1>2. i # 0
  BY CacheAssumption DEF Inodes
<1> QED
  BY <1>1, <1>2 DEF Purged

(* rmdir.                                                                  *)
LEMMA RmdirAllowed ==
    ASSUME FsInv, Absolute, NEW path \in Named, Rmdir(path)
    PROVE  Allowed
<1> DEFINE D == fs.disk
           t == fs.dirs
           b == Base(path)
           n == Namei(fs, path, cwd)
           ip == n.ip
           d == Namei(n, Parent(path), cwd)
           dir == d.ip
           cut == RemoveEntry(d, dir, b)
           off == Relink(cut, dir, -1)
           dead == Iupdate([off EXCEPT !.dirs[Ino(d, ip)] = NoNames, !.slot[ip].nlink = 0], ip)
           out == Unlock(dead, ip)
           res == IF ip = Null THEN n
                  ELSE IF ~IsDir(n, ip) \/ n.slot[ip].nlink > 2 THEN Iput(n, ip)
                  ELSE IF dir = Null THEN Iput(d, ip)
                  ELSE IF Lookup(d, dir, b) = 0 THEN IputAll(d, <<dir, ip>>)
                  ELSE IputAll(out, <<dir, ip>>)
<1>1. Finish([op |-> "rmdir", new |-> path], res)
  BY DEF Rmdir
<1>2. /\ In(fs, D, t, O0, P0, {}) /\ Over(P0) /\ b \in Names
      /\ path \in PathSet /\ path.abs /\ path.at # <<>>
      /\ Parent(path) \in PathSet /\ Parent(path).abs
  BY InStart, PathFacts, NamedType
<1>3. \/ NotFound(n, D, t, O0, P0, {})
      \/ \E R, i : /\ Taken(n, D, t, O0, P0, {}, R, i) /\ i \in Alive(t, {}) /\ i \in Linked(t, {})
                   /\ Leads(t, path.at, Len(path.at), i)
  BY <1>2, NameiFinds
<1> HIDE DEF D, b, n
<1>4. ASSUME NotFound(n, D, t, O0, P0, {}) PROVE EndsFor(res)
  BY <1>4, DoneEnds, SameNames DEF NotFound
<1>5. ASSUME NEW R, NEW i, Taken(n, D, t, O0, P0, {}, R, i), i \in Alive(t, {}), i \in Linked(t, {}),
             Leads(t, path.at, Len(path.at), i)
      PROVE  EndsFor(res)
  <2> DEFINE P1 == Plus(P0, ip)
  <2>1. /\ ip \in Slots /\ ip # Null /\ R[ip] = i /\ i \in Inodes /\ i # 0
        /\ In(n, D, t, R, P1, {}) /\ Over(P1) /\ P1[ip] >= 1
    BY <1>2, <1>5, TakenHas
  <2> HIDE DEF ip
  <2>2. CASE ~IsDir(n, ip) \/ n.slot[ip].nlink > 2
    <3>1. EndsFor(Iput(n, ip))
      BY <2>1, PutOneEnds, SameNames DEF Done
    <3> QED
      BY <2>1, <2>2, <3>1
  <2>3. CASE ~(~IsDir(n, ip) \/ n.slot[ip].nlink > 2)
    <3>1. /\ Volume(D, t, {}) /\ t \in Trees /\ D[i].mode = "dir" /\ ~(D[i].nlink > 2)
          /\ D \in Disks
      <4> HIDE DEF P1
      <4>1. /\ Volume(D, t, {}) /\ t \in Trees /\ D \in Disks
            /\ R[ip] \in Alive(t, {}) => /\ n.slot[ip].nlink = D[R[ip]].nlink
                                          /\ IsDir(n, ip) = (D[R[ip]].mode = "dir")
        BY ONLY <2>1, InHas
      <4> QED
        BY <1>5, <2>1, <2>3, <4>1
    <3>2. D[i].nlink <= 2
      BY <2>1, <3>1 DEF Disks, Info
    <3>3. \/ NotFound(d, D, t, R, P1, {})
          \/ \E S, j : /\ Taken(d, D, t, R, P1, {}, S, j) /\ j \in Alive(t, {}) /\ j \in Linked(t, {})
                       /\ Leads(t, Parent(path).at, Len(Parent(path).at), j)
      BY <1>2, <2>1, NameiFinds
    <3> HIDE DEF d
    <3>4. ASSUME NotFound(d, D, t, R, P1, {}) PROVE EndsFor(res)
      <4>1. EndsFor(Iput(d, ip))
        BY <2>1, <3>4, PutOneEnds, SameNames DEF NotFound
      <4> QED
        BY <2>1, <2>3, <3>4, <4>1 DEF NotFound
    <3>5. ASSUME NEW S, NEW j, Taken(d, D, t, R, P1, {}, S, j), j \in Alive(t, {}), j \in Linked(t, {}),
                 Leads(t, Parent(path).at, Len(Parent(path).at), j)
          PROVE  EndsFor(res)
      <4> DEFINE P2 == Plus(P1, dir)
      <4>1. /\ dir \in Slots /\ dir # Null /\ S[dir] = j /\ j \in Inodes /\ S[ip] = i
            /\ In(d, D, t, S, P2, {}) /\ Over(P2) /\ P2[dir] >= 1 /\ P2[ip] >= 1
        BY <2>1, <3>5, TakenHas
      <4> HIDE DEF dir
      <4>2. CASE Lookup(d, dir, b) = 0
        <5>1. EndsFor(IputAll(d, <<dir, ip>>))
          BY <2>1, <4>1, PutTwoEnds, SameNames DEF Done
        <5> QED
          BY <2>1, <2>3, <4>1, <4>2, <5>1
      <4>3. CASE Lookup(d, dir, b) # 0
        <5>1. D[j].mode = "dir"
          BY <3>5, <4>1, <4>3, InHas
        <5>2. t[j][b] = i
          BY <1>2, <1>5, <3>5, ParentLeads DEF b
        <5>3. i # j
          BY <1>2, <1>5, <3>1, <3>2, <4>1, <5>2, TwoLinks
        <5> DEFINE t2 == Entry(t, j, b, 0)
                   t3 == [t2 EXCEPT ![i] = NoNames]
                   D2 == Recount(D, j, D[j].nlink - 1)
        <5>4. /\ In(cut, D, t2, S, P2, {i})
              /\ 3 + DirCount(D, t2, j) <= D[j].nlink
          <6> HIDE DEF P2
          <6>1. t[S[dir]][b] = i /\ i \notin {} /\ D[i].mode = "dir" /\ S[dir] \in Linked(t, {})
            BY <3>1, <3>5, <4>1, <5>2
          <6>2. /\ In(RemoveEntry(d, dir, b), D, Entry(t, S[dir], b, 0), S, P2, {} \union {i})
                /\ 3 + DirCount(D, Entry(t, S[dir], b, 0), S[dir]) <= D[S[dir]].nlink
            BY <1>2, <2>1, <4>1, <6>1, InClear
          <6> QED
            BY <4>1, <6>2
        <5>5. j \in Alive(t2, {i})
          BY <1>2, <2>1, <3>1, <3>5, <4>1, <5>2, <5>3, ClearedNames
        <5>6. NamesStep(fs, t3)
          BY <1>2, <2>1, <3>1, <4>1, <5>2, <5>3, PurgedIs DEF NamesStep
        <5> HIDE DEF cut, t2
        <5>7. In(off, D2, t2, S, P2, {i})
          <6> HIDE DEF P2
          <6>1. S[dir] \in Alive(t2, {i}) /\ D[S[dir]].mode = "dir" /\ 3 + DirCount(D, t2, S[dir]) <= D[S[dir]].nlink
            BY <4>1, <5>1, <5>4, <5>5
          <6>2. In(Relink(cut, dir, -1), Recount(D, S[dir], D[S[dir]].nlink - 1), t2, S, P2, {i})
            BY <4>1, <5>4, <6>1, InLess
          <6> QED
            BY <4>1, <6>2
        <5>8. D2[i].mode = "dir"
          <6>1. D[j].nlink - 1 \in Nat
            <7>1. D[j].nlink \in Nat /\ DirCount(D, t2, j) \in Nat
              BY <3>1, <4>1, CountsAreNat DEF Disks, Info
            <7> QED
              BY <5>4, <7>1
          <6> DEFINE k == D[j].nlink - 1
          <6> HIDE DEF k
          <6>2. k \in Nat
            BY <6>1 DEF k
          <6>3. Recount(D, j, k)[i].mode = D[i].mode
            <7>1. D \in Disks /\ i \in Inodes /\ j \in Inodes
              BY <2>1, <3>1, <4>1
            <7> QED
              BY <6>2, <7>1, RecountIs
          <6> QED
            BY <3>1, <6>3 DEF k
        <5> HIDE DEF off, D2
        <5>9. In(dead, Recount(D2, i, 0), t3, S, P2, {})
          <6> HIDE DEF P2
          <6>1. Ino(d, ip) = i
            BY <2>1, <4>1, InHas
          <6> DEFINE r == Iupdate([off EXCEPT !.dirs[i] = NoNames, !.slot[ip].nlink = 0], ip)
          <6>2. i \in {i} /\ {i} \ {i} = {}
            OBVIOUS
          <6>3. In(r, Recount(D2, i, 0), t3, S, P2, {i} \ {i})
            BY <2>1, <4>1, <5>7, <5>8, <6>2, InGone
          <6>4. dead = r
            BY <6>1
          <6> QED
            BY <6>2, <6>3, <6>4
        <5> HIDE DEF dead, t3
        <5>10. In(out, Recount(D2, i, 0), t3, S, P2, {})
          BY <2>1, <5>9, InUnlock
        <5> HIDE DEF out
        <5>11. EndsFor(IputAll(out, <<dir, ip>>))
          BY <2>1, <4>1, <5>6, <5>10, PutTwoEnds DEF Done
        <5> QED
          BY <2>1, <2>3, <4>1, <4>3, <5>11
      <4> QED
        BY <4>2, <4>3
    <3> HIDE DEF res
    <3> QED
      BY <3>3, <3>4, <3>5
  <2> QED
    BY <2>2, <2>3
<1> HIDE DEF res
<1>6. EndsFor(res)
  BY <1>3, <1>4, <1>5
<1> QED
  BY <1>1, <1>6, FinishAllowed

(* The undo of link: the count falls again.                                *)
LEMMA UndoneEnds ==
    ASSUME FsInv, NEW s \in Slots, NEW c, NEW D, NEW Q, NEW i, i = Q[s],
           Done(c, D, fs.dirs, Q, Plus(P0, s), {i})
    PROVE  EndsFor(Iput(Relink(c, s, -1), s))
<1> DEFINE P1 == Plus(P0, s)
           r == Relink(c, s, -1)
<1>1. Over(P1) /\ P1[s] >= 1
  BY InStart, OverPlus
<1>2. CASE c.spin # "no"
  <2>1. r = c
    BY <1>2 DEF Relink
  <2>2. Done(r, D, fs.dirs, Q, P1, {})
    BY <1>2, <2>1 DEF Done
  <2> HIDE DEF r
  <2>3. EndsFor(Iput(r, s))
    BY <2>2, PutOneEnds, SameNames
  <2> QED
    BY <2>3 DEF r
<1>3. CASE In(c, D, fs.dirs, Q, P1, {i})
  <2>1. i \in {i} /\ {i} \ {i} = {}
    OBVIOUS
  <2> DEFINE D2 == Recount(D, i, D[i].nlink - 1)
  <2>2. In(r, D2, fs.dirs, Q, P1, {i} \ {i})
    <3> HIDE DEF P1
    <3> QED
      BY <1>1, <1>3, <2>1, InLower
  <2>3. Done(r, D2, fs.dirs, Q, P1, {})
    BY <2>1, <2>2 DEF Done
  <2> HIDE DEF r, D2
  <2>4. EndsFor(Iput(r, s))
    BY <2>3, PutOneEnds, SameNames
  <2> QED
    BY <2>4 DEF r
<1> QED
  BY <1>2, <1>3 DEF Done

(* A file that can be reached has a name.                                  *)
LEMMA FileHasName ==
    ASSUME NEW D, NEW t, Volume(D, t, {}), NEW i \in Alive(t, {}), D[i].mode # "dir"
    PROVE  NamesIn(t, i) # {}
BY DEF Volume, Alive

(* link.                                                                   *)
LEMMA LinkAllowed ==
    ASSUME FsInv, Absolute, NEW old \in Named, NEW new \in Named, NEW room, Link(old, new, room)
    PROVE  Allowed
<1> DEFINE D == fs.disk
           t == fs.dirs
           b == Base(new)
           n == Namei(fs, old, cwd)
           ip == n.ip
           up == Relink(n, ip, 1)
           more == Unlock(up, ip)
           d == Namei(more, Parent(new), cwd)
           dir == d.ip
           on == AddEntry(d, dir, b, Ino(d, ip))
           res == IF ip = Null THEN n
                  ELSE IF IsDir(n, ip) THEN Iput(n, ip)
                  ELSE IF dir = Null THEN Iput(Relink(d, ip, -1), ip)
                  ELSE IF Lookup(d, dir, b) # 0 \/ ~CanAdd(d, dir, room)
                  THEN Iput(Relink(Iput(d, dir), ip, -1), ip)
                  ELSE IputAll(on, <<dir, ip>>)
<1>1. Finish([op |-> "link", old |-> old, new |-> new], res)
  BY DEF Link
<1>2. /\ In(fs, D, t, O0, P0, {}) /\ Over(P0) /\ b \in Names
      /\ old \in PathSet /\ old.abs
      /\ Parent(new) \in PathSet /\ Parent(new).abs
  BY InStart, PathFacts, NamedType
<1>3. \/ NotFound(n, D, t, O0, P0, {})
      \/ \E R, i : Taken(n, D, t, O0, P0, {}, R, i) /\ i \in Alive(t, {})
  BY <1>2, NameiFinds
<1> HIDE DEF D, b, n
<1>4. ASSUME NotFound(n, D, t, O0, P0, {}) PROVE EndsFor(res)
  BY <1>4, DoneEnds, SameNames DEF NotFound
<1>5. ASSUME NEW R, NEW i, Taken(n, D, t, O0, P0, {}, R, i), i \in Alive(t, {})
      PROVE  EndsFor(res)
  <2> DEFINE P1 == Plus(P0, ip)
             D1 == Recount(D, i, D[i].nlink + 1)
  <2>1. /\ ip \in Slots /\ ip # Null /\ R[ip] = i /\ i \in Inodes /\ i # 0
        /\ In(n, D, t, R, P1, {}) /\ Over(P1) /\ P1[ip] >= 1
    BY <1>2, <1>5, TakenHas
  <2> HIDE DEF ip
  <2>2. CASE IsDir(n, ip)
    <3>1. EndsFor(Iput(n, ip))
      BY <2>1, PutOneEnds, SameNames DEF Done
    <3> QED
      BY <2>1, <2>2, <3>1
  <2>3. CASE ~IsDir(n, ip)
    <3>1. /\ Volume(D, t, {}) /\ t \in Trees /\ D[i].mode # "dir" /\ D \in Disks
      <4> HIDE DEF P1
      <4>1. /\ Volume(D, t, {}) /\ t \in Trees /\ D \in Disks
            /\ R[ip] \in Alive(t, {}) => IsDir(n, ip) = (D[R[ip]].mode = "dir")
        BY ONLY <2>1, InHas
      <4> QED
        BY <1>5, <2>1, <2>3, <4>1
    <3>2. NamesIn(t, i) # {}
      BY <1>5, <3>1, FileHasName
    <3>3. In(up, D1, t, R, P1, {i})
      <4> HIDE DEF P1
      <4>1. R[ip] \notin {} /\ R[ip] \in Alive(t, {}) /\ D[R[ip]].mode # "dir"
        BY <1>5, <2>1, <3>1
      <4>2. In(up, Recount(D, R[ip], D[R[ip]].nlink + 1), t, R, P1, {} \union {R[ip]})
        BY <2>1, <4>1, InRaise
      <4> QED
        BY <2>1, <4>2
    <3>4. D1[i].mode # "dir"
      <4> DEFINE k == D[i].nlink + 1
      <4>1. k \in Nat
        BY <2>1, <3>1 DEF Disks, Info
      <4> HIDE DEF k
      <4>2. Recount(D, i, k)[i].mode = D[i].mode
        BY <2>1, <3>1, <4>1, RecountIs
      <4> QED
        BY <3>1, <4>2 DEF k
    <3> HIDE DEF up, D1
    <3>5. In(more, D1, t, R, P1, {i})
      BY <2>1, <3>3, InUnlock
    <3> HIDE DEF more
    <3>6. \/ NotFound(d, D1, t, R, P1, {i})
          \/ \E S, j : Taken(d, D1, t, R, P1, {i}, S, j) /\ j \in Alive(t, {i})
      BY <1>2, <3>5, NameiFinds
    <3> HIDE DEF d
    <3>7. ASSUME NotFound(d, D1, t, R, P1, {i}) PROVE EndsFor(res)
      <4>1. EndsFor(Iput(Relink(d, ip, -1), ip))
        BY <2>1, <3>7, UndoneEnds DEF NotFound
      <4> QED
        BY <2>1, <2>3, <3>7, <4>1 DEF NotFound
    <3>8. ASSUME NEW S, NEW j, Taken(d, D1, t, R, P1, {i}, S, j), j \in Alive(t, {i})
          PROVE  EndsFor(res)
      <4> DEFINE P2 == Plus(P1, dir)
      <4>1. /\ dir \in Slots /\ dir # Null /\ S[dir] = j /\ j \in Inodes /\ S[ip] = i
            /\ In(d, D1, t, S, P2, {i}) /\ Over(P2) /\ P2[dir] >= 1 /\ P2[ip] >= 1
        BY <2>1, <3>8, TakenHas
      <4> HIDE DEF dir
      <4>2. CASE Lookup(d, dir, b) # 0 \/ ~CanAdd(d, dir, room)
        <5>1. In(Iput(d, dir), D1, t, S, P1, {i})
          BY <2>1, <4>1, InPut
        <5>2. EndsFor(Iput(Relink(Iput(d, dir), ip, -1), ip))
          BY <2>1, <4>1, <5>1, UndoneEnds DEF Done
        <5> QED
          BY <2>1, <2>3, <4>1, <4>2, <5>2
      <4>3. CASE ~(Lookup(d, dir, b) # 0 \/ ~CanAdd(d, dir, room))
        <5>1. D1[j].mode = "dir" /\ t[j][b] = 0 /\ Ino(d, ip) = i
          <6> HIDE DEF P2
          <6>1. /\ Ino(d, ip) = S[ip]
                /\ S[dir] \in Alive(t, {i}) =>
                      /\ IsDir(d, dir) = (D1[S[dir]].mode = "dir")
                      /\ \A m : Lookup(d, dir, m) = IF D1[S[dir]].mode = "dir" THEN t[S[dir]][m] ELSE 0
            BY ONLY <2>1, <4>1, InHas
          <6> QED
            BY <3>8, <4>1, <4>3, <6>1 DEF CanAdd
        <5> DEFINE t2 == Entry(t, j, b, i)
        <5>2. In(on, D1, t2, S, P2, {})
          <6> HIDE DEF P2
          <6>1. S[dir] \in Alive(t, {i}) /\ D1[S[dir]].mode = "dir" /\ t[S[dir]][b] = 0 /\ i \in {i}
            BY <3>8, <4>1, <5>1
          <6>2. In(AddEntry(d, dir, b, i), D1, Entry(t, S[dir], b, i), S, P2, {i} \ {i})
            BY <1>2, <3>4, <4>1, <6>1, InEnter
          <6>3. {i} \ {i} = {}
            OBVIOUS
          <6> QED
            BY <4>1, <5>1, <6>2, <6>3
        <5>3. NamesStep(fs, t2)
          BY <1>2, <2>1, <3>2, <4>1, <5>1 DEF NamesStep, NameAdded
        <5> HIDE DEF on, t2
        <5>4. EndsFor(IputAll(on, <<dir, ip>>))
          BY <2>1, <4>1, <5>2, <5>3, PutTwoEnds DEF Done
        <5> QED
          BY <2>1, <2>3, <4>1, <4>3, <5>4
      <4> QED
        BY <4>2, <4>3
    <3> HIDE DEF res
    <3> QED
      BY <3>6, <3>7, <3>8
  <2> QED
    BY <2>2, <2>3
<1> HIDE DEF res
<1>6. EndsFor(res)
  BY <1>3, <1>4, <1>5
<1> QED
  BY <1>1, <1>6, FinishAllowed

(* A layer that is stuck stays so.                                         *)
LEMMA NameiStuck ==
    ASSUME NEW L, NEW c, Good(c, {}, L), c.spin # "no", NEW path \in PathSet, path.abs, NEW w
    PROVE  Namei(c, path, w).ip = Null /\ Namei(c, path, w).spin # "no"
<1> DEFINE m == Len(path.at)
           Lost0 == {d \in Layer : d.ip = Null /\ d.spin # "no"}
<1>1. c \in Layer /\ m \in Nat
  BY LenProperties DEF Good, PathSet
<1>2. PICK F : WalkOf(c, path, w, F)
  <2>1. CanStart(path, w, {})
    BY DEF CanStart
  <2> QED
    BY <2>1, NameiWalk
<1> DEFINE I == [k \in 0..m |-> Lost0]
<1>3. F[0] \in I[0]
  <2>1. F[0] = [c EXCEPT !.ip = Null]
    BY <1>2 DEF WalkOf, Start, Iget
  <2>2. F[0] \in Lost0
    BY <1>1, <2>1 DEF Layer
  <2> QED
    BY <1>1, <2>2
<1>4. ASSUME NEW k \in 1..m, F[k - 1] \in I[k - 1] PROVE F[k] \in I[k]
  <2>1. k - 1 \in 0..m /\ k \in 0..m
    BY <1>1
  <2>2. F[k - 1] \in Lost0
    BY <1>4, <2>1
  <2>3. F[k] = WalkStep(F[k - 1], path.at[k])
    BY <1>2 DEF WalkOf
  <2>4. F[k] = F[k - 1]
    BY <2>2, <2>3 DEF WalkStep
  <2> QED
    BY <2>1, <2>2, <2>4
<1> HIDE DEF I
<1>5. F[m] \in I[m]
  <2> HIDE DEF m
  <2>1. \A k \in 0..m : F[k] \in I[k]
    BY <1>1, <1>3, <1>4, LoopUpTo
  <2> QED
    BY <1>1, <2>1
<1>6. F[m] \in Lost0
  BY <1>1, <1>5 DEF I
<1> QED
  BY <1>2, <1>6 DEF WalkOf

(* A root that could not be fetched cannot be fetched from there.          *)
LEMMA RootAgain ==
    ASSUME NEW L, NEW c, Good(c, {}, L), c.spin = "no", NEW path \in PathSet, path.abs, path.at = <<>>, NEW w,
           NEW n, n = Namei(c, path, w), n.ip = Null, Good(n, {}, L)
    PROVE  Namei(n, Parent(path), w).ip = Null
<1>1. ASSUME NEW e, Good(e, {}, L), NEW p \in PathSet, p.abs, p.at = <<>>
      PROVE  Namei(e, p, w) = Iget(e, Root)
  <2>1. CanStart(p, w, {})
    BY <1>1 DEF CanStart
  <2>2. PICK F : WalkOf(e, p, w, F)
    BY <1>1, <2>1, NameiWalk
  <2>3. Len(p.at) = 0
    BY <1>1
  <2>4. Namei(e, p, w) = F[Len(p.at)] /\ F[0] = Iget(e, Root)
    BY <1>1, <2>2 DEF WalkOf, Start
  <2> QED
    BY <2>3, <2>4
<1>2. n = Iget(c, Root)
  BY <1>1
<1>3. Parent(path) \in PathSet /\ Parent(path).abs /\ Parent(path).at = <<>>
  <2>1. Len(path.at) <= 1
    OBVIOUS
  <2> QED
    BY <2>1, ParentAt DEF Parent
<1>4. Namei(n, Parent(path), w) = Iget(n, Root)
  BY <1>1, <1>3
<1>5. Iget(n, Root).ip = Null
  <2>1. c \in Layer /\ n \in Layer /\ Null \notin Slots
    BY CacheAssumption DEF Good, Slots
  <2>2. CASE n.spin # "no"
    BY <2>1, <2>2 DEF Iget, Layer
  <2>3. CASE n.spin = "no"
    <3>1. ASSUME NEW s \in Slots, n = Spun(c, "iget") PROVE FALSE
      BY <2>1, <2>3, <3>1 DEF Spun, Layer
    <3>2. ASSUME NEW s \in Slots, n = Hit(c, s) PROVE FALSE
      <4>1. n.ip = s
        BY <2>1, <3>2 DEF Hit, Layer
      <4> QED
        BY <2>1, <4>1
    <3>3. ASSUME c.list # <<>>, n = Loaded(c, Head(c.list), Root) PROVE FALSE
      <4>1. Head(c.list) \in Slots
        BY <2>1, <3>3 DEF Layer
      <4>2. n.ip = Head(c.list)
        BY <2>1, <3>3 DEF Loaded, Layer
      <4> QED
        BY <2>1, <4>1, <4>2
    <3>4. (\A s \in Slots : Ino(c, s) # Root) /\ c.list = <<>> /\ n = [c EXCEPT !.ip = Null]
      BY <1>2, <3>1, <3>2, <3>3, IgetCases
    <3>5. (\A s \in Slots : Ino(n, s) # Root) /\ n.list = <<>>
      BY <2>1, <3>4 DEF Ino, Layer
    <3>6. Iget(n, Root) = [n EXCEPT !.ip = Null]
      BY <2>3, <3>5 DEF Iget
    <3> QED
      BY <2>1, <3>6 DEF Layer
  <2> QED
    BY <2>2, <2>3
<1> QED
  BY <1>4, <1>5

(* The count in core of an inode that nothing refers to.                   *)
LEMMA InCore ==
    ASSUME NEW c, NEW D, NEW t, NEW Q, NEW P, NEW X, In(c, D, t, Q, P, X), NEW s \in Slots, P[s] >= 1,
           Q[s] \notin Alive(t, X), NEW k \in Nat
    PROVE  /\ In([c EXCEPT !.slot[s].nlink = k], D, t, Q, P, X)
           /\ [c EXCEPT !.slot[s].nlink = k].ip = c.ip
<1> DEFINE f == c.slot
           g == [f EXCEPT ![s].nlink = k]
           e == [c EXCEPT !.slot[s].nlink = k]
<1>1. /\ Book(c, D, t, Q, P, X) /\ c \in Layer /\ f \in Slotted /\ c.list \in Seq(Slots)
      /\ c.ip \in Slots \union {Null} /\ Ino(c, s) = Q[s]
      /\ Kept(f, c.list, c.win, D, t, Q, P, X)
  BY InHas, BookFields DEF In
<1>2. g \in Slotted /\ g[s] = [f[s] EXCEPT !.nlink = k] /\ SameBut(f, g, s)
  BY <1>1 DEF Slotted, Slot, SameBut
<1>3. e = WithSlots(c, g, c.list, c.ip)
  BY <1>1 DEF WithSlots, Layer
<1> HIDE DEF g, e, f
<1>4. g[s].ino = f[s].ino /\ g[s].ref = f[s].ref /\ g[s].mode = f[s].mode /\ f[s].ino = Q[s]
  BY <1>1, <1>2 DEF Slotted, Slot, Ino, f
<1>5. \A u \in Slots : g[u].ino = f[u].ino /\ g[u].ref = f[u].ref /\ g[u].mode = f[u].mode
  BY <1>2, <1>4 DEF SameBut
<1>6. Kept(g, c.list, c.win, D, t, Q, P, X)
  <2>1. FreeList(g, c.list)
    BY <1>1, <1>5 DEF Kept, FreeList
  <2>2. OneSlot(g) /\ Pinned(g, Q, P) /\ Offers(g, c.win, t, X)
    BY <1>1, <1>5 DEF Kept, OneSlot, Pinned, Offers
  <2>3. Fresh(g, D, t, X)
    BY <1>1, <1>2, <1>4, <1>5 DEF Kept, Fresh, SameBut
  <2> QED
    BY <2>1, <2>2, <2>3 DEF Kept
<1>7. Book(e, D, t, Q, P, X) /\ e.ip = c.ip
  BY <1>1, <1>2, <1>3, <1>6, BookSlot
<1> QED
  BY <1>7 DEF In, e

(* A routine returns another slot, or none.                                *)
LEMMA InIp ==
    ASSUME NEW c, NEW D, NEW t, NEW Q, NEW P, NEW X, NEW ip \in Slots \union {Null}, c \in Layer,
           Done(c, D, t, Q, P, X)
    PROVE  /\ Done([c EXCEPT !.ip = ip], D, t, Q, P, X) /\ [c EXCEPT !.ip = ip].ip = ip
           /\ In(c, D, t, Q, P, X) => In([c EXCEPT !.ip = ip], D, t, Q, P, X)
<1>1. In(c, D, t, Q, P, X) => In([c EXCEPT !.ip = ip], D, t, Q, P, X)
  BY BookIp DEF In
<1>2. [c EXCEPT !.ip = ip].ip = ip /\ [c EXCEPT !.ip = ip].spin = c.spin
  BY DEF Layer
<1> QED
  BY <1>1, <1>2 DEF Done

-----------------------------------------------------------------------------
(* The disk after an inode was claimed and got k links.                    *)
LEMMA ClaimedIs ==
    ASSUME NEW D \in Disks, NEW i \in Inodes, NEW kind \in Modes, NEW k \in Nat
    PROVE  /\ Given(D, i, kind) \in Disks /\ Given(D, i, kind)[i].mode = kind
           /\ \A j \in Inodes \ {i} : Given(D, i, kind)[j] = D[j]
           /\ Recount(Given(D, i, kind), i, k)[i].mode = kind
           /\ \A j \in Inodes \ {i} : Recount(Given(D, i, kind), i, k)[j] = D[j]
BY DEF Given, Recount, Disks, Info

(* What scfs_create_node returns: a new inode under a new name.            *)
Created(r) ==
    \E R, i, D2, t2 :
        /\ r.ip \in Slots /\ R[r.ip] = i /\ i \in Inodes
        /\ In(r, D2, t2, R, Plus(P0, r.ip), {})
        /\ NameAdded(fs.dirs, t2, i) /\ i \notin Exists(fs)

(* scfs_create_node.                                                       *)
LEMMA CreateNodeBook ==
    ASSUME FsInv, Absolute, NEW path \in Paths, NEW room, NEW c, Good(c, {}, {}),
           Done(c, fs.disk, fs.dirs, O0, P0, {}),
           path.at = <<>> => Namei(c, Parent(path), cwd).ip = Null,
           NEW r, r = CreateNode(c, path, "file", room)
    PROVE  (r.ip = Null /\ EndsFor(r)) \/ Created(r)
<1> DEFINE D == fs.disk
           t == fs.dirs
           b == Base(path)
           d == Namei(c, Parent(path), cwd)
           dir == d.ip
           a == Ialloc(d, "file")
           ip == a.ip
           one == [a EXCEPT !.slot[ip].nlink = 1]
           put == Iupdate(one, ip)
           ent == AddEntry(put, dir, b, Ino(one, ip))
           done == Iupdate(AddEntry(one, dir, b, Ino(one, ip)), ip)
           goal == (r.ip = Null /\ EndsFor(r)) \/ Created(r)
<1>1. r = IF dir = Null THEN d
          ELSE IF ~IsDir(d, dir) \/ Lookup(d, dir, b) # 0
          THEN [Iput(d, dir) EXCEPT !.ip = Null]
          ELSE IF ip = Null THEN [Iput(a, dir) EXCEPT !.ip = Null]
          ELSE IF ~CanAdd(one, dir, room) THEN [IputAll(one, <<ip, dir>>) EXCEPT !.ip = Null]
          ELSE [Iput(done, dir) EXCEPT !.ip = ip]
  BY DEF CreateNode
<1>2. /\ In(fs, D, t, O0, P0, {}) /\ Over(P0) /\ path \in PathSet /\ path.abs
      /\ Parent(path) \in PathSet /\ Parent(path).abs
      /\ path.at # <<>> => b \in Names
  BY InStart, PathFacts, ParentAt
<1>3. ASSUME c.spin # "no" PROVE goal
  <2>1. dir = Null /\ d.spin # "no"
    BY <1>2, <1>3, NameiStuck
  <2>2. EndsFor(d)
    BY <2>1 DEF EndsFor
  <2>3. r = d
    BY <1>1, <2>1
  <2> QED
    BY <2>1, <2>2, <2>3
<1>4. ASSUME In(c, D, t, O0, P0, {}) PROVE goal
  <2>1. \/ NotFound(d, D, t, O0, P0, {})
        \/ \E R, j : Taken(d, D, t, O0, P0, {}, R, j) /\ j \in Alive(t, {})
    BY <1>2, <1>4, NameiFinds
  <2>2. path.at = <<>> => dir = Null
    OBVIOUS
  <2> HIDE DEF D, b, d
  <2>3. ASSUME NotFound(d, D, t, O0, P0, {}) PROVE goal
    <3>1. EndsFor(d) /\ d.ip = Null
      BY <2>3, DoneEnds, SameNames DEF NotFound
    <3> QED
      BY <1>1, <3>1
  <2>4. ASSUME NEW R, NEW j, Taken(d, D, t, O0, P0, {}, R, j), j \in Alive(t, {}) PROVE goal
    <3> DEFINE P1 == Plus(P0, dir)
    <3>1. /\ dir \in Slots /\ dir # Null /\ R[dir] = j /\ j \in Inodes
          /\ In(d, D, t, R, P1, {}) /\ Over(P1) /\ P1[dir] >= 1
      BY <1>2, <2>4, TakenHas
    <3>2. b \in Names
      BY <1>2, <2>2, <3>1
    <3> HIDE DEF dir
    <3>3. ASSUME ~IsDir(d, dir) \/ Lookup(d, dir, b) # 0 PROVE goal
      <4> DEFINE e == Iput(d, dir)
      <4>1. In(e, D, t, R, P0, {})
        BY <1>2, <3>1, InPut
      <4>2. e \in Layer
        BY <4>1, InHas
      <4> HIDE DEF e
      <4>3. Done([e EXCEPT !.ip = Null], D, t, R, P0, {}) /\ [e EXCEPT !.ip = Null].ip = Null
        BY <4>1, <4>2, InIp DEF Done
      <4>4. EndsFor([e EXCEPT !.ip = Null])
        BY <4>3, DoneEnds, SameNames
      <4>5. r = [e EXCEPT !.ip = Null]
        BY <1>1, <3>1, <3>3 DEF e
      <4> QED
        BY <4>3, <4>4, <4>5
    <3>4. ASSUME ~(~IsDir(d, dir) \/ Lookup(d, dir, b) # 0) PROVE goal
      <4>1. D[j].mode = "dir" /\ t[j][b] = 0 /\ D \in Disks /\ t \in Trees
        <5> HIDE DEF P1
        <5>1. /\ D \in Disks /\ t \in Trees
              /\ R[dir] \in Alive(t, {}) =>
                    /\ IsDir(d, dir) = (D[R[dir]].mode = "dir")
                    /\ \A m : Lookup(d, dir, m) = IF D[R[dir]].mode = "dir" THEN t[R[dir]][m] ELSE 0
          BY ONLY <3>1, InHas
        <5> QED
          BY <2>4, <3>1, <3>4, <5>1
      <4>2. \/ NotFound(a, D, t, R, P1, {})
            \/ \E S, i : /\ Taken(a, Given(D, i, "file"), t, R, P1, {}, S, i) /\ D[i].mode = "free"
                         /\ i \notin Alive(t, {}) /\ NameCount(t, i) = 0 /\ t[i] = NoNames /\ i # Root
                         /\ a.slot[a.ip].mode = "file"
        <5>1. "file" \in Modes \ {"free"}
          BY DEF Modes
        <5> QED
          BY <3>1, <5>1, IallocFinds
      <4> HIDE DEF a, goal
      <4>3. ASSUME NotFound(a, D, t, R, P1, {}) PROVE goal
        <5> DEFINE e == Iput(a, dir)
        <5>1. Done(e, D, t, R, P0, {}) /\ a \in Layer /\ ip = Null
          BY <1>2, <3>1, <4>3, DonePut DEF NotFound
        <5>2. e \in Layer
          <6>1. CASE a.spin # "no"
            BY <5>1, <6>1 DEF Iput
          <6>2. CASE a.spin = "no"
            <7>1. In(e, D, t, R, P0, {})
              BY <1>2, <3>1, <4>3, <6>2, InPut DEF NotFound, Done
            <7> QED
              BY <7>1, InHas
          <6> QED
            BY <6>1, <6>2
        <5> HIDE DEF e
        <5>3. Done([e EXCEPT !.ip = Null], D, t, R, P0, {}) /\ [e EXCEPT !.ip = Null].ip = Null
          <6>1. e \in Layer /\ Done(e, D, t, R, P0, {}) /\ Null \in Slots \union {Null}
            BY <5>1, <5>2
          <6> QED
            BY ONLY <6>1, InIp
        <5>4. EndsFor([e EXCEPT !.ip = Null])
          BY <5>3, DoneEnds, SameNames
        <5>5. r = [e EXCEPT !.ip = Null]
          BY <1>1, <3>1, <3>4, <5>1 DEF e
        <5> QED
          BY <5>3, <5>4, <5>5 DEF goal
      <4>4. ASSUME NEW S, NEW i, Taken(a, Given(D, i, "file"), t, R, P1, {}, S, i), D[i].mode = "free",
                   i \notin Alive(t, {}), NameCount(t, i) = 0, t[i] = NoNames, i # Root,
                   a.slot[a.ip].mode = "file"
            PROVE  goal
        <5> DEFINE P2 == Plus(P1, ip)
                   D1 == Given(D, i, "file")
                   D2 == Recount(D1, i, 1)
        <5>1. /\ ip \in Slots /\ ip # Null /\ S[ip] = i /\ i \in Inodes /\ S[dir] = j
              /\ In(a, D1, t, S, P2, {}) /\ Over(P2) /\ P2[ip] >= 1 /\ P2[dir] >= 1
          BY <3>1, <4>4, TakenHas
        <5>2. i \notin Exists(fs)
          <6>1. Book(fs, fs.disk, fs.dirs, O0, P0, {})
            BY <1>2 DEF In, D
          <6> QED
            BY <4>4, <5>1, <6>1, ExistsBook DEF D
        <5>3. a.slot[ip].mode = "file"
          BY <4>4
        <5> HIDE DEF ip
        <5>4. ASSUME ~CanAdd(one, dir, room) PROVE goal
          <6>1. In(one, D1, t, S, P2, {})
            <7> HIDE DEF P2, D1
            <7> QED
              BY <4>4, <5>1, InCore
          <6> HIDE DEF one
          <6>2. In(Iput(one, ip), D1, t, S, P1, {})
            BY <3>1, <5>1, <6>1, InPut
          <6> DEFINE e == IputAll(one, <<ip, dir>>)
          <6>3. In(e, D1, t, S, P0, {})
            BY <1>2, <3>1, <6>2, InPut, IputAllTwo
          <6>4. e \in Layer
            BY <6>3, InHas
          <6> HIDE DEF e, D1
          <6>5. Done([e EXCEPT !.ip = Null], D1, t, S, P0, {}) /\ [e EXCEPT !.ip = Null].ip = Null
            BY <6>3, <6>4, InIp DEF Done
          <6>6. EndsFor([e EXCEPT !.ip = Null])
            BY <6>5, DoneEnds, SameNames
          <6>7. r = [e EXCEPT !.ip = Null]
            BY <1>1, <3>1, <3>4, <5>1, <5>4 DEF e
          <6> QED
            BY <6>5, <6>6, <6>7 DEF goal
        <5>5. ASSUME CanAdd(one, dir, room) PROVE goal
          <6> DEFINE t2 == Entry(t, j, b, i)
          <6>1. Ino(one, ip) = i /\ one \in Layer
            <7>1. a \in Layer /\ Ino(a, ip) = i
              <8> HIDE DEF P2, D1
              <8> QED
                BY <5>1, InHas
            <7>2. 1 \in Nat
              OBVIOUS
            <7>3. one \in Layer
              BY <5>1, <7>1, <7>2 DEF Layer, Slotted, Slot
            <7>4. Ino(one, ip) = Ino(a, ip)
              BY <5>1, <7>1 DEF Ino, Layer, Slotted, Slot
            <7> QED
              BY <7>1, <7>3, <7>4
          <6>2. In(put, D2, t, S, P2, {i})
            <7>1. D1[i].mode = "file"
              BY <4>1, <5>1, ClaimedIs DEF Modes
            <7> HIDE DEF P2, D1
            <7>2. a.slot[ip].mode = D1[i].mode /\ D1[i].mode # "free" /\ 1 \in Nat \ {0} /\ D1[i].mode # "dir"
              BY <5>3, <7>1
            <7>3. In(put, Recount(D1, i, 1), t, S, P2, {} \union {i})
              BY <4>4, <5>1, <7>2, InFirst
            <7> QED
              BY <7>3
          <6>3. D2[j] = D[j] /\ D2[i].mode = "file"
            BY <2>4, <3>1, <4>1, <4>4, <5>1, ClaimedIs DEF Modes
          <6>4. j \in Alive(t, {i})
            BY <2>4 DEF Alive
          <6>5. In(ent, D2, t2, S, P2, {})
            <7> HIDE DEF P2, D2, put
            <7>1. S[dir] \in Alive(t, {i}) /\ D2[S[dir]].mode = "dir" /\ t[S[dir]][b] = 0 /\ i \in {i} /\ D2[i].mode # "dir"
              BY <4>1, <5>1, <6>3, <6>4
            <7>2. In(AddEntry(put, dir, b, i), D2, Entry(t, S[dir], b, i), S, P2, {i} \ {i})
              BY <3>1, <3>2, <5>1, <6>2, <7>1, InEnter
            <7>3. {i} \ {i} = {}
              OBVIOUS
            <7> QED
              BY <5>1, <6>1, <7>2, <7>3
          <6>6. done = ent
            <7> HIDE DEF one
            <7> QED
              BY <6>1, UpdateEnter
          <6>7. NameAdded(t, t2, i)
            BY <3>1, <3>2, <4>1 DEF NameAdded
          <6> HIDE DEF t2, D2, ent, one, put
          <6> DEFINE e == Iput(done, dir)
          <6>8. In(e, D2, t2, S, Plus(P0, ip), {})
            BY <1>2, <3>1, <6>5, <6>6, InPutOther
          <6>9. e \in Layer
            BY <6>8, InHas
          <6> HIDE DEF e
          <6>10. In([e EXCEPT !.ip = ip], D2, t2, S, Plus(P0, ip), {}) /\ [e EXCEPT !.ip = ip].ip = ip
            BY <5>1, <6>8, <6>9, InIp DEF Done
          <6>11. r = [e EXCEPT !.ip = ip]
            BY <1>1, <3>1, <3>4, <5>1, <5>5 DEF e
          <6>12. r.ip = ip /\ In(r, D2, t2, S, Plus(P0, r.ip), {})
            BY <6>10, <6>11
          <6>13. Created(r)
            BY <5>1, <5>2, <6>7, <6>12 DEF Created
          <6> QED
            BY <6>13 DEF goal
        <5> QED
          BY <5>4, <5>5
      <4> QED
        BY <4>2, <4>3, <4>4
    <3> QED
      BY <3>3, <3>4
  <2> HIDE DEF goal
  <2> QED
    BY <2>1, <2>3, <2>4
<1> QED
  BY <1>3, <1>4 DEF Done

(* A call starts in a sound state of the layer.                            *)
LEMMA StartGood ==
    ASSUME FsInv
    PROVE  Good(fs, {}, {}) /\ fs.spin = "no" /\ fs.ip = Null
<1>1. Good(fs, Live(file, cwd), {}) /\ fs.spin = "no" /\ fs.ip = Null
  BY DEF FsInv, TypeInv
<1>2. {} \in SUBSET Live(file, cwd) /\ {} \subseteq {}
  OBVIOUS
<1>3. Good(fs, {}, {})
  <2> DEFINE U == Live(file, cwd)
  <2>1. Good(fs, U, {}) /\ {} \in SUBSET U
    BY <1>1
  <2> HIDE DEF U
  <2> QED
    BY <1>2, <2>1, GoodMono
<1> QED
  BY <1>1, <1>3

(* The names are changed as a new file requires.                           *)
LEMMA CreatedNames ==
    ASSUME NEW t2, NEW i \in Inodes, NameAdded(fs.dirs, t2, i), i \notin Exists(fs)
    PROVE  NamesStep(fs, t2)
BY DEF NamesStep

(* mknod.                                                                  *)
LEMMA MknodAllowed ==
    ASSUME FsInv, Absolute, NEW path \in Named, NEW room, Mknod(path, room)
    PROVE  Allowed
<1> DEFINE n == CreateNode(fs, path, "file", room)
           res == IF n.ip = Null THEN n ELSE Iput(n, n.ip)
<1>1. Finish([op |-> "mknod", new |-> path], res)
  BY DEF Mknod
<1>2. (n.ip = Null /\ EndsFor(n)) \/ Created(n)
  <2>1. path \in Paths /\ path.at # <<>>
    BY NamedType, PathFacts
  <2>2. Good(fs, {}, {}) /\ Done(fs, fs.disk, fs.dirs, O0, P0, {})
    BY StartGood, InStart DEF Done
  <2> QED
    BY <2>1, <2>2, CreateNodeBook
<1> HIDE DEF n
<1>3. ASSUME Created(n) PROVE EndsFor(Iput(n, n.ip)) /\ n.ip # Null
  <2>1. PICK R, i, D2, t2 :
            /\ n.ip \in Slots /\ R[n.ip] = i /\ i \in Inodes
            /\ In(n, D2, t2, R, Plus(P0, n.ip), {})
            /\ NameAdded(fs.dirs, t2, i) /\ i \notin Exists(fs)
    BY <1>3 DEF Created
  <2>2. NamesStep(fs, t2)
    BY <2>1, CreatedNames
  <2>3. EndsFor(Iput(n, n.ip))
    BY <2>1, <2>2, PutOneEnds DEF Done
  <2> QED
    BY <2>1, <2>3, CacheAssumption DEF Slots
<1>4. EndsFor(res)
  BY <1>2, <1>3
<1> HIDE DEF res
<1> QED
  BY <1>1, <1>4, FinishAllowed

(* A name that is added does not concern link counts.                      *)
LEMMA RelinkEnter ==
    ASSUME NEW c \in Layer, NEW s, NEW n, NEW i, NEW u \in Slots, NEW k \in {-1, 1}
    PROVE  Relink(AddEntry(c, s, n, i), u, k) = AddEntry(Relink(c, u, k), s, n, i)
<1> DEFINE m(e) == IF e.slot[u].nlink + k < 0 THEN 0 ELSE e.slot[u].nlink + k
           e == AddEntry(c, s, n, i)
           f == [c EXCEPT !.slot[u].nlink = m(c)]
<1>1. CASE c.spin # "no"
  BY <1>1 DEF Relink, AddEntry
<1>2. CASE c.spin = "no"
  <2>1. e = [c EXCEPT !.dirs[Ino(c, s)][n] = i]
    BY <1>2 DEF AddEntry
  <2>2. e.spin = "no" /\ e.slot = c.slot
    BY <1>2, <2>1 DEF Layer
  <2>3. [e EXCEPT !.slot[u].nlink = m(e)] = AddEntry(f, s, n, i)
    <3>1. f.spin = "no" /\ f.dirs = c.dirs
      BY <1>2 DEF Layer
    <3>2. Ino(f, s) = Ino(c, s)
      BY DEF Ino, Layer, Slotted, Slot
    <3>3. m(e) = m(c)
      BY <2>2
    <3> HIDE DEF m
    <3> QED
      BY <1>2, <2>1, <3>1, <3>2, <3>3 DEF AddEntry, Layer
  <2>4. Relink(e, u, k) = Iupdate([e EXCEPT !.slot[u].nlink = m(e)], u)
    BY <2>2 DEF Relink
  <2>5. Relink(c, u, k) = Iupdate(f, u)
    BY <1>2 DEF Relink
  <2>6. Iupdate(AddEntry(f, s, n, i), u) = AddEntry(Iupdate(f, u), s, n, i)
    <3>1. c.slot[u].nlink \in Nat /\ c.slot \in Slotted
      BY DEF Layer, Slotted, Slot
    <3>2. m(c) \in Nat
      BY <3>1
    <3> HIDE DEF m
    <3>3. f \in Layer
      BY <3>1, <3>2 DEF Layer, Slotted, Slot
    <3> HIDE DEF f
    <3> QED
      BY <3>3, UpdateEnter
  <2> QED
    BY <2>3, <2>4, <2>5, <2>6
<1> QED
  BY <1>1, <1>2

WithLinks(c, u, k) == [c EXCEPT !.slot[u].nlink = k]

(* Nor does it concern the counts of the new directory.                    *)
LEMMA CountEnter ==
    ASSUME NEW c \in Layer, NEW s, NEW n, NEW i, NEW u \in Slots, NEW k \in Nat
    PROVE  Iupdate(WithLinks(AddEntry(c, s, n, i), u, k), u)
               = AddEntry(Iupdate(WithLinks(c, u, k), u), s, n, i)
<1> DEFINE f == [c EXCEPT !.slot[u].nlink = k]
<1>1. f \in Layer /\ Ino(f, s) = Ino(c, s) /\ f.spin = c.spin /\ f.dirs = c.dirs
  <2> DEFINE g == [c.slot EXCEPT ![u].nlink = k]
  <2>1. f = [c EXCEPT !.slot = g] /\ c.slot \in Slotted
    BY DEF Layer
  <2>2. g \in Slotted /\ \A x : g[x].ino = c.slot[x].ino
    BY <2>1 DEF Slotted, Slot
  <2> HIDE DEF g, f
  <2> QED
    BY <2>1, <2>2 DEF Layer, Ino
<1>2. [AddEntry(c, s, n, i) EXCEPT !.slot[u].nlink = k] = AddEntry(f, s, n, i)
  BY <1>1 DEF AddEntry, Layer
<1> HIDE DEF f
<1>3. Iupdate(AddEntry(f, s, n, i), u) = AddEntry(Iupdate(f, u), s, n, i)
  BY <1>1, UpdateEnter
<1> QED
  BY <1>2, <1>3 DEF f, WithLinks

(* A link count is no mode.                                                *)
LEMMA RelinkMode ==
    ASSUME NEW c \in Layer, NEW u \in Slots, NEW k \in {-1, 1}
    PROVE  Relink(c, u, k) \in Layer /\ \A s \in Slots : Relink(c, u, k).slot[s].mode = c.slot[s].mode
<1> DEFINE m == IF c.slot[u].nlink + k < 0 THEN 0 ELSE c.slot[u].nlink + k
           f == [c EXCEPT !.slot[u].nlink = m]
<1>1. c.slot[u].nlink \in Nat /\ c.slot \in Slotted
  BY DEF Layer, Slotted, Slot
<1>2. m \in Nat
  BY <1>1
<1>3. Relink(c, u, k) = IF c.spin # "no" THEN c ELSE Iupdate(f, u)
  BY DEF Relink
<1> HIDE DEF m
<1>4. f \in Layer /\ \A s \in Slots : f.slot[s].mode = c.slot[s].mode
  BY <1>1, <1>2 DEF Layer, Slotted, Slot
<1> HIDE DEF f
<1>5. Iupdate(f, u) \in Layer /\ Iupdate(f, u).slot = f.slot
  <2>1. f.slot[u] \in Slot
    BY <1>4 DEF Layer, Slotted
  <2>2. [mode |-> f.slot[u].mode, nlink |-> f.slot[u].nlink] \in Info
    BY <2>1 DEF Slot, Info
  <2> QED
    BY <1>4, <2>2 DEF Iupdate, Layer, Disks
<1> QED
  BY <1>3, <1>4, <1>5

(* A name added and removed again.                                         *)
LEMMA EnterClear ==
    ASSUME NEW c \in Layer, c.spin = "no", NEW s, NEW j \in Inodes, Ino(c, s) = j,
           NEW n \in Names, c.dirs[j][n] = 0, NEW i
    PROVE  RemoveEntry(AddEntry(c, s, n, i), s, n) = c
<1>1. AddEntry(c, s, n, i) = [c EXCEPT !.dirs[j][n] = i]
  BY DEF AddEntry
<1>2. c.dirs \in Trees /\ [c.dirs EXCEPT ![j][n] = i] = [c.dirs EXCEPT ![j] = [c.dirs[j] EXCEPT ![n] = i]]
  BY DEF Layer
<1>3. [[c.dirs EXCEPT ![j][n] = i] EXCEPT ![j][n] = 0] = c.dirs
  BY <1>2 DEF Trees
<1> DEFINE e == AddEntry(c, s, n, i)
<1>4. RemoveEntry(e, s, n) = [c EXCEPT !.dirs = [[c.dirs EXCEPT ![j][n] = i] EXCEPT ![j][n] = 0]]
  <2>1. e.spin = "no" /\ Ino(e, s) = j
    BY <1>1 DEF Layer, Ino
  <2>2. RemoveEntry(e, s, n) = [e EXCEPT !.dirs[j][n] = 0]
    BY <2>1 DEF RemoveEntry, AddEntry
  <2> HIDE DEF e
  <2> QED
    BY <1>1, <2>2 DEF Layer, e
<1> QED
  BY <1>3, <1>4 DEF Layer

(* The disk when a directory i has been claimed, its parent j has a link   *)
(* more, and i has two.                                                    *)
LEMMA CountedIs ==
    ASSUME NEW D \in Disks, NEW i \in Inodes, NEW j \in Inodes \ {i}, NEW t
    PROVE  LET D2 == Recount(D, j, D[j].nlink + 1)
               D3 == Recount(D2, i, 2)
           IN  /\ D2 \in Disks /\ D3 \in Disks /\ D2[i].mode = D[i].mode
               /\ \A x \in Inodes : D3[x].mode = D[x].mode
               /\ D3[j].nlink = D[j].nlink + 1
               /\ t \in Trees => DirCount(D3, t, j) = DirCount(D, t, j)
<1> DEFINE k == D[j].nlink + 1
           D2 == Recount(D, j, k)
           D3 == Recount(D2, i, 2)
<1>1. k \in Nat /\ 2 \in Nat
  BY DEF Disks, Info
<1> HIDE DEF k
<1>2. /\ D2 \in Disks /\ D2[j].nlink = k /\ \A x \in Inodes : D2[x].mode = D[x].mode
  BY <1>1, RecountIs
<1> HIDE DEF D2
<1>3. /\ D3 \in Disks /\ (\A x \in Inodes : D3[x].mode = D2[x].mode)
      /\ \A x \in Inodes \ {i} : D3[x] = D2[x]
  BY <1>1, <1>2, RecountIs
<1> HIDE DEF D3
<1>4. D3[j].nlink = k /\ \A x \in Inodes : D3[x].mode = D[x].mode
  BY <1>2, <1>3
<1>5. t \in Trees => DirCount(D3, t, j) = DirCount(D, t, j)
  BY <1>4, DirsByMode
<1> QED
  BY <1>2, <1>3, <1>4, <1>5 DEF D3, D2, k

(* The names and the counts of a new directory.                            *)
LEMMA MadeBook ==
    ASSUME NEW a, NEW D, NEW t, NEW Q, NEW P, In(a, D, t, Q, P, {}),
           NEW dir \in Slots, P[dir] >= 1, NEW ip \in Slots, P[ip] >= 1,
           NEW i \in Inodes, Q[ip] = i, NEW j \in Inodes, Q[dir] = j, NEW b \in Names,
           j \in Linked(t, {}), D[j].mode = "dir", t[j][b] = 0,
           i \notin Alive(t, {}), NameCount(t, i) = 0, t[i] = NoNames,
           D[i].mode = "dir", a.slot[ip].mode = "dir"
    PROVE  LET made == AddEntry(a, dir, b, Ino(a, ip))
           IN  \E D3 : In(CountDir(made, dir, ip), D3, Entry(t, j, b, i), Q, P, {})
<1> DEFINE up == Relink(a, dir, 1)
           first == Iupdate([up EXCEPT !.slot[ip].nlink = 2], ip)
           D2 == Recount(D, j, D[j].nlink + 1)
           D3 == Recount(D2, i, 2)
<1>1. a \in Layer /\ Ino(a, ip) = i /\ Volume(D, t, {}) /\ D \in Disks /\ t \in Trees
  BY InHas
<1>2. j \in Alive(t, {}) /\ j \in Alive(t, {i}) /\ i # j /\ i # Root
  BY RootIsAlive DEF Linked, Alive
<1>3. In(up, D2, t, Q, P, {})
  BY <1>2, InMore
<1>4. /\ D2 \in Disks /\ D3 \in Disks /\ D2[i].mode = "dir" /\ D3[j].mode = "dir" /\ D3[i].mode = "dir"
      /\ D3[j].nlink = D[j].nlink + 1 /\ DirCount(D3, t, j) = DirCount(D, t, j)
  BY <1>1, <1>2, CountedIs
<1>5. up \in Layer /\ up.slot[ip].mode = "dir"
  BY <1>1, RelinkMode
<1> HIDE DEF up, D2
<1>6. In(first, D3, t, Q, P, {} \union {i})
  <2>1. up.slot[ip].mode = D2[i].mode /\ D2[i].mode # "free" /\ 2 \in Nat \ {0} /\ 2 <= 2
    BY <1>4, <1>5
  <2> QED
    BY <1>2, <1>3, <2>1, InFirst
<1>7. 3 + DirCount(D3, t, j) <= D3[j].nlink
  <2>1. 2 + DirCount(D, t, j) <= D[j].nlink
    BY <1>1 DEF Volume
  <2>2. DirCount(D, t, j) \in Nat /\ D[j].nlink \in Nat
    BY <1>1, CountsAreNat DEF Disks, Info
  <2> QED
    BY <1>4, <2>1, <2>2
<1> HIDE DEF first, D3
<1>8. In(AddEntry(first, dir, b, i), D3, Entry(t, Q[dir], b, i), Q, P, {i} \ {i})
  <2>1. In(first, D3, t, Q, P, {i}) /\ i \in {i} /\ Q[dir] \in Alive(t, {i})
    BY <1>2, <1>6
  <2> QED
    BY <1>4, <1>7, <2>1, InEnter
<1>9. {i} \ {i} = {}
  OBVIOUS
<1>10. CountDir(AddEntry(a, dir, b, i), dir, ip) = AddEntry(first, dir, b, i)
  <2>1. Relink(AddEntry(a, dir, b, i), dir, 1) = AddEntry(up, dir, b, i)
    BY <1>1, RelinkEnter DEF up
  <2>2. Iupdate([AddEntry(up, dir, b, i) EXCEPT !.slot[ip].nlink = 2], ip) = AddEntry(first, dir, b, i)
    <3>1. 2 \in Nat /\ first = Iupdate(WithLinks(up, ip, 2), ip)
      BY DEF first, WithLinks
    <3>2. Iupdate(WithLinks(AddEntry(up, dir, b, i), ip, 2), ip) = AddEntry(first, dir, b, i)
      BY <1>5, <3>1, CountEnter
    <3> QED
      BY <3>2 DEF WithLinks
  <2> QED
    BY <2>1, <2>2 DEF CountDir
<1> QED
  BY <1>1, <1>8, <1>9, <1>10

(* mkdir.                                                                  *)
LEMMA MkdirAllowed ==
    ASSUME FsInv, Absolute, NEW path \in Named, NEW room, NEW block, Mkdir(path, room, block)
    PROVE  Allowed
<1> DEFINE D == fs.disk
           t == fs.dirs
           b == Base(path)
           d == Namei(fs, Parent(path), cwd)
           dir == d.ip
           a == Ialloc(d, "dir")
           ip == a.ip
           made == AddEntry(a, dir, b, Ino(a, ip))
           two == CountDir(made, dir, ip)
           undone == RemoveEntry(made, dir, b)
           res == IF dir = Null THEN d
                  ELSE IF ~IsDir(d, dir) \/ Lookup(d, dir, b) # 0 THEN Iput(d, dir)
                  ELSE IF ip = Null THEN Iput(a, dir)
                  ELSE IF ~room THEN IputAll(a, <<ip, dir>>)
                  ELSE IF ~block THEN IputAll(undone, <<ip, dir>>)
                  ELSE IputAll(two, <<dir, ip>>)
<1>1. Finish([op |-> "mkdir", new |-> path], res)
  BY DEF Mkdir
<1>2. /\ In(fs, D, t, O0, P0, {}) /\ Over(P0) /\ b \in Names
      /\ Parent(path) \in PathSet /\ Parent(path).abs
  BY InStart, PathFacts, NamedType
<1>3. \/ NotFound(d, D, t, O0, P0, {})
      \/ \E R, j : Taken(d, D, t, O0, P0, {}, R, j) /\ j \in Alive(t, {}) /\ j \in Linked(t, {})
  BY <1>2, NameiFinds
<1> HIDE DEF D, d, b
<1>4. ASSUME NotFound(d, D, t, O0, P0, {}) PROVE EndsFor(res)
  <2>1. EndsFor(d) /\ res = d
    BY <1>4, DoneEnds, SameNames DEF NotFound
  <2> HIDE DEF res
  <2> QED
    BY <2>1
<1>5. ASSUME NEW R, NEW j, Taken(d, D, t, O0, P0, {}, R, j), j \in Alive(t, {}), j \in Linked(t, {})
      PROVE  EndsFor(res)
  <2> DEFINE P1 == Plus(P0, dir)
  <2>1. /\ dir \in Slots /\ dir # Null /\ R[dir] = j /\ j \in Inodes
        /\ In(d, D, t, R, P1, {}) /\ Over(P1) /\ P1[dir] >= 1
    BY <1>2, <1>5, TakenHas
  <2> HIDE DEF dir
  <2>2. ASSUME ~IsDir(d, dir) \/ Lookup(d, dir, b) # 0 PROVE EndsFor(res)
    <3>1. EndsFor(Iput(d, dir))
      BY <2>1, PutOneEnds, SameNames DEF Done
    <3> QED
      BY <2>1, <2>2, <3>1
  <2>3. ASSUME ~(~IsDir(d, dir) \/ Lookup(d, dir, b) # 0) PROVE EndsFor(res)
    <3>1. D[j].mode = "dir" /\ t[j][b] = 0 /\ D \in Disks /\ t \in Trees
      <4> HIDE DEF P1
      <4>1. /\ D \in Disks /\ t \in Trees
            /\ R[dir] \in Alive(t, {}) =>
                  /\ IsDir(d, dir) = (D[R[dir]].mode = "dir")
                  /\ \A m : Lookup(d, dir, m) = IF D[R[dir]].mode = "dir" THEN t[R[dir]][m] ELSE 0
        BY ONLY <2>1, InHas
      <4> QED
        BY <1>5, <2>1, <2>3, <4>1
    <3>2. \/ NotFound(a, D, t, R, P1, {})
          \/ \E S, i : /\ Taken(a, Given(D, i, "dir"), t, R, P1, {}, S, i) /\ D[i].mode = "free"
                       /\ i \notin Alive(t, {}) /\ NameCount(t, i) = 0 /\ t[i] = NoNames /\ i # Root
                       /\ a.slot[a.ip].mode = "dir"
      <4>1. "dir" \in Modes \ {"free"}
        BY DEF Modes
      <4> QED
        BY <2>1, <4>1, IallocFinds
    <3> HIDE DEF a
    <3>3. ASSUME NotFound(a, D, t, R, P1, {}) PROVE EndsFor(res)
      <4>1. EndsFor(Iput(a, dir)) /\ ip = Null
        BY <2>1, <3>3, PutOneEnds, SameNames DEF NotFound
      <4> QED
        BY <2>1, <2>3, <4>1
    <3>4. ASSUME NEW S, NEW i, Taken(a, Given(D, i, "dir"), t, R, P1, {}, S, i), D[i].mode = "free",
                 i \notin Alive(t, {}), NameCount(t, i) = 0, t[i] = NoNames, i # Root,
                 a.slot[a.ip].mode = "dir"
          PROVE  EndsFor(res)
      <4> DEFINE P2 == Plus(P1, ip)
                 D1 == Given(D, i, "dir")
      <4>1. /\ ip \in Slots /\ ip # Null /\ S[ip] = i /\ i \in Inodes /\ S[dir] = j
            /\ In(a, D1, t, S, P2, {}) /\ Over(P2) /\ P2[ip] >= 1 /\ P2[dir] >= 1
        BY <2>1, <3>4, TakenHas
      <4>2. i \notin Exists(fs)
        <5>1. Book(fs, fs.disk, fs.dirs, O0, P0, {})
          BY <1>2 DEF In, D
        <5> QED
          BY <3>4, <4>1, <5>1, ExistsBook DEF D
      <4>3. a.slot[ip].mode = "dir" /\ D1[i].mode = "dir" /\ D1[j] = D[j]
        <5>1. i # j /\ "dir" \in Modes
          BY <1>5, <3>4 DEF Modes
        <5> QED
          BY <2>1, <3>1, <3>4, <4>1, <5>1, ClaimedIs
      <4> HIDE DEF ip, D1
      <4>4. ASSUME ~room PROVE EndsFor(res)
        <5>1. EndsFor(IputAll(a, <<ip, dir>>))
          BY <2>1, <4>1, PutTwoEnds, SameNames DEF Done
        <5> QED
          BY <2>1, <2>3, <4>1, <4>4, <5>1
      <4>5. ASSUME room, ~block PROVE EndsFor(res)
        <5>1. undone = a
          <6> HIDE DEF P2
          <6>1. a \in Layer /\ a.spin = "no" /\ a.dirs = t /\ Ino(a, dir) = j
            <7>1. a \in Layer /\ a.spin = "no" /\ a.dirs = t /\ Ino(a, dir) = S[dir]
              BY ONLY <2>1, <4>1, InHas
            <7> QED
              BY <4>1, <7>1
          <6> QED
            BY <1>2, <2>1, <3>1, <6>1, EnterClear
        <5>2. EndsFor(IputAll(a, <<ip, dir>>))
          BY <2>1, <4>1, PutTwoEnds, SameNames DEF Done
        <5> HIDE DEF undone
        <5> QED
          BY <2>1, <2>3, <4>1, <4>5, <5>1, <5>2
      <4>6. ASSUME room, block PROVE EndsFor(res)
        <5> DEFINE t2 == Entry(t, j, b, i)
        <5>1. \E D3 : In(two, D3, t2, S, P2, {})
          <6>1. D1[j].mode = "dir"
            BY <3>1, <4>3
          <6> HIDE DEF P2
          <6> QED
            BY <1>2, <1>5, <2>1, <3>1, <3>4, <4>1, <4>3, <6>1, MadeBook
        <5>2. PICK D3 : In(two, D3, t2, S, P2, {})
          BY <5>1
        <5>3. NamesStep(fs, t2)
          <6>1. NameAdded(fs.dirs, t2, i)
            BY <1>2, <2>1, <3>1 DEF NameAdded
          <6> HIDE DEF t2
          <6> QED
            BY <4>1, <4>2, <6>1, CreatedNames
        <5> HIDE DEF two, t2
        <5>4. EndsFor(IputAll(two, <<dir, ip>>))
          BY <2>1, <4>1, <5>2, <5>3, PutTwoEnds DEF Done
        <5> QED
          BY <2>1, <2>3, <4>1, <4>6, <5>4
      <4> QED
        BY <4>4, <4>5, <4>6
    <3> HIDE DEF res
    <3> QED
      BY <3>2, <3>3, <3>4
  <2> QED
    BY <2>2, <2>3
<1> HIDE DEF res
<1>6. EndsFor(res)
  BY <1>3, <1>4, <1>5
<1> QED
  BY <1>1, <1>6, FinishAllowed

-----------------------------------------------------------------------------
(* Writing a live inode to the disk once more changes nothing.             *)
LEMMA UpdateNothing ==
    ASSUME NEW c, NEW D, NEW t, NEW Q, NEW P, NEW X, In(c, D, t, Q, P, X), NEW s \in Slots, P[s] >= 1,
           Q[s] \in Alive(t, X)
    PROVE  Iupdate(c, s) = c
<1>1. /\ c \in Layer /\ c.disk = D /\ D \in Disks /\ Ino(c, s) = Q[s] /\ Q[s] \in Inodes
      /\ c.slot[s].mode = D[Q[s]].mode /\ c.slot[s].nlink = D[Q[s]].nlink
  BY InHas
<1>2. D[Q[s]] = [mode |-> D[Q[s]].mode, nlink |-> D[Q[s]].nlink]
  BY <1>1 DEF Disks, Info
<1>3. [D EXCEPT ![Q[s]] = D[Q[s]]] = D
  BY <1>1 DEF Disks
<1>4. Iupdate(c, s) = IF c.spin # "no" THEN c ELSE [c EXCEPT !.disk = [D EXCEPT ![Q[s]] = D[Q[s]]]]
  BY <1>1, <1>2 DEF Iupdate
<1> QED
  BY <1>1, <1>3, <1>4 DEF Layer

(* An entry that is written is there.                                      *)
LEMMA EntryAt ==
    ASSUME NEW t \in Trees, NEW d \in Inodes, NEW n \in Names, NEW i \in Inodes
    PROVE  /\ Entry(t, d, n, i)[d][n] = i
           /\ t[d][n] = i => Entry(t, d, n, i) = t
BY DEF Entry, Trees

(* What rename moves: the inode io, from the name bo of jo to the name bn  *)
(* of jn, each of them in a slot that is held.                             *)
Movable(c, D, t, Q, P, oip, odir, ndir, io, jo, jn, bo, bn) ==
    /\ In(c, D, t, Q, P, {})
    /\ oip \in Slots /\ P[oip] >= 1 /\ Q[oip] = io /\ io \in Inodes
    /\ odir \in Slots /\ P[odir] >= 1 /\ Q[odir] = jo /\ jo \in Linked(t, {}) /\ bo \in Names
    /\ ndir \in Slots /\ P[ndir] >= 1 /\ Q[ndir] = jn /\ jn \in Linked(t, {}) /\ bn \in Names
    /\ t[jo][bo] = io /\ t[jn][bn] = 0 /\ D[jn].mode = "dir"

(* The old name is removed.                                                *)
LEMMA MoveOff ==
    ASSUME NEW c, NEW D, NEW t, NEW Q, NEW P, NEW oip, NEW odir, NEW ndir, NEW io, NEW jo, NEW jn,
           NEW bo, NEW bn, Movable(c, D, t, Q, P, oip, odir, ndir, io, jo, jn, bo, bn)
    PROVE  LET off == RemoveEntry(c, odir, bo)
               t3 == Entry(t, jo, bo, 0)
           IN  /\ In(off, D, t3, Q, P, {io}) /\ io # 0
               /\ D[jo].mode = "dir" /\ Volume(D, t, {}) /\ D \in Disks /\ t \in Trees
               /\ D[io].mode = "dir" => 3 + DirCount(D, t3, jo) <= D[jo].nlink
               /\ jo \in Inodes /\ jo \in Alive(t3, {io}) /\ t3[jo][bo] = 0
               /\ jn \in Inodes /\ jn \in Alive(t3, {io}) /\ jn \in Linked(t3, {io}) /\ t3[jn][bn] = 0
               /\ Entry(t3, jo, bo, io) = t
<1> DEFINE t3 == Entry(t, jo, bo, 0)
<1>1. /\ In(c, D, t, Q, P, {})
      /\ odir \in Slots /\ P[odir] >= 1 /\ Q[odir] = jo /\ jo \in Linked(t, {}) /\ bo \in Names
      /\ io \in Inodes /\ t[jo][bo] = io /\ jn \in Linked(t, {}) /\ t[jn][bn] = 0 /\ bn \in Names
  BY DEF Movable
<1>2. /\ Volume(D, t, {}) /\ D \in Disks /\ t \in Trees /\ io # 0 /\ io \notin {}
      /\ jo \in Inodes /\ jn \in Inodes
  BY <1>1, InHas, CacheAssumption DEF Inodes, Linked
<1>3. /\ In(RemoveEntry(c, odir, bo), D, Entry(t, Q[odir], bo, 0), Q, P, {} \union {io})
      /\ D[io].mode = "dir" /\ Q[odir] \in Linked(t, {}) =>
            3 + DirCount(D, Entry(t, Q[odir], bo, 0), Q[odir]) <= D[Q[odir]].nlink
  BY <1>1, <1>2, InClear
<1>4. /\ \A j \in Inodes \ {io} : j \in Linked(t, {}) => j \in Linked(t3, {io})
      /\ \A j \in Inodes \ {io} : j \in Linked(t, {}) => j \in Alive(t3, {io})
  BY <1>1, <1>2, ClearedNames
<1>5. io \in Linked(t3, {io}) /\ io \in Alive(t3, {io})
  BY <1>1 DEF Linked, Alive
<1>6. t3[jo][bo] = 0 /\ Entry(t3, jo, bo, io) = t
  <2>1. 0 \in {0} \union Inodes /\ io \in {0} \union Inodes
    BY <1>1
  <2>2. t3[jo][bo] = 0
    BY <1>1, <1>2, <2>1, EntryIs
  <2>3. Entry(t, jo, bo, io) = t
    BY <1>1, <1>2, EntryAt
  <2>4. \A j : Entry(Entry(t, jo, bo, j), jo, bo, io) = Entry(t, jo, bo, io)
    BY <1>1, <1>2, <2>1, EntryIs
  <2> QED
    BY <2>2, <2>3, <2>4
<1>7. t3[jn][bn] = 0
  <2>1. 0 \in {0} \union Inodes
    OBVIOUS
  <2>2. jn # jo \/ bn # bo => t3[jn][bn] = t[jn][bn]
    BY <1>1, <1>2, <2>1, EntryIs
  <2> QED
    BY <1>1, <1>6, <2>2
<1>8. D[jo].mode = "dir"
  BY <1>1, <1>2, NamedIsAlive
<1> HIDE DEF t3
<1> QED
  BY <1>1, <1>2, <1>3, <1>4, <1>5, <1>6, <1>7, <1>8 DEF t3

(* There is no room for the new name: the old one is put back.             *)
LEMMA MoveBack ==
    ASSUME NEW c, NEW D, NEW t, NEW Q, NEW P, NEW oip, NEW odir, NEW ndir, NEW io, NEW jo, NEW jn,
           NEW bo, NEW bn, Movable(c, D, t, Q, P, oip, odir, ndir, io, jo, jn, bo, bn)
    PROVE  In(AddEntry(RemoveEntry(c, odir, bo), odir, bo, io), D, t, Q, P, {})
<1> DEFINE off == RemoveEntry(c, odir, bo)
           t3 == Entry(t, jo, bo, 0)
<1>1. /\ In(off, D, t3, Q, P, {io}) /\ D[jo].mode = "dir"
      /\ D[io].mode = "dir" => 3 + DirCount(D, t3, jo) <= D[jo].nlink
      /\ jo \in Alive(t3, {io}) /\ t3[jo][bo] = 0 /\ Entry(t3, jo, bo, io) = t
  BY MoveOff
<1>2. odir \in Slots /\ P[odir] >= 1 /\ Q[odir] = jo /\ bo \in Names /\ io \in {io} /\ {io} \ {io} = {}
  BY DEF Movable
<1> HIDE DEF off, t3
<1>3. In(AddEntry(off, odir, bo, io), D, Entry(t3, Q[odir], bo, io), Q, P, {io} \ {io})
  BY <1>1, <1>2, InEnter
<1> QED
  BY <1>1, <1>2, <1>3 DEF off

(* There is: it is added, and the two directories are counted if they      *)
(* differ and ".." moves.                                                  *)
LEMMA MoveOn ==
    ASSUME NEW c, NEW D, NEW t, NEW Q, NEW P, NEW oip, NEW odir, NEW ndir, NEW io, NEW jo, NEW jn,
           NEW bo, NEW bn, Movable(c, D, t, Q, P, oip, odir, ndir, io, jo, jn, bo, bn)
    PROVE  LET on == AddEntry(RemoveEntry(c, odir, bo), ndir, bn, io)
               counted == IF D[io].mode = "dir" /\ odir # ndir
                          THEN Relink(Relink(on, odir, -1), ndir, 1) ELSE on
           IN  \E E : In(Iupdate(counted, oip), E, Entry(Entry(t, jo, bo, 0), jn, bn, io), Q, P, {})
<1> DEFINE off == RemoveEntry(c, odir, bo)
           t3 == Entry(t, jo, bo, 0)
<1>1. /\ In(off, D, t3, Q, P, {io}) /\ io # 0
      /\ D[jo].mode = "dir" /\ Volume(D, t, {}) /\ D \in Disks /\ t \in Trees
      /\ D[io].mode = "dir" => 3 + DirCount(D, t3, jo) <= D[jo].nlink
      /\ jo \in Inodes /\ jo \in Alive(t3, {io}) /\ t3[jo][bo] = 0
      /\ jn \in Inodes /\ jn \in Alive(t3, {io}) /\ jn \in Linked(t3, {io}) /\ t3[jn][bn] = 0
      /\ Entry(t3, jo, bo, io) = t
  <2> HIDE DEF off, t3
  <2> QED
    BY MoveOff DEF off, t3
<1>2. /\ oip \in Slots /\ P[oip] >= 1 /\ Q[oip] = io /\ io \in Inodes
      /\ odir \in Slots /\ P[odir] >= 1 /\ Q[odir] = jo
      /\ ndir \in Slots /\ P[ndir] >= 1 /\ Q[ndir] = jn /\ bn \in Names
      /\ D[jn].mode = "dir" /\ io \in {io} /\ {io} \ {io} = {}
  BY DEF Movable
<1> HIDE DEF off, t3
<1> DEFINE on == AddEntry(off, ndir, bn, io)
           t4 == Entry(t3, jn, bn, io)
           counted == IF D[io].mode = "dir" /\ odir # ndir
                      THEN Relink(Relink(on, odir, -1), ndir, 1) ELSE on
<1>3. ASSUME NEW E, In(counted, E, t4, Q, P, {}) PROVE Iupdate(counted, oip) = counted
  <2>1. Volume(E, t4, {}) /\ t4 \in Trees
    BY <1>3, InHas
  <2>2. t3 \in Trees
    BY <1>1, InHas
  <2>3. t4[jn][bn] = io
    <3>1. jn \in Inodes /\ bn \in Names /\ io \in Inodes
      BY <1>1, <1>2
    <3> QED
      BY ONLY <2>2, <3>1, EntryAt
  <2> HIDE DEF t4
  <2>4. io \in Alive(t4, {})
    <3>1. jn \in Inodes /\ bn \in Names /\ t4[jn][bn] # 0
      BY <1>1, <1>2, <2>3
    <3>2. t4[jn][bn] \in Alive(t4, {})
      BY ONLY <2>1, <3>1, NamedIsAlive
    <3> QED
      BY <2>3, <3>2
  <2> HIDE DEF counted
  <2> QED
    BY <1>2, <1>3, <2>4, UpdateNothing
<1>4. CASE ~(D[io].mode = "dir" /\ odir # ndir)
  <2>1. D[io].mode = "dir" => 3 + DirCount(D, t3, Q[ndir]) <= D[Q[ndir]].nlink
    BY <1>1, <1>2, <1>4
  <2>2. In(on, D, Entry(t3, Q[ndir], bn, io), Q, P, {io} \ {io})
    BY <1>1, <1>2, <2>1, InEnter
  <2>3. In(counted, D, t4, Q, P, {})
    BY <1>2, <1>4, <2>2
  <2> HIDE DEF counted, t4
  <2> QED
    BY <1>3, <2>3 DEF counted, t4, on, off, t3
<1>5. CASE D[io].mode = "dir" /\ odir # ndir
  <2> DEFINE less == Relink(off, odir, -1)
             more == Relink(less, ndir, 1)
             E1 == Recount(D, jo, D[jo].nlink - 1)
             E2 == Recount(E1, jn, E1[jn].nlink + 1)
  <2>1. In(less, E1, t3, Q, P, {io})
    <3>1. /\ Q[odir] \in Alive(t3, {io}) /\ D[Q[odir]].mode = "dir"
          /\ 3 + DirCount(D, t3, Q[odir]) <= D[Q[odir]].nlink
      BY <1>1, <1>2, <1>5
    <3>2. In(less, Recount(D, Q[odir], D[Q[odir]].nlink - 1), t3, Q, P, {io})
      BY <1>1, <1>2, <3>1, InLess
    <3> QED
      BY <1>2, <3>2
  <2>2. E1 \in Disks /\ \A x \in Inodes : E1[x].mode = D[x].mode
    <3> DEFINE k == D[jo].nlink - 1
    <3>1. k \in Nat
      <4>1. D[jo].nlink \in Nat /\ DirCount(D, t3, jo) \in Nat
        BY <1>1, CountsAreNat DEF Disks, Info
      <4> QED
        BY <1>1, <1>5, <4>1
    <3> HIDE DEF k
    <3>2. Recount(D, jo, k) \in Disks /\ \A x \in Inodes : Recount(D, jo, k)[x].mode = D[x].mode
      BY <1>1, <3>1, RecountIs
    <3> QED
      BY <3>2 DEF k
  <2>3. Volume(E1, t3, {io}) /\ t3 \in Trees /\ off \in Layer /\ less \in Layer
    BY <1>1, <2>1, InHas
  <2> HIDE DEF less, E1
  <2>4. In(more, E2, t3, Q, P, {io})
    <3>1. Q[ndir] \in Alive(t3, {io})
      BY <1>1, <1>2
    <3>2. In(more, Recount(E1, Q[ndir], E1[Q[ndir]].nlink + 1), t3, Q, P, {io})
      BY <1>2, <2>1, <3>1, InMore
    <3> QED
      BY <1>2, <3>2
  <2>5. E2[jn].mode = "dir" /\ 3 + DirCount(E2, t3, jn) <= E2[jn].nlink
    <3> DEFINE k == E1[jn].nlink + 1
    <3>1. k \in Nat /\ E1[jn].nlink \in Nat
      BY <1>1, <2>2 DEF Disks, Info
    <3>2. 2 + DirCount(E1, t3, jn) <= E1[jn].nlink
      BY <1>1, <1>2, <2>2, <2>3 DEF Volume
    <3>3. DirCount(E1, t3, jn) \in Nat
      BY CountsAreNat
    <3>4. 3 + DirCount(E1, t3, jn) <= k
      BY <3>1, <3>2, <3>3
    <3>5. E2 = Recount(E1, jn, k)
      OBVIOUS
    <3> HIDE DEF k, E2
    <3>8. Recount(E1, jn, k)[jn].nlink = k /\ \A x \in Inodes : Recount(E1, jn, k)[x].mode = E1[x].mode
      BY <1>1, <2>2, <3>1, RecountIs
    <3>6. E2[jn].nlink = k /\ \A x \in Inodes : E2[x].mode = E1[x].mode
      BY <3>5, <3>8
    <3>7. DirCount(E2, t3, jn) = DirCount(E1, t3, jn)
      BY <1>1, <2>3, <3>6, DirsByMode
    <3> QED
      BY <1>1, <1>2, <2>2, <3>4, <3>6, <3>7
  <2> HIDE DEF more, E2
  <2>6. In(AddEntry(more, ndir, bn, io), E2, Entry(t3, Q[ndir], bn, io), Q, P, {io} \ {io})
    <3>1. /\ Q[ndir] \in Alive(t3, {io}) /\ E2[Q[ndir]].mode = "dir" /\ t3[Q[ndir]][bn] = 0
          /\ E2[io].mode = "dir" => 3 + DirCount(E2, t3, Q[ndir]) <= E2[Q[ndir]].nlink
      BY <1>1, <1>2, <2>5
    <3> QED
      BY <1>2, <2>4, <3>1, InEnter
  <2>7. counted = AddEntry(more, ndir, bn, io)
    <3>1. Relink(on, odir, -1) = AddEntry(less, ndir, bn, io)
      BY <1>2, <2>3, RelinkEnter DEF less
    <3>2. Relink(AddEntry(less, ndir, bn, io), ndir, 1) = AddEntry(more, ndir, bn, io)
      BY <1>2, <2>3, RelinkEnter DEF more
    <3> QED
      BY <1>5, <3>1, <3>2
  <2>8. In(counted, E2, t4, Q, P, {})
    BY <1>2, <2>6, <2>7
  <2> HIDE DEF counted, t4
  <2> QED
    BY <1>3, <2>8 DEF counted, t4, on, off, t3
<1> QED
  BY <1>4, <1>5

(* rename once the target's name is out of the way.                        *)
MoveEnd(cl, c, oip, odir, ndir, bo, bn, room) ==
    LET held    == <<ndir, odir, oip>>
        off     == RemoveEntry(cl, odir, bo)
        on      == AddEntry(off, ndir, bn, Ino(c, oip))
        counted == IF IsDir(c, oip) /\ odir # ndir
                   THEN Relink(Relink(on, odir, -1), ndir, 1)
                   ELSE on
    IN  IF Lookup(cl, odir, bo) = 0 THEN IputAll(cl, held)
        ELSE IF ~CanAdd(off, ndir, room)
        THEN IputAll(AddEntry(off, odir, bo, Ino(c, oip)), held)
        ELSE IputAll(Iupdate(counted, oip), held)
ThreeHeld(oip, odir, ndir) == Plus(Plus(Plus(P0, oip), odir), ndir)

(* It may end there.                                                       *)
LEMMA MoveEnds ==
    ASSUME FsInv, NEW cl, NEW D, NEW t, NEW Q, NEW oip, NEW odir, NEW ndir, NEW io, NEW jo, NEW jn,
           NEW bo, NEW bn,
           Movable(cl, D, t, Q, ThreeHeld(oip, odir, ndir), oip, odir, ndir, io, jo, jn, bo, bn),
           NamesStep(fs, t), NamesStep(fs, Entry(Entry(t, jo, bo, 0), jn, bn, io)),
           NEW c, Ino(c, oip) = io, IsDir(c, oip) <=> D[io].mode = "dir", NEW room
    PROVE  EndsFor(MoveEnd(cl, c, oip, odir, ndir, bo, bn, room))
<1> DEFINE P == ThreeHeld(oip, odir, ndir)
           t4 == Entry(Entry(t, jo, bo, 0), jn, bn, io)
           off == RemoveEntry(cl, odir, bo)
           back == AddEntry(off, odir, bo, io)
           on == AddEntry(off, ndir, bn, io)
           counted == IF D[io].mode = "dir" /\ odir # ndir
                      THEN Relink(Relink(on, odir, -1), ndir, 1) ELSE on
           all == Iupdate(counted, oip)
           held == <<ndir, odir, oip>>
<1>1. In(cl, D, t, Q, P, {}) /\ oip \in Slots /\ odir \in Slots /\ ndir \in Slots
  BY DEF Movable
<1>2. In(back, D, t, Q, P, {})
  BY MoveBack
<1>3. PICK E : In(all, E, t4, Q, P, {})
  BY MoveOn
<1>4. P = Plus(Plus(Plus(P0, oip), odir), ndir)
  BY DEF ThreeHeld
<1>5. MoveEnd(cl, c, oip, odir, ndir, bo, bn, room) =
          IF Lookup(cl, odir, bo) = 0 THEN IputAll(cl, held)
          ELSE IF ~CanAdd(off, ndir, room) THEN IputAll(back, held)
          ELSE IputAll(all, held)
  BY DEF MoveEnd
<1> HIDE DEF P, t4, back, all
<1>6. EndsFor(IputAll(cl, held))
  BY <1>1, <1>4, PutThreeEnds DEF Done
<1>7. EndsFor(IputAll(back, held))
  BY <1>1, <1>2, <1>4, PutThreeEnds DEF Done
<1>8. EndsFor(IputAll(all, held))
  <2>1. NamesStep(fs, t4)
    BY DEF t4
  <2> QED
    BY <1>1, <1>3, <1>4, <2>1, PutThreeEnds DEF Done
<1> HIDE DEF off, held
<1> QED
  BY <1>5, <1>6, <1>7, <1>8

(* A directory with two links names no directory.                          *)
LEMMA NoSubdirs ==
    ASSUME NEW D, NEW t, NEW X, Volume(D, t, X), NEW i \in Linked(t, X), D[i].mode = "dir",
           D[i].nlink <= 2, NEW n \in Names, t[i][n] # 0
    PROVE  D[t[i][n]].mode # "dir"
<1>1. 2 + DirCount(D, t, i) <= D[i].nlink /\ i \in Inodes /\ D[i].nlink \in Nat
  BY DEF Volume, Linked, Disks, Info
<1>2. DirCount(D, t, i) \in Nat /\ (DirCount(D, t, i) = 0 <=> DirsIn(D, t, i) = {})
  BY CountsAreNat
<1>3. DirCount(D, t, i) = 0
  BY <1>1, <1>2
<1>4. DirsIn(D, t, i) = {}
  BY <1>1, <1>2, <1>3
<1> QED
  BY <1>4 DEF DirsIn

(* What rename finds: the source io under the name bo of jo, and under the *)
(* name bn of jn the target i, which may be replaced.                      *)
Replaceable(c, D, t, Q, P, oip, odir, ndir, nip, io, jo, jn, i, bo, bn) ==
    /\ Over(P) /\ In(c, D, t, Q, Plus(P, nip), {})
    /\ oip \in Slots /\ P[oip] >= 1 /\ Q[oip] = io /\ io \in Inodes
    /\ odir \in Slots /\ P[odir] >= 1 /\ Q[odir] = jo /\ jo \in Linked(t, {}) /\ bo \in Names
    /\ ndir \in Slots /\ P[ndir] >= 1 /\ Q[ndir] = jn /\ jn \in Linked(t, {}) /\ bn \in Names
    /\ nip \in Slots /\ Q[nip] = i /\ i \in Inodes /\ i # io
    /\ t[jo][bo] = io /\ t[jn][bn] = i
    /\ D[i].mode = "dir" => D[io].mode = "dir" /\ D[i].nlink <= 2

(* The target is neither of the two directories.                           *)
LEMMA TargetApart ==
    ASSUME NEW c, NEW D, NEW t, NEW Q, NEW P, NEW oip, NEW odir, NEW ndir, NEW nip,
           NEW io, NEW jo, NEW jn, NEW i, NEW bo, NEW bn,
           Replaceable(c, D, t, Q, P, oip, odir, ndir, nip, io, jo, jn, i, bo, bn)
    PROVE  /\ Volume(D, t, {}) /\ D \in Disks /\ t \in Trees /\ i # 0 /\ jo \in Inodes /\ jn \in Inodes
           /\ jo # i /\ jn # i /\ D[jn].mode = "dir" /\ i \in Linked(t, {})
<1>1. /\ In(c, D, t, Q, Plus(P, nip), {})
      /\ jo \in Linked(t, {}) /\ bo \in Names /\ jn \in Linked(t, {}) /\ bn \in Names
      /\ i \in Inodes /\ io \in Inodes /\ t[jo][bo] = io /\ t[jn][bn] = i
      /\ D[i].mode = "dir" => D[io].mode = "dir" /\ D[i].nlink <= 2
  BY DEF Replaceable
<1>2. /\ Volume(D, t, {}) /\ D \in Disks /\ t \in Trees /\ i # 0 /\ io # 0
      /\ jo \in Inodes /\ jn \in Inodes
  BY <1>1, InHas, CacheAssumption DEF Inodes, Linked
<1>3. D[jn].mode = "dir" /\ i \in Linked(t, {})
  BY <1>1, <1>2, NamedIsAlive
<1>4. D[jo].mode = "dir"
  BY <1>1, <1>2, NamedIsAlive
<1>5. jo # i
  BY <1>1, <1>2, <1>4, NoSubdirs
<1>6. jn # i
  BY <1>1, <1>2, <1>3, NoSubdirs
<1> QED
  BY <1>2, <1>3, <1>5, <1>6

(* Its name and its link are gone.                                         *)
LEMMA TargetCleared ==
    ASSUME NEW c, NEW D, NEW t, NEW Q, NEW P, NEW oip, NEW odir, NEW ndir, NEW nip,
           NEW io, NEW jo, NEW jn, NEW i, NEW bo, NEW bn,
           Replaceable(c, D, t, Q, P, oip, odir, ndir, nip, io, jo, jn, i, bo, bn)
    PROVE  \E D2 : /\ Movable(Iput(Relink(RemoveEntry(c, ndir, bn), nip, -1), nip), D2, Entry(t, jn, bn, 0),
                              Q, P, oip, odir, ndir, io, jo, jn, bo, bn)
                   /\ D2[io].mode = D[io].mode
<1> DEFINE P4 == Plus(P, nip)
           t2 == Entry(t, jn, bn, 0)
           k == D[i].nlink - 1
           D2 == Recount(D, i, k)
           cut == RemoveEntry(c, ndir, bn)
           less == Relink(cut, nip, -1)
           cl == Iput(less, nip)
<1>1. /\ Over(P) /\ In(c, D, t, Q, P4, {})
      /\ oip \in Slots /\ P[oip] >= 1 /\ Q[oip] = io /\ io \in Inodes
      /\ odir \in Slots /\ P[odir] >= 1 /\ Q[odir] = jo /\ jo \in Linked(t, {}) /\ bo \in Names
      /\ ndir \in Slots /\ P[ndir] >= 1 /\ Q[ndir] = jn /\ jn \in Linked(t, {}) /\ bn \in Names
      /\ nip \in Slots /\ Q[nip] = i /\ i \in Inodes /\ i # io
      /\ t[jo][bo] = io /\ t[jn][bn] = i
  BY DEF Replaceable
<1>2. /\ Volume(D, t, {}) /\ D \in Disks /\ t \in Trees /\ i # 0 /\ jo \in Inodes /\ jn \in Inodes
      /\ jo # i /\ jn # i /\ D[jn].mode = "dir" /\ i \in Linked(t, {})
  BY TargetApart
<1>3. P4[ndir] >= 1 /\ P4[nip] >= 1
  BY <1>1, OverPlus
<1>4. In(cut, D, t2, Q, P4, {i})
  <2> HIDE DEF P4
  <2>1. i \notin {} /\ t[Q[ndir]][bn] = i /\ {} \union {i} = {i}
    BY <1>1
  <2>2. In(RemoveEntry(c, ndir, bn), D, Entry(t, Q[ndir], bn, 0), Q, P4, {} \union {i})
    BY <1>1, <1>2, <1>3, <2>1, InClear
  <2> QED
    BY <1>1, <2>1, <2>2
<1>5. jo \in Linked(t2, {}) /\ jn \in Linked(t2, {})
  BY <1>1, <1>2, ClearedNames
<1>6. t2[jn][bn] = 0 /\ t2[jo][bo] = io
  <2>1. 0 \in {0} \union Inodes
    OBVIOUS
  <2>2. t2[jn][bn] = 0
    BY <1>1, <1>2, <2>1, EntryIs
  <2>3. jn # jo \/ bn # bo
    BY <1>1
  <2>4. t2[jo][bo] = t[jo][bo]
    BY <1>1, <1>2, <2>1, <2>3, EntryIs
  <2> QED
    BY <1>1, <2>2, <2>4
<1> HIDE DEF cut, t2
<1>7. In(less, D2, t2, Q, P4, {})
  <2> HIDE DEF P4
  <2>1. Q[nip] \in {i} /\ {i} \ {Q[nip]} = {}
    BY <1>1
  <2>2. In(less, Recount(D, Q[nip], D[Q[nip]].nlink - 1), t2, Q, P4, {i} \ {Q[nip]})
    BY <1>1, <1>3, <1>4, <2>1, InLower
  <2> QED
    BY <1>1, <2>1, <2>2
<1>8. k \in Nat
  <2>1. D[i].nlink \in Nat /\ 1 <= D[i].nlink
    <3>1. i \in Alive(t, {})
      BY <1>2 DEF Linked, Alive
    <3> QED
      BY <1>1, <1>2, <3>1, AliveHasLink DEF Disks, Info
  <2> QED
    BY <2>1
<1> HIDE DEF less, k
<1>9. In(cl, D2, t2, Q, P, {})
  <2> HIDE DEF D2
  <2> QED
    BY <1>1, <1>7, InPut
<1>10. \A x \in Inodes : D2[x].mode = D[x].mode
  BY <1>1, <1>2, <1>8, RecountIs
<1> HIDE DEF cl, D2
<1>11. Movable(cl, D2, t2, Q, P, oip, odir, ndir, io, jo, jn, bo, bn)
  BY <1>1, <1>2, <1>5, <1>6, <1>9, <1>10 DEF Movable
<1>12. D2[io].mode = D[io].mode
  BY <1>1, <1>10
<1> QED
  BY <1>11, <1>12 DEF cl, less, cut, t2

(* The names before, in between and after a rename.                        *)
LEMMA MovedNames ==
    ASSUME FsInv, NEW jo \in Inodes, NEW jn \in Inodes, NEW bo \in Names, NEW bn \in Names,
           NEW io \in Inodes, fs.dirs[jo][bo] = io
    PROVE  /\ NamesStep(fs, Entry(Entry(fs.dirs, jo, bo, 0), jn, bn, io))
           /\ fs.dirs[jn][bn] # 0 => NamesStep(fs, Entry(fs.dirs, jn, bn, 0))
           /\ NamesStep(fs, Entry(Entry(Entry(fs.dirs, jn, bn, 0), jo, bo, 0), jn, bn, io))
<1> DEFINE t == fs.dirs
           u == Entry(Entry(t, jo, bo, 0), jn, bn, io)
<1>1. t \in Trees /\ io # 0
  BY StartBook, CacheAssumption DEF Inodes
<1>2. u = [t EXCEPT ![jo][bo] = 0, ![jn][bn] = t[jo][bo]]
  BY DEF Entry
<1>3. Moved(t, u)
  BY <1>1, <1>2 DEF Moved
<1>4. Entry(Entry(Entry(t, jn, bn, 0), jo, bo, 0), jn, bn, io) = u
  BY <1>1 DEF Entry, Trees
<1>5. t[jn][bn] # 0 => Cleared(t, Entry(t, jn, bn, 0))
  BY DEF Cleared
<1> HIDE DEF u
<1> QED
  BY <1>3, <1>4, <1>5 DEF NamesStep, u

(* rename from the point where everything is held, with a target.          *)
LEMMA ReplaceEnds ==
    ASSUME FsInv, NEW n, NEW Q, NEW oip, NEW odir, NEW ndir, NEW nip,
           NEW io, NEW jo, NEW jn, NEW i, NEW old, NEW new, NEW room,
           Replaceable(n, fs.disk, fs.dirs, Q, ThreeHeld(oip, odir, ndir), oip, odir, ndir, nip,
                       io, jo, jn, i, Base(old), Base(new)),
           Ino(n, oip) = io, IsDir(n, oip) <=> fs.disk[io].mode = "dir"
    PROVE  EndsFor(Move(n, oip, odir, ndir, nip, old, new, room))
<1> DEFINE D == fs.disk
           t == fs.dirs
           P == ThreeHeld(oip, odir, ndir)
           bo == Base(old)
           bn == Base(new)
           t2 == Entry(t, jn, bn, 0)
           cl == Iput(Relink(RemoveEntry(n, ndir, bn), nip, -1), nip)
<1>1. /\ bo \in Names /\ bn \in Names /\ io \in Inodes /\ i \in Inodes /\ nip \in Slots
      /\ t[jo][bo] = io /\ t[jn][bn] = i
  BY DEF Replaceable
<1>2. jo \in Inodes /\ jn \in Inodes /\ i # 0
  BY TargetApart
<1>3. PICK D2 : /\ Movable(cl, D2, t2, Q, P, oip, odir, ndir, io, jo, jn, bo, bn)
                /\ D2[io].mode = D[io].mode
  BY TargetCleared
<1>4. NamesStep(fs, t2) /\ NamesStep(fs, Entry(Entry(t2, jo, bo, 0), jn, bn, io))
  BY <1>1, <1>2, MovedNames
<1>5. nip # Null
  BY <1>1, CacheAssumption DEF Slots
<1>6. Move(n, oip, odir, ndir, nip, old, new, room) = MoveEnd(cl, n, oip, odir, ndir, bo, bn, room)
  BY <1>5 DEF Move, MoveEnd
<1>7. IsDir(n, oip) <=> D2[io].mode = "dir"
  BY <1>3
<1> HIDE DEF cl, t2, bo, bn
<1>8. EndsFor(MoveEnd(cl, n, oip, odir, ndir, bo, bn, room))
  BY <1>3, <1>4, <1>7, MoveEnds
<1> QED
  BY <1>6, <1>8

(* Without one.                                                            *)
LEMMA MoveFreeEnds ==
    ASSUME FsInv, NEW n, NEW Q, NEW oip, NEW odir, NEW ndir,
           NEW io, NEW jo, NEW jn, NEW old, NEW new, NEW room,
           Movable(n, fs.disk, fs.dirs, Q, ThreeHeld(oip, odir, ndir), oip, odir, ndir,
                   io, jo, jn, Base(old), Base(new)),
           Ino(n, oip) = io, IsDir(n, oip) <=> fs.disk[io].mode = "dir"
    PROVE  EndsFor(Move(n, oip, odir, ndir, Null, old, new, room))
<1> DEFINE t == fs.dirs
           bo == Base(old)
           bn == Base(new)
<1>1. /\ bo \in Names /\ bn \in Names /\ io \in Inodes /\ t[jo][bo] = io
      /\ jo \in Linked(t, {}) /\ jn \in Linked(t, {})
  BY DEF Movable
<1>2. jo \in Inodes /\ jn \in Inodes
  BY <1>1 DEF Linked
<1>3. NamesStep(fs, t) /\ NamesStep(fs, Entry(Entry(t, jo, bo, 0), jn, bn, io))
  BY <1>1, <1>2, SameNames, MovedNames
<1>4. Move(n, oip, odir, ndir, Null, old, new, room) = MoveEnd(n, n, oip, odir, ndir, bo, bn, room)
  BY DEF Move, MoveEnd
<1> HIDE DEF bo, bn
<1>5. EndsFor(MoveEnd(n, n, oip, odir, ndir, bo, bn, room))
  BY <1>3, MoveEnds DEF bo, bn
<1> QED
  BY <1>4, <1>5

(* rename when the source, its directory and the new directory are held.   *)
RenameHeld(q, oip, odir, ndir, old, new, room) ==
    LET i    == Lookup(q, ndir, Base(new))
        n    == IF i = 0 THEN [q EXCEPT !.ip = Null] ELSE Iget(q, i)
        nip  == n.ip
        back == IputAll(n, <<ndir, odir, oip>>)
        refused == \/ IsDir(n, nip) /\ (~IsDir(n, oip) \/ n.slot[nip].nlink > 2)
                   \/ Ino(n, nip) = Ino(n, oip)
    IN  IF ~IsDir(q, ndir) THEN IputAll(q, <<ndir, odir, oip>>)
        ELSE IF i # 0 /\ nip = Null THEN back
        ELSE IF nip # Null /\ refused
        THEN IputAll(n, <<nip, ndir, odir, oip>>)
        ELSE Move(n, oip, odir, ndir, nip, old, new, room)

(* What it holds.                                                          *)
Gathered(q, Q, oip, odir, ndir, io, jo, jn, bo, bn) ==
    LET D == fs.disk
        t == fs.dirs
        P == ThreeHeld(oip, odir, ndir)
    IN  /\ In(q, D, t, Q, P, {}) /\ Over(P)
        /\ oip \in Slots /\ P[oip] >= 1 /\ Q[oip] = io /\ io \in Inodes /\ io \in Alive(t, {})
        /\ odir \in Slots /\ P[odir] >= 1 /\ Q[odir] = jo /\ jo \in Linked(t, {}) /\ bo \in Names
        /\ ndir \in Slots /\ P[ndir] >= 1 /\ Q[ndir] = jn /\ jn \in Linked(t, {}) /\ bn \in Names
        /\ t[jo][bo] = io

(* The end of rename from there.                                           *)
LEMMA HeldEnds ==
    ASSUME FsInv, NEW q, NEW Q, NEW oip, NEW odir, NEW ndir, NEW io, NEW jo, NEW jn, NEW old, NEW new,
           NEW room, Gathered(q, Q, oip, odir, ndir, io, jo, jn, Base(old), Base(new))
    PROVE  EndsFor(RenameHeld(q, oip, odir, ndir, old, new, room))
<1> DEFINE D == fs.disk
           t == fs.dirs
           P == ThreeHeld(oip, odir, ndir)
           bo == Base(old)
           bn == Base(new)
           i == Lookup(q, ndir, bn)
           n == IF i = 0 THEN [q EXCEPT !.ip = Null] ELSE Iget(q, i)
           nip == n.ip
           refused == \/ IsDir(n, nip) /\ (~IsDir(n, oip) \/ n.slot[nip].nlink > 2)
                      \/ Ino(n, nip) = Ino(n, oip)
           res == IF ~IsDir(q, ndir) THEN IputAll(q, <<ndir, odir, oip>>)
                  ELSE IF i # 0 /\ nip = Null THEN IputAll(n, <<ndir, odir, oip>>)
                  ELSE IF nip # Null /\ refused THEN IputAll(n, <<nip, ndir, odir, oip>>)
                  ELSE Move(n, oip, odir, ndir, nip, old, new, room)
<1>1. res = RenameHeld(q, oip, odir, ndir, old, new, room)
  BY DEF RenameHeld
<1>2. /\ In(q, D, t, Q, P, {}) /\ Over(P)
      /\ oip \in Slots /\ P[oip] >= 1 /\ Q[oip] = io /\ io \in Inodes /\ io \in Alive(t, {})
      /\ odir \in Slots /\ P[odir] >= 1 /\ Q[odir] = jo /\ jo \in Linked(t, {}) /\ bo \in Names
      /\ ndir \in Slots /\ P[ndir] >= 1 /\ Q[ndir] = jn /\ jn \in Linked(t, {}) /\ bn \in Names
      /\ t[jo][bo] = io
  BY DEF Gathered
<1>3. P = Plus(Plus(Plus(P0, oip), odir), ndir)
  BY DEF ThreeHeld
<1> HIDE DEF D, P, bo, bn
<1>4. /\ Volume(D, t, {}) /\ q \in Layer
      /\ jn \in Alive(t, {}) => /\ IsDir(q, ndir) = (D[jn].mode = "dir")
                                /\ i = IF D[jn].mode = "dir" THEN t[jn][bn] ELSE 0
  BY <1>2, InHas
<1>5. jn \in Alive(t, {}) /\ jn \in Inodes
  BY <1>2 DEF Linked, Alive
<1>6. CASE ~IsDir(q, ndir)
  <2>1. EndsFor(IputAll(q, <<ndir, odir, oip>>))
    BY <1>2, <1>3, PutThreeEnds, SameNames DEF Done
  <2>2. res = IputAll(q, <<ndir, odir, oip>>)
    BY <1>6
  <2> QED
    BY <1>1, <2>1, <2>2
<1>7. CASE IsDir(q, ndir) /\ i = 0
  <2>1. n = [q EXCEPT !.ip = Null] /\ Null \in Slots \union {Null}
    BY <1>7
  <2>2. In(n, D, t, Q, P, {}) /\ nip = Null
    <3>1. Done(q, D, t, Q, P, {})
      BY <1>2 DEF Done
    <3> HIDE DEF n
    <3> QED
      BY <1>2, <1>4, <2>1, <3>1, InIp
  <2> HIDE DEF n
  <2>3. res = Move(n, oip, odir, ndir, Null, old, new, room)
    BY <1>7, <2>2
  <2>4. /\ Ino(n, oip) = io /\ IsDir(n, oip) = (D[io].mode = "dir")
    BY <1>2, <2>2, InHas
  <2>5. t[jn][bn] = 0 /\ D[jn].mode = "dir"
    BY <1>4, <1>5, <1>7
  <2>6. Movable(n, D, t, Q, P, oip, odir, ndir, io, jo, jn, bo, bn)
    BY <1>2, <2>2, <2>5 DEF Movable
  <2>7. EndsFor(Move(n, oip, odir, ndir, Null, old, new, room))
    BY <2>4, <2>6, MoveFreeEnds DEF D, P, bo, bn
  <2> HIDE DEF res
  <2> QED
    BY <1>1, <2>3, <2>7
<1>8. CASE IsDir(q, ndir) /\ i # 0
  <2>1. i \in Alive(t, {}) /\ t[jn][bn] = i /\ D[jn].mode = "dir" /\ i \in Inodes
    <3>1. t[jn][bn] = i /\ D[jn].mode = "dir"
      BY <1>4, <1>5, <1>8
    <3> QED
      <4>1. bn \in Names /\ Volume(D, t, {}) /\ jn \in Inodes /\ t[jn][bn] # 0
        BY <1>2, <1>4, <1>5, <1>8, <3>1
      <4>2. t[jn][bn] \in Inodes /\ t[jn][bn] \in Alive(t, {})
        BY ONLY <4>1, NamedIsAlive
      <4> HIDE DEF i
      <4> QED
        BY <3>1, <4>2
  <2>2. n = Iget(q, i)
    BY <1>8
  <2> HIDE DEF i, n
  <2>3. \/ NotFound(n, D, t, Q, P, {})
        \/ \E R : Taken(n, D, t, Q, P, {}, R, i)
    BY <1>2, <2>1, <2>2, IgetFinds
  <2>4. ASSUME NotFound(n, D, t, Q, P, {}) PROVE EndsFor(res)
    <3>1. EndsFor(IputAll(n, <<ndir, odir, oip>>)) /\ nip = Null
      BY <1>2, <1>3, <2>4, PutThreeEnds, SameNames DEF NotFound
    <3> QED
      BY <1>8, <3>1
  <2>5. ASSUME NEW R, Taken(n, D, t, Q, P, {}, R, i) PROVE EndsFor(res)
    <3> DEFINE P4 == Plus(P, nip)
    <3>1. /\ nip \in Slots /\ nip # Null /\ R[nip] = i
          /\ In(n, D, t, R, P4, {}) /\ Over(P4) /\ P4[nip] >= 1
          /\ R[oip] = io /\ R[odir] = jo /\ R[ndir] = jn /\ P4[oip] >= 1
      BY <1>2, <2>5, TakenHas
    <3>2. /\ Ino(n, oip) = io /\ IsDir(n, oip) = (D[io].mode = "dir")
          /\ Ino(n, nip) = i /\ IsDir(n, nip) = (D[i].mode = "dir") /\ n.slot[nip].nlink = D[i].nlink
          /\ D \in Disks
      <4> HIDE DEF P4, nip
      <4> QED
        BY <1>2, <2>1, <3>1, InHas
    <3> HIDE DEF nip
    <3>3. ASSUME refused PROVE EndsFor(res)
      <4>1. EndsFor(IputAll(n, <<nip, ndir, odir, oip>>))
        BY <1>2, <1>3, <3>1, PutFourEnds, SameNames DEF Done
      <4>2. res = IputAll(n, <<nip, ndir, odir, oip>>)
        BY <1>8, <3>1, <3>3
      <4> QED
        BY <4>1, <4>2
    <3>4. ASSUME ~refused PROVE EndsFor(res)
      <4>1. i # io /\ (D[i].mode = "dir" => D[io].mode = "dir" /\ D[i].nlink <= 2)
        <5>1. D[i].nlink \in Nat
          BY <2>1, <3>2 DEF Disks, Info
        <5>2. i # io
          BY <3>2, <3>4
        <5>3. IsDir(n, nip) => IsDir(n, oip) /\ ~(D[i].nlink > 2)
          BY <3>2, <3>4
        <5>4. ~(D[i].nlink > 2) => D[i].nlink <= 2
          BY <5>1
        <5> HIDE DEF refused
        <5> QED
          BY <3>2, <5>2, <5>3, <5>4
      <4>2. Replaceable(n, D, t, R, P, oip, odir, ndir, nip, io, jo, jn, i, bo, bn)
        BY <1>2, <2>1, <3>1, <4>1 DEF Replaceable
      <4>3. EndsFor(Move(n, oip, odir, ndir, nip, old, new, room))
        BY <3>2, <4>2, ReplaceEnds DEF D, P, bo, bn
      <4>4. res = Move(n, oip, odir, ndir, nip, old, new, room)
        BY <1>8, <3>1, <3>4
      <4> QED
        BY <4>3, <4>4
    <3> QED
      BY <3>3, <3>4
  <2> HIDE DEF res
  <2> QED
    BY <1>1, <2>3, <2>4, <2>5
<1> QED
  BY <1>6, <1>7, <1>8

(* rename.                                                                 *)
LEMMA RenameAllowed ==
    ASSUME FsInv, Absolute, NEW old \in Named, NEW new \in Named, NEW room, Rename(old, new, room)
    PROVE  Allowed
<1> DEFINE D == fs.disk
           t == fs.dirs
           bo == Base(old)
           bn == Base(new)
           o == Namei(fs, old, cwd)
           oip == o.ip
           p == Namei(o, Parent(old), cwd)
           odir == p.ip
           q == Namei(p, Parent(new), cwd)
           ndir == q.ip
           end == RenameHeld(q, oip, odir, ndir, old, new, room)
           res == IF oip = Null THEN o
                  ELSE IF odir = Null THEN Iput(p, oip)
                  ELSE IF ndir = Null THEN IputAll(q, <<odir, oip>>)
                  ELSE end
<1>1. Finish([op |-> "rename", old |-> old, new |-> new], res)
  BY DEF Rename, RenameHeld
<1>2. /\ In(fs, D, t, O0, P0, {}) /\ Over(P0) /\ bo \in Names /\ bn \in Names
      /\ old \in PathSet /\ old.abs /\ old.at # <<>>
      /\ Parent(old) \in PathSet /\ Parent(old).abs
      /\ Parent(new) \in PathSet /\ Parent(new).abs
  BY InStart, PathFacts, NamedType
<1>3. \/ NotFound(o, D, t, O0, P0, {})
      \/ \E R, i : /\ Taken(o, D, t, O0, P0, {}, R, i) /\ i \in Alive(t, {})
                   /\ Leads(t, old.at, Len(old.at), i)
  BY <1>2, NameiFinds
<1> HIDE DEF D, bo, bn, o
<1>4. ASSUME NotFound(o, D, t, O0, P0, {}) PROVE EndsFor(res)
  <2>1. EndsFor(o) /\ res = o
    BY <1>4, DoneEnds, SameNames DEF NotFound
  <2> HIDE DEF res
  <2> QED
    BY <2>1
<1>5. ASSUME NEW R, NEW io, Taken(o, D, t, O0, P0, {}, R, io), io \in Alive(t, {}),
             Leads(t, old.at, Len(old.at), io)
      PROVE  EndsFor(res)
  <2> DEFINE P1 == Plus(P0, oip)
  <2>1. /\ oip \in Slots /\ oip # Null /\ R[oip] = io /\ io \in Inodes /\ io # 0
        /\ In(o, D, t, R, P1, {}) /\ Over(P1) /\ P1[oip] >= 1
    BY <1>2, <1>5, TakenHas
  <2> HIDE DEF oip
  <2>2. \/ NotFound(p, D, t, R, P1, {})
        \/ \E S, j : /\ Taken(p, D, t, R, P1, {}, S, j) /\ j \in Linked(t, {})
                     /\ Leads(t, Parent(old).at, Len(Parent(old).at), j)
    BY <1>2, <2>1, NameiFinds
  <2> HIDE DEF p
  <2>3. ASSUME NotFound(p, D, t, R, P1, {}) PROVE EndsFor(res)
    <3>1. EndsFor(Iput(p, oip)) /\ odir = Null
      BY <2>1, <2>3, PutOneEnds, SameNames DEF NotFound
    <3> QED
      BY <2>1, <3>1
  <2>4. ASSUME NEW S, NEW jo, Taken(p, D, t, R, P1, {}, S, jo), jo \in Linked(t, {}),
               Leads(t, Parent(old).at, Len(Parent(old).at), jo)
        PROVE  EndsFor(res)
    <3> DEFINE P2 == Plus(P1, odir)
    <3>1. /\ odir \in Slots /\ odir # Null /\ S[odir] = jo /\ jo \in Inodes
          /\ In(p, D, t, S, P2, {}) /\ Over(P2) /\ P2[odir] >= 1
          /\ S[oip] = io /\ P2[oip] >= 1
      BY <2>1, <2>4, TakenHas
    <3> HIDE DEF odir
    <3>2. t[jo][bo] = io
      BY <1>2, <1>5, <2>4, ParentLeads DEF bo
    <3>3. \/ NotFound(q, D, t, S, P2, {})
          \/ \E T, j : Taken(q, D, t, S, P2, {}, T, j) /\ j \in Linked(t, {})
      BY <1>2, <3>1, NameiFinds
    <3> HIDE DEF q
    <3>4. ASSUME NotFound(q, D, t, S, P2, {}) PROVE EndsFor(res)
      <4>1. EndsFor(IputAll(q, <<odir, oip>>)) /\ ndir = Null
        BY <2>1, <3>1, <3>4, PutTwoEnds, SameNames DEF NotFound
      <4> QED
        BY <2>1, <3>1, <4>1
    <3>5. ASSUME NEW T, NEW jn, Taken(q, D, t, S, P2, {}, T, jn), jn \in Linked(t, {}) PROVE EndsFor(res)
      <4> DEFINE P3 == Plus(P2, ndir)
      <4>1. /\ ndir \in Slots /\ ndir # Null /\ T[ndir] = jn /\ jn \in Inodes
            /\ In(q, D, t, T, P3, {}) /\ Over(P3) /\ P3[ndir] >= 1
            /\ T[oip] = io /\ P3[oip] >= 1 /\ T[odir] = jo /\ P3[odir] >= 1
        BY <2>1, <3>1, <3>5, TakenHas
      <4> HIDE DEF ndir
      <4>2. P3 = ThreeHeld(oip, odir, ndir)
        BY DEF ThreeHeld
      <4> HIDE DEF P1, P2, P3
      <4>3. Gathered(q, T, oip, odir, ndir, io, jo, jn, bo, bn)
        BY <1>2, <1>5, <2>1, <2>4, <3>1, <3>2, <3>5, <4>1, <4>2 DEF Gathered, D
      <4>4. EndsFor(end)
        BY <4>3, HeldEnds DEF bo, bn
      <4> HIDE DEF end
      <4> QED
        BY <2>1, <3>1, <4>1, <4>4
    <3> HIDE DEF res
    <3> QED
      BY <3>3, <3>4, <3>5
  <2> HIDE DEF res
  <2> QED
    BY <2>2, <2>3, <2>4
<1> HIDE DEF res
<1>6. EndsFor(res)
  BY <1>3, <1>4, <1>5
<1> QED
  BY <1>1, <1>6, FinishAllowed

-----------------------------------------------------------------------------
(* A set of numbers has a least one.                                       *)
LEMMA MinLeast ==
    ASSUME NEW K \in SUBSET Nat, K # {}
    PROVE  Min(K) \in K /\ \A k \in K : Min(K) <= k
<1>1. \E m \in K : \A k \in K : m <= k
  BY LeastNatural
<1> QED
  BY <1>1 DEF Min

(* The file table takes a reference of its own.                            *)
LEMMA InHold ==
    ASSUME NEW c, NEW D, NEW t, NEW Q, NEW P, NEW X, In(c, D, t, Q, P, X),
           NEW s \in Slots, P[s] >= 1
    PROVE  In(Hold(c, s), D, t, Q, Plus(P, s), X) /\ Hold(c, s).ip = c.ip
<1>1. Book(c, D, t, Q, P, X) /\ Agree(O0, Q, P0) /\ Over(P)
  BY DEF In
<1>2. Book(Hold(c, s), D, t, Q, Plus(P, s), X) /\ Hold(c, s).ip = c.ip
  BY <1>1, HoldBook
<1>3. Over(Plus(P, s))
  BY <1>1, OverPlus
<1> QED
  BY <1>1, <1>2, <1>3 DEF In

(* The entry and the descriptor that open and creat take.                  *)
LEMMA FreshEntry ==
    ASSUME FsInv, InUse # Files, FreeFds # {}
    PROVE  /\ NewFile \in Files /\ file[NewFile].ip = Null
           /\ NewFd \in Fds /\ ufd[NewFd] = 0 /\ \A e \in FreeFds : NewFd <= e
<1>1. NewFile \in Files /\ file[NewFile].ip = Null
  <2> DEFINE K == {f \in Files : file[f].ip = Null}
  <2>1. K # {} /\ K \in SUBSET Nat
    BY DEF InUse, Files
  <2> HIDE DEF K
  <2>2. Min(K) \in K
    BY <2>1, MinLeast
  <2> QED
    BY <2>2 DEF K, NewFile
<1>2. FreeFds \in SUBSET Nat
  BY DEF FreeFds, Fds
<1>3. Min(FreeFds) \in FreeFds /\ \A e \in FreeFds : Min(FreeFds) <= e
  BY <1>2, MinLeast
<1> QED
  BY <1>1, <1>3 DEF NewFd, FreeFds

(* The table with a new entry.                                             *)
Opening(f, s) == [f EXCEPT ![NewFile] = [ip |-> s, count |-> 1]]

(* The new entry holds the slot once more.                                 *)
LEMMA OpeningPins ==
    ASSUME FsInv, InUse # Files, FreeFds # {}, NEW s \in Slots
    PROVE  /\ Opening(file, s) \in [Files -> Entries] /\ Opening(file, s)[NewFile].ip = s
           /\ \A x \in Files \ {NewFile} : Opening(file, s)[x] = file[x]
           /\ Pins(Opening(file, s), cwd) = Plus(P0, s)
<1> DEFINE k == NewFile
           g == Opening(file, s)
<1>1. k \in Files /\ file[k].ip = Null /\ file \in [Files -> Entries]
  BY FreshEntry, StartBook
<1>2. g \in [Files -> Entries] /\ g[k].ip = s /\ \A x \in Files \ {k} : g[x] = file[x]
  BY <1>1 DEF Opening, Entries
<1>3. \A x \in Files \ {k} : g[x].ip = file[x].ip
  BY <1>2
<1> HIDE DEF g, k
<1>4. Pins(g, cwd) = Plus(Pins(file, cwd), s)
  BY <1>1, <1>2, <1>3, PinsOpen
<1> QED
  BY <1>2, <1>4 DEF P0, g, k

(* What FileRules sees of a new descriptor.                                *)
LEMMA OpeningRules ==
    ASSUME FsInv, InUse # Files, FreeFds # {}, NEW s \in Slots, NEW i, Ino(fs', s) = i,
           file' = Opening(file, s), ufd' = [ufd EXCEPT ![NewFd] = NewFile],
           \A x \in Slots : P0[x] > 0 => Ino(fs', x) = Ino(fs, x)
    PROVE  Rules!NewEntry(NewFd, NewFile, i)
<1> DEFINE k == NewFile
           d == NewFd
<1>1. /\ k \in Files /\ file[k].ip = Null
      /\ d \in Fds /\ ufd[d] = 0 /\ \A e \in FreeFds : d <= e
  BY FreshEntry
<1>2. Null \notin Slots
  BY CacheAssumption DEF Slots
<1>3. OfAll(fs', file) = OfAll(fs, file)
  BY HeldSame
<1>4. file'[k].ip = s /\ \A x \in Files \ {k} : file'[x] = file[x]
  BY OpeningPins
<1> HIDE DEF k
<1>5. \A x \in Files : Of(file[x].ip)' = IF x = k THEN i ELSE Of(file[x].ip)
  <2>1. \A x \in Files : OfIn(fs', file[x].ip) = OfIn(fs, file[x].ip)
    BY <1>3 DEF OfAll
  <2>2. \A x \in Files : Of(file[x].ip)' = OfIn(fs', file'[x].ip) /\ Of(file[x].ip) = OfIn(fs, file[x].ip)
    BY DEF Of, OfIn
  <2>3. OfIn(fs', s) = i
    BY <1>2 DEF OfIn
  <2> QED
    BY <1>4, <2>1, <2>2, <2>3
<1>6. Of(file[k].ip) = 0
  BY <1>1 DEF Of
<1>7. Rules!IsLowest(d)
  BY <1>1 DEF Rules!IsLowest, Rules!FreeFds, FreeFds
<1> QED
  BY <1>1, <1>5, <1>6, <1>7 DEF Rules!NewEntry, k

(* What open finds or makes: an inode that existed, with its names or with *)
(* none left, or a new one under a new name.                               *)
Fits == InUse # Files /\ FreeFds # {}
OpenNames(t2, i) ==
    \/ t2 = fs.dirs /\ i \in Exists(fs)
    \/ t2 = [fs.dirs EXCEPT ![i] = NoNames] /\ i \in Exists(fs) /\ Fits
    \/ NameAdded(fs.dirs, t2, i) /\ i \notin Exists(fs)
Opens(c) ==
    \E R, i, D2, t2 :
        /\ c.ip \in Slots /\ R[c.ip] = i /\ i \in Inodes
        /\ In(c, D2, t2, R, Plus(P0, c.ip), {})
        /\ OpenNames(t2, i)

(* Open and Create of FileRules.                                           *)
LEMMA OpenRules ==
    ASSUME NEW d \in Fds, NEW k \in Files, NEW i \in Inodes, Rules!NewEntry(d, k, i),
           OpenNames(fs'.dirs, i)
    PROVE  Rules!FdsChange \/ Rules!NamesChange
<1>1. CASE i \in Exists(fs)
  <2>1. Rules!Unnamed \/ Rules!EmptyOut(i)
    BY <1>1 DEF OpenNames, Rules!Unnamed, Rules!EmptyOut, Rules!Empty, NoNames
  <2>2. Rules!Open(d, k, i)
    BY <1>1, <2>1, ExistsIs DEF Rules!Open
  <2> QED
    BY <2>2 DEF Rules!FdsChange
<1>2. CASE i \notin Exists(fs)
  <2>1. PICK e \in Inodes, n \in Names : fs.dirs[e][n] = 0 /\ fs'.dirs = Entry(fs.dirs, e, n, i)
    BY <1>2 DEF OpenNames, NameAdded
  <2>2. Rules!Add(e, n, i)
    BY <2>1 DEF Rules!Add, Entry
  <2>3. Rules!Create(e, n, i)
    BY <1>2, <2>2, ExistsIs DEF Rules!Create
  <2> QED
    BY <2>1, <2>3 DEF Rules!NamesChange
<1> QED
  BY <1>1, <1>2

(* The end of open and creat.                                              *)
LEMMA OpenOnAllowed ==
    ASSUME FsInv, NEW call, NEW c, (c.ip = Null /\ EndsFor(c)) \/ Opens(c),
           NEW keeps, OpenOn(call, c, keeps)
    PROVE  Allowed
<1> DEFINE s == c.ip
           held == Unlock(Hold(c, s), s)
           end == IF keeps THEN held ELSE Iput(held, s)
<1>1. CASE s = Null
  <2>1. Finish(call, c) /\ EndsFor(c)
    BY <1>1, CacheAssumption DEF OpenOn, Opens, Slots
  <2> QED
    BY <2>1, FinishAllowed
<1>2. CASE s # Null
  <2>1. PICK R, i, D2, t2 :
            /\ s \in Slots /\ R[s] = i /\ i \in Inodes
            /\ In(c, D2, t2, R, Plus(P0, s), {})
            /\ OpenNames(t2, i)
    BY <1>2 DEF Opens
  <2>2. Over(P0)
    BY InStart
  <2>3. CASE ~Fits
    <3>1. Finish(call, Iput(c, s))
      BY <1>2, <2>3 DEF OpenOn, Fits
    <3>2. NamesStep(fs, t2)
      BY <2>1, <2>3, SameNames, CreatedNames DEF OpenNames
    <3>3. Done(c, D2, t2, R, Plus(P0, s), {})
      BY <2>1 DEF Done
    <3>4. EndsFor(Iput(c, s))
      BY <2>1, <3>2, <3>3, PutOneEnds
    <3> QED
      BY <3>1, <3>4, FinishAllowed
  <2>4. CASE Fits
    <3> DEFINE P1 == Plus(P0, s)
               f == Opening(file, s)
               u == [ufd EXCEPT ![NewFd] = NewFile]
    <3>1. Return(call, end, f, u, cwd)
      BY <1>2, <2>4 DEF OpenOn, Fits, Opening
    <3>2. Over(P1) /\ P1 \in Counts /\ P1[s] >= 1
      BY <2>1, <2>2, OverPlus
    <3>3. \E P : In(end, D2, t2, R, P, {}) /\ (P = Plus(P1, s) \/ P = P1)
      <4> HIDE DEF s, P1
      <4>1. In(Hold(c, s), D2, t2, R, Plus(P1, s), {})
        BY <2>1, <3>2, InHold DEF P1
      <4>2. In(held, D2, t2, R, Plus(P1, s), {})
        BY <2>1, <4>1, InUnlock
      <4> HIDE DEF held
      <4>3. In(Iput(held, s), D2, t2, R, P1, {})
        BY <2>1, <3>2, <4>2, InPut
      <4> QED
        BY <4>2, <4>3
    <3>4. PICK P : In(end, D2, t2, R, P, {}) /\ (P = Plus(P1, s) \/ P = P1)
      BY <3>3
    <3>5. /\ f \in [Files -> Entries] /\ Pins(f, cwd) = P1
      BY <2>1, <2>4, OpeningPins DEF Fits
    <3>6. \A x \in Slots : P1[x] <= P[x]
      <4> HIDE DEF P1, s
      <4> QED
        BY <3>2, <3>4, PlusMore DEF Counts
    <3> HIDE DEF s, end, f, u
    <3>7. /\ Booked(fs, file, cwd) /\ Agree(InoOf(fs), R, Pins(file, cwd))
          /\ \A x \in Slots : Pins(f, cwd)[x] <= P[x]
          /\ Book(end, D2, t2, R, P, {})
      <4> HIDE DEF P1
      <4> QED
        BY <2>1, <3>4, <3>5, <3>6 DEF FsInv, In, O0, P0
    <3>8. /\ Booked(fs', file', cwd')
          /\ fs'.dirs = t2 /\ file' = f /\ ufd' = u /\ cwd' = cwd
          /\ \A x \in Slots : P[x] > 0 => Ino(fs', x) = R[x]
          /\ \A x \in Slots : Pins(file, cwd)[x] > 0 => R[x] = Ino(fs, x)
      BY <3>1, <3>7, ReturnBooked
    <3>9. P0 \in Counts /\ P \in Counts
      BY <3>2, <3>4, <2>2 DEF Over, In
    <3>10. \A x \in Slots : P0[x] > 0 => Ino(fs', x) = Ino(fs, x)
      <4>1. \A x \in Slots : P0[x] <= P1[x]
        BY <3>2 DEF Over
      <4>2. \A x \in Slots : P0[x] > 0 => P[x] > 0
        <5> HIDE DEF P1
        <5> QED
          BY <3>2, <3>6, <3>9, <4>1 DEF Counts
      <4> QED
        BY <3>8, <4>2 DEF P0
    <3>11. Ino(fs', s) = i
      <4>1. P[s] > 0
        <5> HIDE DEF P1
        <5> QED
          BY <2>1, <3>2, <3>6, <3>9 DEF Counts
      <4> QED
        BY <2>1, <3>8, <4>1
    <3>12. Rules!NewEntry(NewFd, NewFile, i)
      BY <2>1, <2>4, <3>8, <3>10, <3>11, OpeningRules DEF Fits, f, u
    <3>13. Rules!FdsChange \/ Rules!NamesChange
      BY <2>1, <2>4, <3>8, <3>12, OpenRules, FreshEntry DEF Fits
    <3>14. OfIn(fs', cwd') = OfIn(fs, cwd)
      BY <3>8, <3>10, HeldSame
    <3>15. file' \in [Files -> Entries] /\ cwd' \in Slots \union {Null}
      BY <3>5, <3>8, StartBook
    <3> QED
      BY <3>8, <3>13, <3>14, <3>15, RulesNext DEF Allowed
  <2> QED
    BY <2>3, <2>4
<1> QED
  BY <1>1, <1>2

(* A path that leads nowhere is created.                                   *)
LEMMA NodeMade ==
    ASSUME FsInv, Absolute, NEW path \in Paths, NEW n, n = Namei(fs, path, cwd), n.ip = Null,
           NotFound(n, fs.disk, fs.dirs, O0, P0, {}), NEW room,
           NEW r, r = CreateNode(n, path, "file", room)
    PROVE  (r.ip = Null /\ EndsFor(r)) \/ Opens(r)
<1>1. /\ path \in PathSet /\ path.abs /\ Parent(path) \in PathSet /\ Parent(path).abs
      /\ Good(fs, {}, {}) /\ fs.spin = "no"
  BY PathFacts, StartGood
<1>2. Good(n, {}, {})
  <2> DEFINE U == Live(file, cwd)
  <2>1. Good(fs, U, {}) /\ U \in SUBSET Slots /\ cwd \in U \union {Null}
    BY DEF FsInv, TypeInv, Live, Tables
  <2> HIDE DEF U
  <2>2. Got(n, U, {})
    BY <1>1, <2>1, NameiGood
  <2>3. Good(n, U, {})
    BY <2>1, <2>2, GotCases
  <2>4. {} \in SUBSET U /\ {} \subseteq {}
    OBVIOUS
  <2> QED
    BY <2>3, <2>4, GoodMono
<1>3. path.at = <<>> => Namei(n, Parent(path), cwd).ip = Null
  <2>1. CASE n.spin = "no"
    BY <1>1, <1>2, RootAgain
  <2>2. CASE n.spin # "no"
    BY <1>1, <1>2, <2>2, NameiStuck
  <2> QED
    BY <2>1, <2>2
<1>4. Done(n, fs.disk, fs.dirs, O0, P0, {})
  BY DEF NotFound
<1>5. (r.ip = Null /\ EndsFor(r)) \/ Created(r)
  BY <1>2, <1>3, <1>4, CreateNodeBook
<1>6. Created(r) => Opens(r)
  BY DEF Created, Opens, OpenNames
<1> QED
  BY <1>5, <1>6

(* An inode that is found and fetched.                                     *)
FoundAt(n, R, i) == /\ Taken(n, fs.disk, fs.dirs, O0, P0, {}, R, i)
                    /\ i \in Alive(fs.dirs, {}) /\ i \in Exists(fs)

(* A path leads nowhere, or its inode is fetched and exists.               *)
LEMMA PathFound ==
    ASSUME FsInv, Absolute, NEW path \in Paths, NEW n, n = Namei(fs, path, cwd)
    PROVE  \/ NotFound(n, fs.disk, fs.dirs, O0, P0, {}) /\ n.ip = Null /\ EndsFor(n)
           \/ n.ip # Null /\ \E R, i : FoundAt(n, R, i)
<1> DEFINE D == fs.disk
           t == fs.dirs
<1>1. In(fs, D, t, O0, P0, {}) /\ Over(P0) /\ path \in PathSet /\ path.abs
  BY InStart, PathFacts
<1>2. \/ NotFound(n, D, t, O0, P0, {})
      \/ \E R, i : Taken(n, D, t, O0, P0, {}, R, i) /\ i \in Alive(t, {})
  BY <1>1, NameiFinds
<1>3. Alive(t, {}) \subseteq Exists(fs)
  BY <1>1, ExistsBook DEF In
<1> HIDE DEF D, t
<1>4. ASSUME NotFound(n, D, t, O0, P0, {}) PROVE n.ip = Null /\ EndsFor(n)
  <2>1. n.ip = Null /\ Done(n, D, t, O0, P0, {})
    BY <1>4 DEF NotFound
  <2>2. NamesStep(fs, t)
    BY SameNames DEF t
  <2> QED
    BY <2>1, <2>2, DoneEnds
<1>5. ASSUME NEW R, NEW i, Taken(n, D, t, O0, P0, {}, R, i), i \in Alive(t, {}) 
      PROVE  n.ip # Null /\ \E S, j : FoundAt(n, S, j)
  <2>1. n.ip # Null
    BY <1>5, CacheAssumption DEF Taken, Slots
  <2>2. FoundAt(n, R, i)
    BY <1>3, <1>5 DEF FoundAt, D, t
  <2> QED
    BY <2>1, <2>2
<1> QED
  BY <1>2, <1>4, <1>5 DEF D, t

(* It is let go, opened, or emptied and opened.                            *)
LEMMA FoundEnds ==
    ASSUME FsInv, NEW n, NEW R, NEW i, FoundAt(n, R, i)
    PROVE  /\ EndsFor(Iput(n, n.ip)) /\ Opens(n)
           /\ Fits => Opens([n EXCEPT !.dirs[Ino(n, n.ip)] = NoNames])
<1> DEFINE D == fs.disk
           t == fs.dirs
           s == n.ip
           P1 == Plus(P0, s)
           cut == [n EXCEPT !.dirs[Ino(n, s)] = NoNames]
           t2 == [t EXCEPT ![i] = NoNames]
<1>1. /\ s \in Slots /\ s # Null /\ i \in Inodes /\ R[s] = i
      /\ In(n, D, t, R, P1, {}) /\ Over(P1) /\ P1[s] >= 1
  BY InStart, TakenHas DEF FoundAt
<1>2. i \in Exists(fs)
  BY DEF FoundAt
<1>3. EndsFor(Iput(n, s))
  BY <1>1, PutOneEnds, SameNames DEF Done
<1>4. Opens(n)
  BY <1>1, <1>2 DEF Opens, OpenNames
<1>5. ASSUME Fits PROVE Opens(cut)
  <2>1. Ino(n, s) = i /\ Agree(O0, R, P0) /\ Book(n, D, t, R, P1, {})
    <3> HIDE DEF P1, D, t
    <3> QED
      BY <1>1, InHas DEF In
  <2>2. Book(cut, D, t2, R, P1, {}) /\ cut.ip = s
    <3> DEFINE r == [n EXCEPT !.dirs[i] = NoNames]
    <3>1. Book(r, D, t2, R, P1, {}) /\ r.ip = n.ip
      <4> HIDE DEF P1, D
      <4> QED
        BY <1>1, <2>1, EmptyBook
    <3>2. cut = r
      BY <2>1
    <3> HIDE DEF cut, r
    <3> QED
      BY <3>1, <3>2
  <2>3. In(cut, D, t2, R, P1, {})
    BY <1>1, <2>1, <2>2 DEF In
  <2>4. OpenNames(t2, i)
    BY <1>2, <1>5 DEF OpenNames
  <2> HIDE DEF cut, t2
  <2> QED
    BY <1>1, <2>2, <2>3, <2>4 DEF Opens
<1> QED
  BY <1>3, <1>4, <1>5

(* open.                                                                   *)
LEMMA OpenAllowed ==
    ASSUME FsInv, Absolute, NEW path \in Paths, NEW flag, NEW room, Open(path, flag, room)
    PROVE  Allowed
<1> DEFINE n == Namei(fs, path, cwd)
           s == n.ip
           call == [op |-> "open", new |-> path]
           made == CreateNode(n, path, "file", room)
           cut == [n EXCEPT !.dirs[Ino(n, s)] = NoNames]
<1>1. \/ s = Null /\ OpenOn(call, made, TRUE)
      \/ s # Null /\ Finish(call, Iput(n, s))
      \/ s # Null /\ Fits /\ OpenOn(call, cut, TRUE)
      \/ OpenOn(call, n, TRUE)
  BY DEF Open, Fits
<1>2. \/ NotFound(n, fs.disk, fs.dirs, O0, P0, {}) /\ s = Null /\ EndsFor(n)
      \/ s # Null /\ \E R, i : FoundAt(n, R, i)
  BY PathFound
<1>3. CASE NotFound(n, fs.disk, fs.dirs, O0, P0, {}) /\ s = Null /\ EndsFor(n)
  <2>1. (made.ip = Null /\ EndsFor(made)) \/ Opens(made)
    BY <1>3, NodeMade
  <2> HIDE DEF call, n, made
  <2> QED
    BY <1>1, <1>3, <2>1, OpenOnAllowed
<1>4. CASE s # Null /\ \E R, i : FoundAt(n, R, i)
  <2>1. PICK R, i : FoundAt(n, R, i)
    BY <1>4
  <2>2. EndsFor(Iput(n, s)) /\ Opens(n) /\ (Fits => Opens(cut))
    BY <2>1, FoundEnds
  <2> HIDE DEF call, n, made, cut
  <2> QED
    BY <1>1, <1>4, <2>2, OpenOnAllowed, FinishAllowed
<1> QED
  BY <1>2, <1>3, <1>4

(* creat.                                                                  *)
LEMMA CreatAllowed ==
    ASSUME FsInv, Absolute, NEW path \in Named, NEW room, Creat(path, room)
    PROVE  Allowed
<1> DEFINE n == Namei(fs, path, cwd)
           s == n.ip
           call == [op |-> "creat", new |-> path]
           made == CreateNode(n, path, "file", room)
<1>1. \/ s = Null /\ OpenOn(call, made, FALSE)
      \/ s # Null /\ Finish(call, Iput(n, s))
      \/ s # Null /\ OpenOn(call, n, FALSE)
  BY DEF Creat
<1>2. path \in Paths
  BY NamedType
<1>3. \/ NotFound(n, fs.disk, fs.dirs, O0, P0, {}) /\ s = Null /\ EndsFor(n)
      \/ s # Null /\ \E R, i : FoundAt(n, R, i)
  BY <1>2, PathFound
<1>4. CASE NotFound(n, fs.disk, fs.dirs, O0, P0, {}) /\ s = Null /\ EndsFor(n)
  <2>1. (made.ip = Null /\ EndsFor(made)) \/ Opens(made)
    BY <1>2, <1>4, NodeMade
  <2> HIDE DEF call, n, made
  <2> QED
    BY <1>1, <1>4, <2>1, OpenOnAllowed
<1>5. CASE s # Null /\ \E R, i : FoundAt(n, R, i)
  <2>1. PICK R, i : FoundAt(n, R, i)
    BY <1>5
  <2>2. EndsFor(Iput(n, s)) /\ Opens(n)
    BY <2>1, FoundEnds
  <2> HIDE DEF call, n, made
  <2> QED
    BY <1>1, <1>5, <2>2, OpenOnAllowed, FinishAllowed
<1> QED
  BY <1>3, <1>4, <1>5

-----------------------------------------------------------------------------
(* Slots that stay held stay with their inodes.                            *)
LEMMA HeldAlso ==
    ASSUME NEW f \in [Files -> Entries], NEW w \in Slots \union {Null},
           \A s \in Slots : Pins(f, w)[s] > 0 => Ino(fs', s) = Ino(fs, s)
    PROVE  OfAll(fs', f) = OfAll(fs, f) /\ OfIn(fs', w) = OfIn(fs, w)
<1>1. ASSUME NEW x \in Files PROVE OfIn(fs', f[x].ip) = OfIn(fs, f[x].ip)
  <2>1. f[x].ip \in Slots => Pins(f, w)[f[x].ip] > 0
    BY PinsType
  <2>2. f[x].ip \in Slots \union {Null}
    BY DEF Entries
  <2> QED
    BY <2>1, <2>2 DEF OfIn
<1>2. OfIn(fs', w) = OfIn(fs, w)
  BY PinsType DEF OfIn
<1> QED
  BY <1>1, <1>2 DEF OfAll

(* A call that changes the tables and leaves names and inodes alone.       *)
Retabled(f, u, w) ==
    /\ Booked(fs', file', cwd')
    /\ fs'.dirs = fs.dirs /\ file' = f /\ ufd' = u /\ cwd' = w
    /\ OfAll(fs', file') = OfAll(fs, f) /\ OfIn(fs', cwd') = OfIn(fs, w)

(* A call that leaves the books in order for the new tables did that.      *)
LEMMA ReturnTables ==
    ASSUME FsInv, NEW call, NEW c, NEW f \in [Files -> Entries], NEW u, NEW w \in Slots \union {Null},
           Return(call, c, f, u, w), NEW P, Book(c, fs.disk, fs.dirs, O0, P, {}),
           \A s \in Slots : Pins(f, w)[s] <= P[s]
    PROVE  Retabled(f, u, w)
<1>1. Booked(fs, file, cwd) /\ Agree(InoOf(fs), O0, Pins(file, cwd))
  BY DEF FsInv, O0, Agree
<1>2. /\ Booked(fs', file', cwd')
      /\ fs'.dirs = fs.dirs /\ file' = f /\ ufd' = u /\ cwd' = w
      /\ \A s \in Slots : P[s] > 0 => Ino(fs', s) = O0[s]
  BY <1>1, ReturnBooked
<1>3. \A s \in Slots : Pins(f, w)[s] > 0 => Ino(fs', s) = Ino(fs, s)
  <2>1. Pins(f, w) \in Counts /\ P \in Counts
    BY PinsType, BookFields
  <2>2. \A s \in Slots : Pins(f, w)[s] > 0 => P[s] > 0
    BY <2>1 DEF Counts
  <2>3. \A s \in Slots : O0[s] = Ino(fs, s)
    BY DEF O0, InoOf, Ino
  <2> QED
    BY <1>2, <2>2, <2>3
<1>4. OfAll(fs', f) = OfAll(fs, f) /\ OfIn(fs', w) = OfIn(fs, w)
  BY <1>3, HeldAlso
<1> QED
  BY <1>2, <1>4 DEF Retabled

(* What FileRules has to say of it. *)
LEMMA RetabledAllowed ==
    ASSUME FsInv, NEW f \in [Files -> Entries], NEW u, Retabled(f, u, cwd),
           Rules!Unnamed => Rules!NoChange \/ Rules!FdsChange
    PROVE  Allowed
<1>1. file' \in [Files -> Entries] /\ cwd' \in Slots \union {Null}
  BY StartBook DEF Retabled
<1>2. Rules!Unnamed
  BY DEF Retabled, Rules!Unnamed
<1> QED
  BY <1>1, <1>2, RulesNext DEF Retabled, Allowed

(* An entry that one descriptor stands for has no other.                   *)
LEMMA LastFd ==
    ASSUME FsInv, NEW d \in Fds, ufd[d] # 0
    PROVE  /\ ufd[d] \in Files /\ file[ufd[d]].ip \in Slots /\ file[ufd[d]].count \in Nat
           /\ file[ufd[d]].count > 1 <=> ~Rules!Gone(d, ufd[d])
<1> DEFINE k == ufd[d]
           S == FdSet(ufd, k)
<1>1. Tables(file, ufd, cwd) /\ file \in [Files -> Entries]
  BY StartBook
<1>2. k \in Files /\ d \in S
  BY <1>1 DEF Tables, FdSet
<1>3. file[k].count = Cardinality(S) /\ file[k].ip # Null /\ file[k] \in Entries
  BY <1>1, <1>2 DEF Tables
<1>4. IsFiniteSet(S) /\ Cardinality(S) \in Nat
  BY FdsFinite
<1>5. Rules!Gone(d, k) <=> S \ {d} = {}
  BY DEF Rules!Gone, FdSet
<1> HIDE DEF S
<1>6. IsFiniteSet(S \ {d}) /\ Cardinality(S \ {d}) = Cardinality(S) - 1
  BY <1>2, <1>4, FS_RemoveElement
<1>7. S \ {d} = {} <=> Cardinality(S \ {d}) = 0
  BY <1>6, FS_EmptySet
<1>8. Cardinality(S \ {d}) \in Nat
  BY <1>6, FS_CardinalityType
<1>9. file[k].count > 1 <=> ~Rules!Gone(d, k)
  BY <1>3, <1>4, <1>5, <1>6, <1>7, <1>8
<1>10. file[k].ip \in Slots /\ file[k].count \in Nat
  BY <1>3 DEF Entries
<1> QED
  BY <1>2, <1>9, <1>10

(* What a close leaves, of the layer and of the table.                     *)
Closes(c, f, d) ==
    /\ f \in [Files -> Entries]
    /\ Book(c, fs.disk, fs.dirs, O0, Pins(f, cwd), {})
    /\ OfAll(fs, f) = Rules!After(d)

(* close.c: the last descriptor of an entry lets its inode go.             *)
LEMMA DropCloses ==
    ASSUME FsInv, NEW d \in Fds, ufd[d] # 0
    PROVE  Closes(Drop(d).c, Drop(d).file, d)
<1> DEFINE k == ufd[d]
           s == file[k].ip
           of == [x \in Files |-> Of(file[x].ip)]
<1>1. /\ k \in Files /\ s \in Slots /\ file[k].count \in Nat
      /\ file[k].count > 1 <=> ~Rules!Gone(d, k)
  BY LastFd
<1>2. file \in [Files -> Entries] /\ Book(fs, fs.disk, fs.dirs, O0, P0, {}) /\ P0 = Pins(file, cwd)
  BY StartBook DEF P0
<1>3. OfAll(fs, file) = of
  BY DEF OfAll, OfIn, Of
<1>4. Rules!After(d) = IF Rules!Gone(d, k) THEN [of EXCEPT ![k] = 0] ELSE of
  BY DEF Rules!After
<1>5. CASE file[k].count > 1
  <2> DEFINE f == [file EXCEPT ![k].count = @ - 1]
  <2>1. Drop(d).c = fs /\ Drop(d).file = f
    BY <1>5 DEF Drop
  <2>2. f \in [Files -> Entries] /\ \A x \in Files : f[x].ip = file[x].ip
    <3>1. file[k].count - 1 \in Nat
      BY <1>1, <1>5
    <3> QED
      BY <1>1, <1>2, <3>1 DEF Entries
  <2> HIDE DEF f
  <2>3. Pins(f, cwd) = Pins(file, cwd)
    BY <2>2, PinsSame
  <2>4. OfAll(fs, f) = OfAll(fs, file)
    BY <2>2 DEF OfAll
  <2> QED
    BY <1>1, <1>2, <1>3, <1>4, <1>5, <2>1, <2>2, <2>3, <2>4 DEF Closes
<1>6. CASE ~(file[k].count > 1)
  <2> DEFINE f == [file EXCEPT ![k] = Closed]
  <2>1. Drop(d).c = Iput(fs, s) /\ Drop(d).file = f
    BY <1>6 DEF Drop
  <2>2. f \in [Files -> Entries] /\ f[k].ip = Null /\ \A x \in Files \ {k} : f[x].ip = file[x].ip
    BY <1>1, <1>2 DEF Entries, Closed
  <2> HIDE DEF f
  <2>3. Pins(file, cwd) = Plus(Pins(f, cwd), s)
    <3>1. \A x \in Files \ {k} : file[x].ip = f[x].ip
      BY <2>2
    <3> HIDE DEF k
    <3> QED
      BY <1>1, <2>2, <3>1, PinsOpen
  <2>4. Book(Iput(fs, s), fs.disk, fs.dirs, O0, Pins(f, cwd), {})
    <3> DEFINE P == Pins(f, cwd)
    <3>1. P \in Counts /\ Book(fs, fs.disk, fs.dirs, O0, Plus(P, s), {})
      BY <1>2, <2>3, PinsType
    <3> HIDE DEF P, s
    <3>2. Book(Iput(fs, s), fs.disk, fs.dirs, O0, P, {})
      BY <1>1, <3>1, PutBack
    <3> QED
      BY <3>2 DEF P
  <2>5. OfAll(fs, f) = [of EXCEPT ![k] = 0]
    <3>1. \A x \in Files : OfIn(fs, f[x].ip) = IF x = k THEN 0 ELSE Of(file[x].ip)
      BY <2>2 DEF OfIn, Of
    <3> QED
      BY <3>1 DEF OfAll
  <2> QED
    BY <1>1, <1>4, <1>6, <2>1, <2>2, <2>4, <2>5 DEF Closes
<1> QED
  BY <1>5, <1>6

(* close.                                                                  *)
LEMMA CloseAllowed ==
    ASSUME FsInv, NEW d \in Fds, Close(d)
    PROVE  Allowed
<1> DEFINE c == Drop(d).c
           f == Drop(d).file
           u == [ufd EXCEPT ![d] = 0]
<1>1. ufd[d] # 0 /\ Return([op |-> "close"], c, f, u, cwd)
  BY DEF Close
<1>2. Closes(c, f, d) /\ cwd \in Slots \union {Null}
  BY <1>1, DropCloses, StartBook
<1> HIDE DEF c, f, u
<1>3. Pins(f, cwd) \in Counts /\ \A s \in Slots : Pins(f, cwd)[s] <= Pins(f, cwd)[s]
  BY PinsType DEF Counts
<1>4. Retabled(f, u, cwd)
  BY <1>1, <1>2, <1>3, ReturnTables DEF Closes
<1>5. ASSUME Rules!Unnamed PROVE Rules!FdsChange
  <2>1. OfAll(fs', file') = Rules!After(d) /\ ufd' = u
    BY <1>2, <1>4 DEF Retabled, Closes
  <2>2. [x \in Files |-> Of(file[x].ip)]' = Rules!After(d)
    BY <2>1 DEF OfAll, OfIn, Of
  <2>3. Rules!Close(d)
    BY <1>1, <1>5, <2>1, <2>2 DEF Rules!Close, u
  <2> QED
    BY <2>3 DEF Rules!FdsChange
<1> QED
  BY <1>2, <1>4, <1>5, RetabledAllowed DEF Closes

(* A descriptor more for an entry.                                         *)
Shared(f, k) == [f EXCEPT ![k].count = @ + 1]

(* The entry stands for the same inode, held as often as before.           *)
LEMMA SharedIs ==
    ASSUME NEW f \in [Files -> Entries], NEW k \in Files
    PROVE  /\ Shared(f, k) \in [Files -> Entries] /\ OfAll(fs, Shared(f, k)) = OfAll(fs, f)
           /\ \A w : Pins(Shared(f, k), w) = Pins(f, w)
<1> DEFINE g == Shared(f, k)
<1>1. g \in [Files -> Entries] /\ \A x \in Files : g[x].ip = f[x].ip
  <2>1. f[k].count + 1 \in Nat
    BY DEF Entries
  <2> QED
    BY <2>1 DEF Shared, Entries
<1> HIDE DEF g
<1>2. OfAll(fs, g) = OfAll(fs, f)
  BY <1>1 DEF OfAll
<1>3. \A w : Pins(g, w) = Pins(f, w)
  BY <1>1, PinsSame
<1> QED
  BY <1>1, <1>2, <1>3 DEF g

(* A descriptor comes to stand for the entry of another.                   *)
LEMMA Duplicated ==
    ASSUME FsInv, NEW d \in Fds, NEW e \in Fds, d # e, ufd[d] # 0, NEW c, NEW f, Closes(c, f, e),
           NEW call, Return(call, c, Shared(f, ufd[d]), [ufd EXCEPT ![e] = ufd[d]], cwd)
    PROVE  Allowed
<1> DEFINE g == Shared(f, ufd[d])
           u == [ufd EXCEPT ![e] = ufd[d]]
<1>1. f \in [Files -> Entries] /\ ufd[d] \in Files /\ cwd \in Slots \union {Null}
  BY LastFd, StartBook DEF Closes
<1>2. g \in [Files -> Entries] /\ OfAll(fs, g) = OfAll(fs, f) /\ Pins(g, cwd) = Pins(f, cwd)
  BY <1>1, SharedIs
<1>3. Pins(f, cwd) \in Counts /\ \A s \in Slots : Pins(g, cwd)[s] <= Pins(f, cwd)[s]
  BY <1>2, PinsType DEF Counts
<1>4. Return(call, c, g, u, cwd)
  OBVIOUS
<1> HIDE DEF g, u
<1>5. Retabled(g, u, cwd)
  BY <1>1, <1>2, <1>3, <1>4, ReturnTables DEF Closes
<1>6. ASSUME Rules!Unnamed PROVE Rules!FdsChange
  <2>1. OfAll(fs', file') = Rules!After(e) /\ ufd' = u
    BY <1>2, <1>5 DEF Retabled, Closes
  <2>2. [x \in Files |-> Of(file[x].ip)]' = Rules!After(e)
    BY <2>1 DEF OfAll, OfIn, Of
  <2>3. Rules!Dup(d, e)
    BY <1>6, <2>1, <2>2 DEF Rules!Dup, u
  <2> QED
    BY <2>3 DEF Rules!FdsChange
<1> QED
  BY <1>2, <1>5, <1>6, RetabledAllowed

(* A descriptor that stands for nothing closes nothing.                    *)
LEMMA NothingCloses ==
    ASSUME FsInv, NEW e \in Fds, ufd[e] = 0
    PROVE  Closes(fs, file, e)
<1>1. file \in [Files -> Entries] /\ Book(fs, fs.disk, fs.dirs, O0, Pins(file, cwd), {})
  BY StartBook DEF P0
<1>2. OfAll(fs, file) = Rules!After(e)
  BY DEF Rules!After, OfAll, OfIn, Of
<1> QED
  BY <1>1, <1>2 DEF Closes

(* dup and F_DUPFD.                                                        *)
LEMMA DupAllowed ==
    ASSUME FsInv, NEW d \in Fds, NEW min \in Fds, Dup(d, min)
    PROVE  Allowed
<1> DEFINE free == {e \in FreeFds : e >= min}
           e == Min(free)
<1>1. /\ ufd[d] # 0 /\ free # {}
      /\ Return([op |-> "dup"], fs, Shared(file, ufd[d]), [ufd EXCEPT ![e] = ufd[d]], cwd)
  BY DEF Dup, Shared
<1>2. e \in free
  <2>1. free \in SUBSET Nat
    BY DEF FreeFds, Fds
  <2> HIDE DEF free
  <2> QED
    BY <1>1, <2>1, MinLeast
<1>3. e \in Fds /\ ufd[e] = 0
  BY <1>2 DEF FreeFds
<1> HIDE DEF e
<1>4. Closes(fs, file, e) /\ d # e
  BY <1>1, <1>3, NothingCloses
<1> QED
  BY <1>1, <1>3, <1>4, Duplicated

(* dup2 and dup3.                                                          *)
LEMMA Dup2Allowed ==
    ASSUME FsInv, NEW d \in Fds, NEW e \in Fds, Dup2(d, e)
    PROVE  Allowed
<1> DEFINE before == IF ufd[e] = 0 THEN [c |-> fs, file |-> file] ELSE Drop(e)
           c == before.c
           f == before.file
<1>1. /\ ufd[d] # 0 /\ d # e
      /\ Return([op |-> "dup2"], c, Shared(f, ufd[d]), [ufd EXCEPT ![e] = ufd[d]], cwd)
  BY DEF Dup2, Shared
<1>2. Closes(c, f, e)
  <2>1. CASE ufd[e] = 0
    BY <2>1, NothingCloses
  <2>2. CASE ufd[e] # 0
    BY <2>2, DropCloses
  <2> QED
    BY <2>1, <2>2
<1> HIDE DEF c, f
<1> QED
  BY <1>1, <1>2, Duplicated

(* What holds when the current directory has been exchanged.               *)
LEMMA CwdPins ==
    ASSUME FsInv, NEW c, NEW D, NEW t, NEW R, NEW s \in Slots, Book(c, D, t, R, Plus(P0, s), {}),
           NEW end, end = IF cwd \in {Null, s} THEN c ELSE Iput(c, cwd)
    PROVE  \E P : /\ Book(end, D, t, R, P, {}) /\ P \in Counts /\ P[s] > 0
                  /\ \A x \in Slots : Pins(file, s)[x] <= P[x]
                  /\ \A x \in Slots : Pins(file, Null)[x] <= P[x] /\ Pins(file, Null)[x] <= P0[x]
<1> DEFINE B == Pins(file, Null)
<1>1. /\ B \in Counts /\ P0 \in Counts /\ Pins(file, s) = Plus(B, s) /\ cwd \in Slots \union {Null}
      /\ P0 = Pins(file, cwd)
  BY PinsType, StartBook, PinsCwd DEF P0
<1> HIDE DEF B
<1>2. CASE cwd = Null
  <2>1. P0 = B
    BY <1>1, <1>2 DEF B
  <2>2. Plus(B, s) \in Counts /\ Plus(B, s)[s] >= 1 /\ \A x \in Slots : B[x] <= Plus(B, s)[x]
    BY <1>1, PlusMore
  <2>3. end = c
    BY <1>2
  <2> QED
    BY <1>1, <2>1, <2>2, <2>3 DEF Counts, B
<1>3. CASE cwd = s
  <2>1. P0 = Plus(B, s)
    BY <1>1, <1>3
  <2>2. Plus(B, s) \in Counts /\ Plus(B, s)[s] >= 1 /\ \A x \in Slots : B[x] <= Plus(B, s)[x]
    BY <1>1, PlusMore
  <2>3. /\ Plus(P0, s) \in Counts /\ Plus(P0, s)[s] >= 1
        /\ \A x \in Slots : P0[x] <= Plus(P0, s)[x]
    BY <1>1, PlusMore
  <2>4. end = c
    BY <1>3
  <2>5. \A x \in Slots : B[x] <= Plus(P0, s)[x]
    BY <1>1, <2>1, <2>2, <2>3 DEF Counts
  <2> QED
    BY <1>1, <2>1, <2>2, <2>3, <2>4, <2>5 DEF Counts, B
<1>4. CASE cwd \notin {Null, s}
  <2>1. cwd \in Slots /\ end = Iput(c, cwd)
    BY <1>1, <1>4
  <2>2. P0 = Plus(B, cwd)
    BY <1>1, <2>1, PinsCwd DEF B
  <2>3. Book(end, D, t, R, Plus(B, s), {})
    BY <1>1, <2>1, <2>2, PutBackOther
  <2>4. /\ Plus(B, s) \in Counts /\ Plus(B, s)[s] >= 1 /\ \A x \in Slots : B[x] <= Plus(B, s)[x]
        /\ \A x \in Slots : B[x] <= P0[x]
    BY <1>1, <2>2, PlusMore
  <2> QED
    BY <1>1, <2>3, <2>4 DEF Counts, B
<1> QED
  BY <1>1, <1>2, <1>3, <1>4

(* The end of chdir and fchdir.                                            *)
LEMMA CwdAllowed ==
    ASSUME FsInv, NEW call, NEW c, NEW R, NEW s \in Slots,
           In(c, fs.disk, fs.dirs, R, Plus(P0, s), {}), R[s] \in Exists(fs),
           Return(call, IF cwd \in {Null, s} THEN c ELSE Iput(c, cwd), file, ufd, s)
    PROVE  Allowed
<1> DEFINE end == IF cwd \in {Null, s} THEN c ELSE Iput(c, cwd)
           D == fs.disk
           t == fs.dirs
<1>1. Book(c, D, t, R, Plus(P0, s), {}) /\ Agree(O0, R, P0)
  BY DEF In
<1>2. Return(call, end, file, ufd, s)
  OBVIOUS
<1>3. PICK P : /\ Book(end, D, t, R, P, {}) /\ P \in Counts /\ P[s] > 0
               /\ \A x \in Slots : Pins(file, s)[x] <= P[x]
               /\ \A x \in Slots : Pins(file, Null)[x] <= P[x] /\ Pins(file, Null)[x] <= P0[x]
  <2> HIDE DEF D, t
  <2> QED
    BY <1>1, CwdPins
<1>4. Booked(fs, file, cwd) /\ Agree(InoOf(fs), R, Pins(file, cwd))
  BY <1>1 DEF FsInv, O0, P0
<1> HIDE DEF end
<1>5. /\ Booked(fs', file', cwd')
      /\ fs'.dirs = t /\ file' = file /\ ufd' = ufd /\ cwd' = s
      /\ \A x \in Slots : P[x] > 0 => Ino(fs', x) = R[x]
      /\ \A x \in Slots : P0[x] > 0 => R[x] = Ino(fs, x)
  <2> HIDE DEF D, t
  <2> QED
    BY <1>2, <1>3, <1>4, ReturnBooked DEF P0
<1>6. file \in [Files -> Entries] /\ P0 \in Counts /\ Pins(file, Null) \in Counts
  BY StartBook, PinsType
<1>7. \A x \in Slots : Pins(file, Null)[x] > 0 => Ino(fs', x) = Ino(fs, x)
  <2>1. \A x \in Slots : Pins(file, Null)[x] > 0 => P[x] > 0 /\ P0[x] > 0
    BY <1>3, <1>6 DEF Counts
  <2> QED
    BY <1>5, <2>1
<1>8. OfAll(fs', file') = OfAll(fs, file)
  BY <1>5, <1>6, <1>7, HeldAlso
<1>9. Rules!NoFds
  BY <1>5, <1>8, SameFds
<1>10. Of(cwd)' \in {i \in Inodes : Inode(i).nlink > 0 \/ \E x \in Slots : Ino(fs, x) = i /\ Held(x)}
  <2>1. Of(cwd)' = Ino(fs', s)
    BY <1>5, CacheAssumption DEF Of, Slots
  <2>2. Ino(fs', s) = R[s]
    BY <1>3, <1>5
  <2> QED
    BY <2>1, <2>2, ExistsIs
<1>11. Rules!Chdir
  BY <1>5, <1>9, <1>10 DEF Rules!Chdir, Rules!Unnamed
<1>12. file' \in [Files -> Entries] /\ cwd' \in Slots \union {Null}
  BY <1>5, <1>6
<1>13. Rules!Next
  BY <1>5, <1>11, <1>12, UsedStays DEF Rules!Next
<1> QED
  BY <1>5, <1>13 DEF Allowed

(* chdir.                                                                  *)
LEMMA ChdirAllowed ==
    ASSUME FsInv, Absolute, NEW path \in Paths, Chdir(path)
    PROVE  Allowed
<1> DEFINE n == Namei(fs, path, cwd)
           s == n.ip
           free == Unlock(n, s)
           call == [op |-> "chdir", new |-> path]
<1>1. \/ s = Null /\ Finish(call, n)
      \/ s # Null /\ Finish(call, Iput(n, s))
      \/ s # Null /\ Return(call, IF cwd \in {Null, s} THEN free ELSE Iput(free, cwd), file, ufd, s)
  BY DEF Chdir
<1>2. \/ NotFound(n, fs.disk, fs.dirs, O0, P0, {}) /\ s = Null /\ EndsFor(n)
      \/ s # Null /\ \E R, i : FoundAt(n, R, i)
  BY PathFound
<1>3. CASE s = Null
  <2> HIDE DEF call, n
  <2> QED
    BY <1>1, <1>2, <1>3, FinishAllowed
<1>4. CASE s # Null
  <2>1. PICK R, i : FoundAt(n, R, i)
    BY <1>2, <1>4
  <2>2. EndsFor(Iput(n, s))
    BY <2>1, FoundEnds
  <2>3. s \in Slots /\ R[s] = i /\ i \in Exists(fs) /\ In(n, fs.disk, fs.dirs, R, Plus(P0, s), {})
    BY <2>1 DEF FoundAt, Taken
  <2> HIDE DEF n, s
  <2>4. In(free, fs.disk, fs.dirs, R, Plus(P0, s), {})
    BY <2>3, InUnlock
  <2> HIDE DEF free, call
  <2> QED
    BY <1>1, <1>4, <2>2, <2>3, <2>4, CwdAllowed, FinishAllowed
<1> QED
  BY <1>3, <1>4

(* fchdir.                                                                 *)
LEMMA FchdirAllowed ==
    ASSUME FsInv, NEW d \in Fds, Fchdir(d)
    PROVE  Allowed
<1> DEFINE s == file[ufd[d]].ip
           held == Hold(fs, s)
<1>1. /\ ufd[d] # 0
      /\ Return([op |-> "fchdir"], IF cwd \in {Null, s} THEN held ELSE Iput(held, cwd), file, ufd, s)
  BY DEF Fchdir
<1>2. ufd[d] \in Files /\ s \in Slots
  BY <1>1, LastFd
<1>3. P0[s] > 0 /\ P0 \in Counts
  BY <1>2, PinsType DEF P0
<1>4. In(fs, fs.disk, fs.dirs, O0, P0, {})
  BY InStart
<1> HIDE DEF s
<1>5. P0[s] >= 1
  BY <1>2, <1>3 DEF Counts
<1>6. In(held, fs.disk, fs.dirs, O0, Plus(P0, s), {})
  BY <1>2, <1>4, <1>5, InHold
<1>7. O0[s] \in Exists(fs)
  <2>1. Book(fs, fs.disk, fs.dirs, O0, P0, {})
    BY <1>4 DEF In
  <2> QED
    BY <1>2, <1>3, <2>1, ExistsBook
<1> HIDE DEF held
<1> QED
  BY <1>1, <1>2, <1>6, <1>7, CwdAllowed

-----------------------------------------------------------------------------
(* The two least of a set of numbers.                                      *)
LEMMA TwoLeast ==
    ASSUME NEW K \in SUBSET Nat, IsFiniteSet(K), Cardinality(K) >= 2, NEW m, m = Min(K),
           NEW n, n = Min(K \ {m})
    PROVE  /\ m \in K /\ n \in K /\ m # n /\ m < n
           /\ \A k \in K : m <= k
           /\ \A k \in K \ {m} : n <= k
<1>1. Cardinality(K) \in Nat
  BY FS_CardinalityType
<1>2. K # {}
  BY <1>1, FS_EmptySet
<1>3. m \in K /\ \A k \in K : m <= k
  BY <1>2, MinLeast
<1>4. Cardinality(K \ {m}) = Cardinality(K) - 1 /\ IsFiniteSet(K \ {m})
  BY <1>3, FS_RemoveElement
<1>5. K \ {m} # {} /\ K \ {m} \in SUBSET Nat
  <2>1. Cardinality(K \ {m}) # 0
    BY <1>1, <1>4
  <2> QED
    BY <2>1, FS_EmptySet
<1>6. n \in K \ {m} /\ \A k \in K \ {m} : n <= k
  <2> DEFINE J == K \ {m}
  <2>1. J # {} /\ J \in SUBSET Nat /\ n = Min(J)
    BY <1>5
  <2> HIDE DEF J
  <2>2. Min(J) \in J /\ \A k \in J : Min(J) <= k
    BY <2>1, MinLeast
  <2> QED
    BY <2>1, <2>2 DEF J
<1>7. m < n
  <2>1. m <= n /\ m # n /\ m \in Nat /\ n \in Nat
    BY <1>3, <1>6
  <2> QED
    BY <2>1
<1> QED
  BY <1>3, <1>6, <1>7

(* A count of references is set: as many as are held, at least.            *)
LEMMA BookRef ==
    ASSUME NEW c, NEW D, NEW t, NEW O, NEW P, NEW X, Book(c, D, t, O, P, X),
           NEW s \in Slots, P[s] >= 1, NEW n \in Nat, n >= P[s] + 1
    PROVE  LET r == [c EXCEPT !.slot[s].ref = n]
           IN  Book(r, D, t, O, Plus(P, s), X) /\ r.ip = c.ip
<1> DEFINE f == c.slot
           g == [f EXCEPT ![s].ref = n]
           r == [c EXCEPT !.slot[s].ref = n]
<1>1. /\ c \in Layer /\ f \in Slotted /\ c.list \in Seq(Slots) /\ c.spin = "no"
      /\ c.ip \in Slots \union {Null} /\ P \in Counts
      /\ Kept(f, c.list, c.win, D, t, O, P, X)
  BY BookFields
<1>2. /\ g \in Slotted /\ g[s].ref = n
      /\ \A u \in Slots : g[u].ino = f[u].ino /\ g[u].mode = f[u].mode /\ g[u].nlink = f[u].nlink
      /\ \A u \in Slots \ {s} : g[u] = f[u]
  BY <1>1 DEF Slotted, Slot
<1>3. r = WithSlots(c, g, c.list, c.ip)
  BY <1>1 DEF Layer, WithSlots
<1>4. f[s].ref # 0 /\ P[s] \in Nat /\ n # 0
  <2>1. P[s] <= f[s].ref /\ P[s] \in Nat /\ f[s].ref \in Nat
    BY <1>1 DEF Kept, Pinned, Counts, Slotted, Slot
  <2> QED
    BY <2>1
<1> HIDE DEF f, g, r
<1>5. FreeList(g, c.list)
  BY <1>1, <1>2, <1>4 DEF Kept, FreeList
<1>6. OneSlot(g) /\ Fresh(g, D, t, X)
  BY <1>1, <1>2 DEF Kept, OneSlot, Fresh
<1>7. Offers(g, c.win, t, X)
  <2>1. \A k \in 1..Len(c.win), u \in Slots : g[u].ino = c.win[k] => g[u].ref = 0
    BY <1>1, <1>2, <1>4 DEF Kept, Offers
  <2> QED
    BY <1>1, <2>1 DEF Kept, Offers
<1>8. Pinned(g, O, P)
  <2>1. \A u \in Slots : P[u] <= g[u].ref
    BY <1>1, <1>2, <1>4 DEF Kept, Pinned
  <2> QED
    BY <1>1, <1>2, <2>1 DEF Kept, Pinned
<1>9. Kept(g, c.list, c.win, D, t, O, P, X)
  BY <1>5, <1>6, <1>7, <1>8 DEF Kept
<1>10. Book(r, D, t, O, P, X) /\ r.slot = g /\ r.ip = c.ip
  BY <1>1, <1>2, <1>3, <1>9, BookSlot
<1>11. f[s].ino = O[s] /\ O[s] \in Inodes /\ f[s].mode # "free" /\ O[s] # 0
  BY PinInfo DEF Ino, f
<1>12. P[s] < r.slot[s].ref /\ Ino(r, s) = O[s] /\ r.slot[s].mode # "free"
  BY <1>2, <1>4, <1>10, <1>11 DEF Ino
<1>13. Book(r, D, t, Put(O, s, O[s]), Plus(P, s), X)
  BY <1>10, <1>11, <1>12, BookPin
<1>14. Put(O, s, O[s]) = O
  BY BookFields DEF Put, Owners
<1> QED
  BY <1>10, <1>13, <1>14 DEF r

(* The references are not what is written.                                 *)
WithRefs(c, s, n) == [c EXCEPT !.slot[s].ref = n]

(* They can be set before or after the inode is written to the disk.       *)
LEMMA RefsUpdate ==
    ASSUME NEW c \in Layer, c.spin = "no", NEW s \in Slots, NEW n \in Nat
    PROVE  WithRefs(Iupdate(c, s), s, n) = Iupdate(WithRefs(c, s, n), s)
<1> DEFINE g == [c.slot EXCEPT ![s].ref = n]
           f == WithRefs(c, s, n)
           e == [mode |-> c.slot[s].mode, nlink |-> c.slot[s].nlink]
           d == [c.disk EXCEPT ![c.slot[s].ino] = e]
<1>1. f = [c EXCEPT !.slot = g] /\ c.slot \in Slotted
  BY DEF Layer, WithRefs
<1>2. g \in Slotted /\ g[s].ino = c.slot[s].ino /\ g[s].mode = c.slot[s].mode /\ g[s].nlink = c.slot[s].nlink
  BY <1>1 DEF Slotted, Slot
<1>3. Iupdate(c, s) = [c EXCEPT !.disk = d]
  BY DEF Iupdate, Ino, Layer
<1>4. WithRefs(Iupdate(c, s), s, n) = [[c EXCEPT !.disk = d] EXCEPT !.slot = g]
  <2> HIDE DEF d
  <2> QED
    BY <1>3 DEF WithRefs, Layer
<1> HIDE DEF g
<1>5. f.spin = "no" /\ f.slot = g /\ f.disk = c.disk
  BY <1>1 DEF Layer
<1> HIDE DEF f
<1>6. Iupdate(f, s) = [f EXCEPT !.disk = d]
  BY <1>2, <1>5 DEF Iupdate, Ino
<1>7. [f EXCEPT !.disk = d] = [[c EXCEPT !.disk = d] EXCEPT !.slot = g]
  BY <1>1 DEF Layer
<1> QED
  BY <1>4, <1>6, <1>7 DEF f

(* An inode without a name, and no directory, gets links.                  *)
LEMMA LinksBook ==
    ASSUME NEW c, NEW D, NEW t, NEW O, NEW P, NEW X, Book(c, D, t, O, P, X),
           NEW s \in Slots, P[s] >= 1, NEW i, i = O[s], c.slot[s].mode = D[i].mode,
           D[i].mode \notin {"free", "dir"}, NEW k \in Nat, NameCount(t, i) + Spare(X, i) <= k
    PROVE  /\ Book(Iupdate(WithLinks(c, s, k), s), Recount(D, i, k), t, O, P, X)
           /\ Iupdate(WithLinks(c, s, k), s).ip = c.ip
<1> DEFINE r == Iupdate([c EXCEPT !.slot[s].nlink = k], s)
<1>1. i \in Inodes /\ Volume(D, t, X)
  BY PinInfo, BookFields
<1>2. X \in SUBSET (Inodes \ {Root}) /\ \A j \in Inodes \ {i} : j \in X <=> j \in X
  BY <1>1 DEF Volume
<1>3. Volume([D EXCEPT ![i].nlink = k], t, X)
  BY <1>1, <1>2, VolumeRecount
<1>4. Alive(t, X) \subseteq Alive(t, X) \union {O[s]}
  OBVIOUS
<1> HIDE DEF r
<1>5. Book(r, [D EXCEPT ![O[s]].nlink = k], t, O, P, X) /\ r.ip = c.ip
  BY <1>3, <1>4, BookCount DEF r
<1> QED
  BY <1>5 DEF r, WithLinks, Recount

(* The inode of a pipe: one link, no name, and two references.             *)
LEMMA PipeBook ==
    ASSUME FsInv, NEW a, NEW i, NEW R, NEW t, t = fs.dirs, NEW ip, ip = a.ip,
           Taken(a, Given(fs.disk, i, "file"), t, O0, P0, {}, R, i), fs.disk[i].mode = "free",
           i \notin Alive(t, {}), NameCount(t, i) = 0, a.slot[ip].mode = "file",
           NEW made, made = Unlock(Iupdate(WithRefs(WithLinks(a, ip, 1), ip, 2), ip), ip)
    PROVE  /\ ip \in Slots /\ i \in Inodes /\ R[ip] = i /\ i \notin Exists(fs)
           /\ \E D2 : In(made, D2, t, R, Plus(Plus(P0, ip), ip), {})
<1> DEFINE D1 == Given(fs.disk, i, "file")
           D2 == Recount(D1, i, 1)
           P1 == Plus(P0, ip)
           one == WithLinks(a, ip, 1)
           put == Iupdate(one, ip)
           two == WithRefs(put, ip, 2)
<1>1. /\ ip \in Slots /\ i \in Inodes /\ R[ip] = i /\ In(a, D1, t, R, P1, {})
      /\ Over(P1) /\ P1[ip] >= 1 /\ Agree(O0, R, P0)
  <2>1. /\ ip \in Slots /\ i \in Inodes /\ R[ip] = i /\ In(a, D1, t, R, P1, {}) /\ Agree(O0, R, P0)
    BY DEF Taken
  <2>2. Over(P0)
    BY InStart
  <2>3. Over(P1) /\ P1[ip] >= 1
    BY <2>1, <2>2, OverPlus
  <2> QED
    BY <2>1, <2>3
<1>2. i \notin Exists(fs) /\ \A s \in Slots : P0[s] > 0 => O0[s] \in Exists(fs)
  BY <1>1, StartBook, ExistsBook
<1>3. P0 \in Counts /\ P0[ip] = 0
  <2>1. P0 \in Counts
    BY StartBook
  <2>2. ~(P0[ip] > 0)
    BY <1>1, <1>2 DEF Agree
  <2> QED
    BY <1>1, <2>1, <2>2 DEF Counts
<1>4. P1[ip] = 1
  BY <1>1, <1>3 DEF Plus
<1>5. D1[i].mode = "file" /\ D1 \in Disks /\ D2[i].mode = "file"
  <2>1. fs.disk \in Disks
    BY InStart, InHas
  <2> QED
    BY <1>1, <2>1, ClaimedIs DEF Modes
<1> HIDE DEF P1, D1
<1>6. Book(a, D1, t, R, P1, {}) /\ a \in Layer /\ a.spin = "no" /\ Ino(a, ip) = i
  BY <1>1, InHas DEF In
<1>7. NameCount(t, i) + Spare({}, i) <= 1 /\ 1 \in Nat /\ 2 \in Nat
  BY DEF Spare
<1>8. Book(put, D2, t, R, P1, {}) /\ put.ip = a.ip
  <2>1. D1[i].mode \notin {"free", "dir"} /\ a.slot[ip].mode = D1[i].mode /\ i = R[ip]
    BY <1>1, <1>5
  <2> QED
    BY <1>1, <1>6, <1>7, <2>1, LinksBook
<1>9. two = Iupdate(WithRefs(one, ip, 2), ip)
  <2>1. one \in Layer /\ one.spin = "no"
    <3> DEFINE g == [a.slot EXCEPT ![ip].nlink = 1]
    <3>1. a \in Layer /\ a.spin = "no" /\ a.slot \in Slotted
      BY <1>6 DEF Layer
    <3>2. one = [a EXCEPT !.slot = g]
      BY <3>1 DEF Layer, WithLinks
    <3>3. g \in Slotted
      BY <1>1, <1>7, <3>1 DEF Slotted, Slot
    <3> HIDE DEF g, one
    <3> QED
      BY <3>1, <3>2, <3>3 DEF Layer
  <2> HIDE DEF one
  <2> QED
    BY <1>1, <1>7, <2>1, RefsUpdate
<1> HIDE DEF D2, put, one, two
<1>10. Book(two, D2, t, R, Plus(P1, ip), {})
  <2>1. 2 >= P1[ip] + 1
    BY <1>4
  <2>2. Book([put EXCEPT !.slot[ip].ref = 2], D2, t, R, Plus(P1, ip), {})
    BY <1>1, <1>7, <1>8, <2>1, BookRef
  <2> QED
    BY <2>2 DEF two, WithRefs
<1>11. Book(made, D2, t, R, Plus(P1, ip), {})
  BY <1>1, <1>9, <1>10, UnlockBook DEF one
<1>12. Over(Plus(P1, ip))
  BY <1>1, OverPlus
<1> QED
  BY <1>1, <1>2, <1>11, <1>12 DEF In, P1

(* Room for a pipe: two entries and two descriptors, the lowest ones.      *)
Pair(r, w, rfd, wfd) ==
    /\ r \in Files /\ w \in Files /\ r # w /\ file[r].ip = Null /\ file[w].ip = Null
    /\ rfd \in Fds /\ wfd \in Fds /\ rfd < wfd /\ ufd[rfd] = 0 /\ ufd[wfd] = 0
    /\ \A x \in FreeFds : rfd <= x
    /\ \A x \in FreeFds \ {rfd} : wfd <= x

(* Where two entries and two descriptors are free, there is room.          *)
LEMMA PairFree ==
    ASSUME Cardinality(Files \ InUse) >= 2, Cardinality(FreeFds) >= 2,
           NEW r, r = NewFile, NEW w, w = Min({f \in Files : file[f].ip = Null} \ {r}),
           NEW rfd, rfd = NewFd, NEW wfd, wfd = Min(FreeFds \ {rfd})
    PROVE  Pair(r, w, rfd, wfd)
<1> DEFINE K == {f \in Files : file[f].ip = Null}
           F == FreeFds
<1>1. IsFiniteSet(Files) /\ Files \subseteq Nat /\ IsFiniteSet(Fds) /\ Fds \subseteq Nat
  BY FS_Interval, CallAssumption DEF Files, Fds
<1>2. K = Files \ InUse /\ K \subseteq Files /\ F \subseteq Fds
  BY DEF InUse, FreeFds
<1> HIDE DEF K, F
<1>3. IsFiniteSet(K) /\ IsFiniteSet(F) /\ K \in SUBSET Nat /\ F \in SUBSET Nat
  BY <1>1, <1>2, FS_Subset
<1>4. r = Min(K) /\ w = Min(K \ {r}) /\ rfd = Min(F) /\ wfd = Min(F \ {rfd})
  BY DEF NewFile, NewFd, K, F
<1>5. r \in K /\ w \in K /\ r # w
  BY <1>2, <1>3, <1>4, TwoLeast
<1>6. Cardinality(F) >= 2
  BY DEF F
<1>7. /\ rfd \in F /\ wfd \in F /\ rfd < wfd
      /\ \A x \in F : rfd <= x
      /\ \A x \in F \ {rfd} : wfd <= x
  BY <1>3, <1>4, <1>6, TwoLeast
<1> QED
  BY <1>5, <1>7 DEF Pair, K, F, FreeFds

(* The table with the two entries.                                         *)
Piped(f, r, w, s) == [x \in Files |-> IF x \in {r, w} THEN [ip |-> s, count |-> 1] ELSE f[x]]

(* The two entries hold the slot twice.                                    *)
LEMMA PipedPins ==
    ASSUME FsInv, NEW r, NEW w, NEW rfd, NEW wfd, Pair(r, w, rfd, wfd), NEW s \in Slots
    PROVE  /\ Piped(file, r, w, s) \in [Files -> Entries]
           /\ Pins(Piped(file, r, w, s), cwd) = Plus(Plus(P0, s), s)
<1> DEFINE e == [ip |-> s, count |-> 1]
           f == [file EXCEPT ![r] = e]
           g == Piped(file, r, w, s)
<1>1. file \in [Files -> Entries] /\ e \in Entries /\ e.ip = s
  BY StartBook DEF Entries
<1>2. r \in Files /\ w \in Files /\ r # w /\ file[r].ip = Null /\ file[w].ip = Null
  BY DEF Pair
<1> HIDE DEF e
<1>3. f \in [Files -> Entries] /\ f[r] = e /\ \A x \in Files \ {r} : f[x] = file[x]
  BY <1>1, <1>2
<1>4. g \in [Files -> Entries] /\ g[w] = e /\ \A x \in Files \ {w} : g[x] = f[x]
  BY <1>1, <1>2, <1>3 DEF Piped, e
<1>5. \A x \in Files \ {r} : f[x].ip = file[x].ip
  BY <1>3
<1>6. \A x \in Files \ {w} : g[x].ip = f[x].ip
  BY <1>4
<1> HIDE DEF f, g
<1>7. Pins(f, cwd) = Plus(Pins(file, cwd), s)
  BY <1>1, <1>2, <1>3, <1>5, PinsOpen
<1>8. Pins(g, cwd) = Plus(Pins(f, cwd), s)
  BY <1>1, <1>2, <1>3, <1>4, <1>6, PinsOpen
<1> QED
  BY <1>4, <1>7, <1>8 DEF P0, g

(* What FileRules sees of it.                                              *)
LEMMA PipeRules ==
    ASSUME FsInv, NEW r, NEW w, NEW rfd, NEW wfd, Pair(r, w, rfd, wfd), NEW s \in Slots,
           NEW i \in Inodes, i \notin Exists(fs), Ino(fs', s) = i,
           file' = Piped(file, r, w, s), ufd' = [ufd EXCEPT ![rfd] = r, ![wfd] = w], fs'.dirs = fs.dirs,
           \A x \in Slots : P0[x] > 0 => Ino(fs', x) = Ino(fs, x)
    PROVE  Rules!FdsChange
<1> DEFINE of == [x \in Files |-> Of(file[x].ip)]
<1>1. OfAll(fs', file) = OfAll(fs, file)
  BY HeldSame
<1>2. \A x \in Files : Of(file[x].ip)' = IF x \in {r, w} THEN i ELSE Of(file[x].ip)
  <2>1. \A x \in Files : OfIn(fs', file[x].ip) = OfIn(fs, file[x].ip)
    BY <1>1 DEF OfAll
  <2>2. \A x \in Files : Of(file[x].ip)' = OfIn(fs', file'[x].ip) /\ Of(file[x].ip) = OfIn(fs, file[x].ip)
    BY DEF Of, OfIn
  <2>3. OfIn(fs', s) = i
    BY CacheAssumption DEF OfIn, Slots
  <2>4. \A x \in Files : file'[x].ip = IF x \in {r, w} THEN s ELSE file[x].ip
    BY DEF Piped
  <2> QED
    BY <2>1, <2>2, <2>3, <2>4
<1>3. of' = [of EXCEPT ![r] = i, ![w] = i] /\ of[r] = 0 /\ of[w] = 0
  <2>1. r \in Files /\ w \in Files /\ file[r].ip = Null /\ file[w].ip = Null
    BY DEF Pair
  <2>2. Of(file[r].ip) = 0 /\ Of(file[w].ip) = 0
    BY <2>1 DEF Of
  <2> QED
    BY <1>2, <2>1, <2>2
<1>4. /\ rfd < wfd /\ r # w /\ rfd \in Fds /\ wfd \in Fds /\ r \in Files /\ w \in Files
      /\ Rules!IsLowest(rfd) /\ wfd \in Rules!FreeFds /\ \A x \in Rules!FreeFds \ {rfd} : wfd <= x
  BY DEF Pair, Rules!IsLowest, Rules!FreeFds, FreeFds
<1>5. Rules!Unnamed
  BY DEF Rules!Unnamed
<1>6. i \notin {j \in Inodes : Inode(j).nlink > 0 \/ \E x \in Slots : Ino(fs, x) = j /\ Held(x)}
  BY ExistsIs
<1>8. ufd' = [ufd EXCEPT ![rfd] = r, ![wfd] = w]
  OBVIOUS
<1>9. of = [f \in Files |-> Of(file[f].ip)]
  OBVIOUS
<1> HIDE DEF of
<1>10. /\ rfd < wfd /\ r # w /\ of[r] = 0 /\ of[w] = 0
       /\ Rules!IsLowest(rfd) /\ \A x \in Rules!FreeFds \ {rfd} : wfd <= x
       /\ wfd \in Rules!FreeFds
       /\ ufd' = [ufd EXCEPT ![rfd] = r, ![wfd] = w]
       /\ of' = [of EXCEPT ![r] = i, ![w] = i]
  BY <1>3, <1>4, <1>8
<1>11. \E d, e \in Fds, f, g \in Files :
          /\ d < e /\ f # g /\ of[f] = 0 /\ of[g] = 0
          /\ Rules!IsLowest(d) /\ \A x \in Rules!FreeFds \ {d} : e <= x
          /\ e \in Rules!FreeFds
          /\ ufd' = [ufd EXCEPT ![d] = f, ![e] = g]
          /\ of' = [of EXCEPT ![f] = i, ![g] = i]
  BY ONLY <1>4, <1>10
<1>7. Rules!Pipe(i)
  BY ONLY <1>11, <1>5, <1>6, <1>9 DEF Rules!Pipe, of
<1> QED
  BY <1>7 DEF Rules!FdsChange

(* pipe.                                                                   *)
LEMMA PipeAllowed ==
    ASSUME FsInv, Pipe
    PROVE  Allowed
<1> DEFINE D    == fs.disk
           t    == fs.dirs
           a    == Ialloc(fs, "file")
           ip   == a.ip
           one  == WithLinks(a, ip, 1)
           made == Unlock(Iupdate(WithRefs(one, ip, 2), ip), ip)
           r    == NewFile
           w    == Min({f \in Files : file[f].ip = Null} \ {r})
           rfd  == NewFd
           wfd  == Min(FreeFds \ {rfd})
           call == [op |-> "pipe"]
           f    == Piped(file, r, w, ip)
           u    == [ufd EXCEPT ![rfd] = r, ![wfd] = w]
<1>1. \/ ip = Null /\ Finish(call, a)
      \/ ip # Null /\ Finish(call, Iput(one, ip))
      \/ /\ ip # Null /\ Cardinality(Files \ InUse) >= 2 /\ Cardinality(FreeFds) >= 2
         /\ Return(call, made, f, u, cwd)
  <2>1. IsFiniteSet(Files) /\ IsFiniteSet(Fds)
    BY FS_Interval, CallAssumption DEF Files, Fds
  <2>2. Files \ InUse \subseteq Files /\ FreeFds \subseteq Fds
    BY DEF FreeFds
  <2>3. Cardinality(Files \ InUse) \in Nat /\ Cardinality(FreeFds) \in Nat
    BY <2>1, <2>2, FS_Subset, FS_CardinalityType
  <2> QED
    BY <2>3 DEF Pipe, Piped, WithLinks, WithRefs
<1>2. In(fs, D, t, O0, P0, {}) /\ Over(P0)
  BY InStart
<1>3. \/ NotFound(a, D, t, O0, P0, {})
      \/ \E R, i : /\ Taken(a, Given(D, i, "file"), t, O0, P0, {}, R, i) /\ D[i].mode = "free"
                   /\ i \notin Alive(t, {}) /\ NameCount(t, i) = 0 /\ t[i] = NoNames /\ i # Root
                   /\ a.slot[a.ip].mode = "file"
  <2>1. "file" \in Modes \ {"free"}
    BY DEF Modes
  <2> QED
    BY <1>2, <2>1, IallocFinds
<1> HIDE DEF D, a, call
<1>4. CASE NotFound(a, D, t, O0, P0, {})
  <2>1. ip = Null /\ EndsFor(a)
    BY <1>4, DoneEnds, SameNames DEF NotFound
  <2> QED
    BY <1>1, <2>1, FinishAllowed
<1>5. ASSUME NEW R, NEW i, Taken(a, Given(D, i, "file"), t, O0, P0, {}, R, i), D[i].mode = "free",
             i \notin Alive(t, {}), NameCount(t, i) = 0, a.slot[a.ip].mode = "file"
      PROVE  Allowed
  <2> DEFINE D1 == Given(D, i, "file")
             P1 == Plus(P0, ip)
  <2>1. /\ ip \in Slots /\ ip # Null /\ R[ip] = i /\ In(a, D1, t, R, P1, {})
        /\ Over(P1) /\ P1[ip] >= 1 /\ Agree(O0, R, P0)
    <3>1. ip \in Slots /\ R[ip] = i /\ In(a, D1, t, R, P1, {}) /\ Agree(O0, R, P0)
      BY <1>5 DEF Taken
    <3>2. ip # Null
      BY <3>1, CacheAssumption DEF Slots
    <3>3. Over(P1) /\ P1[ip] >= 1
      BY <1>2, <3>1, OverPlus
    <3> QED
      BY <3>1, <3>2, <3>3
  <2>2. EndsFor(Iput(one, ip))
    <3> HIDE DEF D1, ip
    <3>1. 1 \in Nat /\ R[ip] \notin Alive(t, {})
      BY <1>5, <2>1
    <3>2. In([a EXCEPT !.slot[ip].nlink = 1], D1, t, R, P1, {})
      <4> HIDE DEF P1, t
      <4> QED
        BY <2>1, <3>1, InCore
    <3>3. Done(one, D1, t, R, P1, {})
      BY <3>2 DEF Done, WithLinks
    <3> HIDE DEF one
    <3> QED
      BY <2>1, <3>3, PutOneEnds, SameNames
  <2>3. /\ ip \in Slots /\ i \in Inodes /\ R[ip] = i /\ i \notin Exists(fs)
        /\ \E D2 : In(made, D2, t, R, Plus(P1, ip), {})
    <3> HIDE DEF ip
    <3> QED
      BY <1>5, PipeBook DEF ip, D
  <2>4. CASE /\ Cardinality(Files \ InUse) >= 2 /\ Cardinality(FreeFds) >= 2
             /\ Return(call, made, f, u, cwd)
    <3>1. Pair(r, w, rfd, wfd)
      BY <2>4, PairFree
    <3>2. PICK D2 : In(made, D2, t, R, Plus(P1, ip), {})
      BY <2>3
    <3> DEFINE P == Plus(P1, ip)
    <3> HIDE DEF ip, made, r, w, rfd, wfd
    <3>3. f \in [Files -> Entries] /\ Pins(f, cwd) = P
      BY <2>3, <3>1, PipedPins
    <3>4. /\ Booked(fs, file, cwd) /\ Agree(InoOf(fs), R, Pins(file, cwd))
          /\ Book(made, D2, t, R, P, {}) /\ P \in Counts /\ Over(P)
      BY <2>1, <3>2 DEF FsInv, In, O0, P0, Over
    <3> HIDE DEF P
    <3>5. \A x \in Slots : Pins(f, cwd)[x] <= P[x]
      BY <3>3, <3>4 DEF Counts
    <3>6. Return(call, made, f, u, cwd)
      BY <2>4
    <3> HIDE DEF f, u
    <3>7. /\ Booked(fs', file', cwd')
          /\ fs'.dirs = t /\ file' = f /\ ufd' = u /\ cwd' = cwd
          /\ \A x \in Slots : P[x] > 0 => Ino(fs', x) = R[x]
          /\ \A x \in Slots : P0[x] > 0 => R[x] = Ino(fs, x)
      BY <3>4, <3>5, <3>6, ReturnBooked DEF P0
    <3>8. P0 \in Counts /\ \A x \in Slots : P0[x] > 0 => P[x] > 0
      BY <1>2, <3>4 DEF Over, Counts
    <3>9. \A x \in Slots : P0[x] > 0 => Ino(fs', x) = Ino(fs, x)
      BY <3>7, <3>8
    <3>10. Ino(fs', ip) = i
      <4>1. P[ip] >= 1
        BY <2>1, <2>3, OverPlus DEF P
      <4>2. P[ip] > 0
        BY <2>3, <3>4, <4>1 DEF Counts
      <4> QED
        BY <2>3, <3>7, <4>2
    <3>11. Rules!FdsChange
      BY <2>3, <3>1, <3>7, <3>9, <3>10, PipeRules DEF f, u
    <3>12. OfIn(fs', cwd') = OfIn(fs, cwd)
      BY <3>7, <3>9, HeldSame
    <3>13. file' \in [Files -> Entries] /\ cwd' \in Slots \union {Null}
      BY <3>3, <3>7, StartBook
    <3> QED
      BY <3>7, <3>11, <3>12, <3>13, RulesNext DEF Allowed
  <2> QED
    BY <1>1, <2>1, <2>2, <2>4, FinishAllowed
<1> QED
  BY <1>3, <1>4, <1>5

-----------------------------------------------------------------------------
(* Every call leaves the books in order and is allowed by FileRules.       *)
LEMMA CallsAllowed ==
    ASSUME FsInv, Absolute, Next
    PROVE  Allowed
<1>1. CASE NameCall
  <2>1. PICK p \in Named :
          \/ \E room \in BOOLEAN :
                \/ Creat(p, room)
                \/ Mknod(p, room)
                \/ \E q \in Named : Link(q, p, room) \/ Rename(q, p, room)
                \/ \E block \in BOOLEAN : Mkdir(p, room, block)
          \/ Unlink(p)
          \/ Rmdir(p)
    BY <1>1 DEF NameCall
  <2> QED
    BY <2>1, CreatAllowed, MknodAllowed, LinkAllowed, RenameAllowed, MkdirAllowed, UnlinkAllowed,
       RmdirAllowed
<1>2. CASE PathCall
  <2>1. PICK p \in Paths :
          \/ \E flag \in {"plain", "trunc"} : Open(p, flag, TRUE)
          \/ \E flag \in {"creat", "excl"}, room \in BOOLEAN : Open(p, flag, room)
          \/ Chdir(p)
          \/ Stat(p)
    BY <1>2 DEF PathCall
  <2> QED
    BY <2>1, OpenAllowed, ChdirAllowed, StatAllowed
<1>3. CASE FdCall
  <2>1. CASE Pipe
    BY <2>1, PipeAllowed
  <2>2. CASE \E d \in Fds : Close(d) \/ Fchdir(d) \/ \E e \in Fds : Dup(d, e) \/ Dup2(d, e)
    BY <2>2, CloseAllowed, FchdirAllowed, DupAllowed, Dup2Allowed
  <2> QED
    BY <1>3, <2>1, <2>2 DEF FdCall
<1> QED
  BY <1>1, <1>2, <1>3 DEF Next

(* The books stay in order.                                                *)
LEMMA FsInvStep ==
    ASSUME Absolute
    PROVE  FsInv /\ [Next]_vars => FsInv' /\ [Rules!Next]_Rules!vars
<1> SUFFICES ASSUME FsInv, [Next]_vars PROVE FsInv' /\ [Rules!Next]_Rules!vars
  OBVIOUS
<1>1. TypeInv'
  BY NextTyped DEF FsInv
<1>2. CASE Next
  <2>1. Allowed
    BY <1>2, CallsAllowed
  <2> QED
    BY <1>1, <2>1 DEF Allowed, FsInv
<1>3. CASE UNCHANGED vars
  <2>1. UNCHANGED <<fs, file, ufd, cwd>>
    BY <1>3 DEF vars
  <2>2. UNCHANGED Rules!vars
    BY <2>1 DEF Rules!vars, Of, Ino, Inode, Held, IsDir
  <2>3. Booked(fs', file', cwd')
    BY <2>1 DEF FsInv
  <2> QED
    BY <1>1, <2>2, <2>3 DEF FsInv
<1> QED
  BY <1>2, <1>3

(* The volume at boot is in order.                                         *)
LEMMA BootVolume == Volume(Image.disk, Image.dirs, {})
<1> DEFINE D == Image.disk
           t == Image.dirs
<1>1. D \in Disks /\ t \in Trees /\ D[Root].mode = "dir"
  BY CallAssumption DEF Disks, Info, Trees
<1>2. /\ NamesIn(t, Root) = {}
      /\ \A i \in Inodes :
            /\ NameCount(t, i) <= D[i].nlink
            /\ D[i].mode = "free" => D[i].nlink = 0
            /\ D[i].mode = "dir" => NameCount(t, i) <= 1
            /\ D[i].mode = "dir" /\ (i = Root \/ NamesIn(t, i) # {}) => D[i].nlink >= 2 + DirCount(D, t, i)
            /\ t[i] # NoNames => D[i].mode = "dir" /\ D[i].nlink >= 1
  BY ImageAssumption DEF NameCount, DirCount
<1> HIDE DEF D, t
<1>3. \A i \in Inodes : /\ D[i].nlink \in Nat /\ NameCount(t, i) \in Nat /\ DirCount(D, t, i) \in Nat
                        /\ Spare({}, i) = 0
  BY <1>1, CountsAreNat DEF Disks, Info, Spare
<1>4. \A i \in Inodes : NameCount(t, i) + Spare({}, i) <= D[i].nlink
  BY <1>2, <1>3
<1>5. \A i \in Inodes : D[i].mode = "dir" => NameCount(t, i) + Spare({}, i) <= 1
  BY <1>2, <1>3
<1>6. \A i \in Linked(t, {}) : D[i].mode = "dir" => 2 + DirCount(D, t, i) <= D[i].nlink
  BY <1>2, <1>3 DEF Linked
<1>7. \A i \in Inodes : t[i] # NoNames => D[i].mode = "dir" /\ 1 <= D[i].nlink
  BY <1>2, <1>3
<1>8. \A i \in Inodes : D[i].mode = "free" => D[i].nlink = 0
  BY <1>2
<1>9. Volume(D, t, {})
  BY <1>1, <1>2, <1>4, <1>5, <1>6, <1>7, <1>8 DEF Volume
<1> QED
  BY <1>9 DEF D, t

(* The books at boot.                                                      *)
LEMMA FsInvInit == Init => FsInv /\ Rules!Init
<1> SUFFICES ASSUME Init PROVE FsInv /\ Rules!Init
  OBVIOUS
<1> DEFINE slot == [s \in Slots |-> Unused]
           list == [k \in Slots |-> k]
           D == Image.disk
           t == Image.dirs
           O == InoOf(fs)
           P == Pins(file, cwd)
<1>1. /\ fs = Rec(slot, list, D, t, <<>>, 1, Null, "no")
      /\ file = [f \in Files |-> Closed] /\ ufd = [d \in Fds |-> 0] /\ cwd = Null
  BY DEF Init, Rec
<1>2. TypeInv
  BY InitTyped
<1>3. slot \in Slotted /\ \A s \in Slots : slot[s].ref = 0 /\ slot[s].ino = 0
  BY DEF Slotted, Slot, Unused, Modes
<1>4. list \in Seq(Slots) /\ Len(list) = MAX_INCACHE /\ \A k \in Slots : list[k] = k
  <2>1. MAX_INCACHE \in Nat
    BY CacheAssumption
  <2>2. list \in Seq(Slots)
    BY <2>1, IsASeq DEF Slots
  <2>3. DOMAIN list = 1..MAX_INCACHE
    BY DEF Slots
  <2> HIDE DEF list
  <2>4. Len(list) = MAX_INCACHE
    BY <2>1, <2>2, <2>3, LenProperties
  <2> QED
    BY <2>2, <2>4 DEF list
<1>5. fs.slot = slot /\ fs.dirs = t /\ fs.disk = D
  BY <1>1 DEF Rec
<1>6. \A s \in Slots : O[s] = 0 /\ P[s] = 0
  <2>1. \A s \in Slots : s # Null
    BY CacheAssumption DEF Slots
  <2>2. \A s \in Slots : Holding(file, s) = {}
    BY <1>1, <2>1 DEF Holding, Closed
  <2>3. \A s \in Slots : Cardinality(Holding(file, s)) = 0
    BY <2>2, FS_EmptySet
  <2>4. \A s \in Slots : P[s] = 0
    BY <1>1, <2>1, <2>3 DEF Pins
  <2> QED
    BY <1>3, <1>5, <2>4 DEF InoOf
<1>7. O \in Owners /\ P \in Counts
  BY <1>6, PinsType DEF InoOf, Owners
<1>8. /\ <<>> \in Seq(Inodes) /\ 1 \in Inodes /\ Len(<<>>) = 0 /\ Len(<<>>) <= SB_FREE_INODE_MAX
      /\ Null \in Slots \union {Null}
  BY CacheAssumption, EmptySeq DEF Inodes
<1> HIDE DEF slot, list, D, t, O, P
<1>9. Kept(slot, list, <<>>, D, t, O, P, {})
  <2>1. FreeList(slot, list)
    <3>1. \A x : x \in ToSet(list) <=> \E k \in 1..Len(list) : list[k] = x
      BY <1>4, InList
    <3> QED
      BY <1>3, <1>4, <3>1 DEF FreeList, Slots
  <2>2. OneSlot(slot)
    BY <1>3 DEF OneSlot
  <2>3. Pinned(slot, O, P)
    BY <1>3, <1>6 DEF Pinned
  <2>4. Fresh(slot, D, t, {})
    BY <1>3 DEF Fresh
  <2>5. 1..Len(<<>>) = {}
    BY <1>8
  <2>6. Offers(slot, <<>>, t, {})
    BY <2>5 DEF Offers
  <2> QED
    BY <2>1, <2>2, <2>3, <2>4, <2>6 DEF Kept
<1>10. Volume(D, t, {})
  BY BootVolume DEF D, t
<1>11. Book(fs, D, t, O, P, {})
  BY <1>1, <1>3, <1>4, <1>7, <1>8, <1>9, <1>10, BookRec
<1>12. Booked(fs, file, cwd)
  BY <1>5, <1>11 DEF Booked, O, P
<1>13. Rules!Init
  <2>1. file \in [Files -> Entries] /\ cwd \in Slots \union {Null}
    BY <1>1 DEF Entries, Closed
  <2>2. \A d \in Inodes, n \in Names : fs.dirs[d][n] # 0 => fs.dirs[d][n] \in Exists(fs)
    BY <1>12, <2>1, UsedExists
  <2>3. Rules!Named \subseteq {i \in Inodes : Inode(i).nlink > 0 \/ \E s \in Slots : Ino(fs, s) = i /\ Held(s)}
    BY <2>2, ExistsIs DEF Rules!Named
  <2>4. \A f \in Files : Of(file[f].ip) = 0
    BY <1>1 DEF Of, Closed
  <2>5. (\A d \in Fds : ufd[d] = 0) /\ Of(cwd) = 0
    BY <1>1 DEF Of
  <2> QED
    BY <2>3, <2>4, <2>5 DEF Rules!Init
<1> QED
  BY <1>2, <1>12, <1>13 DEF FsInv

-----------------------------------------------------------------------------
(* A sequence that repeats nothing has as many members as places.          *)
LEMMA NoRepeats ==
    ASSUME NEW T, NEW q \in Seq(T), \A j, k \in 1..Len(q) : q[j] = q[k] => j = k
    PROVE  Cardinality(ToSet(q)) = Len(q)
<1> DEFINE S == 1..Len(q)
           M == [k \in S |-> q[k]]
<1>1. Len(q) \in Nat /\ \A x : x \in ToSet(q) <=> \E k \in S : q[k] = x
  BY InList
<1>2. IsFiniteSet(S) /\ Cardinality(S) = Len(q)
  <2> DEFINE n == Len(q)
  <2>1. n \in Nat /\ n \in Int /\ 1 \in Int
    BY <1>1
  <2> HIDE DEF n
  <2>2. IsFiniteSet(1..n) /\ Cardinality(1..n) = IF 1 > n THEN 0 ELSE n - 1 + 1
    BY <2>1, FS_Interval
  <2>3. Cardinality(1..n) = n
    BY <2>1, <2>2
  <2> QED
    BY <2>2, <2>3 DEF n
<1>3. M \in [S -> ToSet(q)] /\ \A x \in ToSet(q) : \E k \in S : M[k] = x
  BY <1>1
<1>4. DOMAIN M = S /\ \A j, k \in S : M[j] = M[k] => j = k
  OBVIOUS
<1> HIDE DEF S, M
<1>5. M \in Bijection(S, ToSet(q))
  BY <1>3, <1>4 DEF Bijection, Injection, Surjection, IsInjective
<1>6. ExistsBijection(S, ToSet(q))
  BY <1>5 DEF ExistsBijection
<1> QED
  BY <1>2, <1>6, FS_Bijection

(* The books say that the cache is exact, and that it holds what is named. *)
LEMMA BookedCache == FsInv => CacheExact /\ CacheFresh /\ InodesHeld
<1> SUFFICES ASSUME FsInv PROVE CacheExact /\ CacheFresh /\ InodesHeld
  OBVIOUS
<1>1. /\ Book(fs, fs.disk, fs.dirs, O0, P0, {}) /\ Volume(fs.disk, fs.dirs, {})
  BY StartBook
<1>2. /\ fs.slot \in Slotted /\ fs.list \in Seq(Slots) /\ FreeList(fs.slot, fs.list) /\ OneSlot(fs.slot)
      /\ Pinned(fs.slot, O0, P0) /\ Fresh(fs.slot, fs.disk, fs.dirs, {}) /\ fs.disk \in Disks
      /\ P0 \in Counts
  BY <1>1, BookFields DEF Kept
<1>3. CacheExact
  <2>1. \A s \in Slots : fs.slot[s].ref \in Nat
    BY <1>2 DEF Slotted, Slot
  <2>2. \A s \in Slots : s \in ToSet(fs.list) <=> ~Held(s)
    BY <1>2, <2>1 DEF FreeList, Held
  <2>3. Cardinality(ToSet(fs.list)) = Len(fs.list)
    BY <1>2, NoRepeats DEF FreeList
  <2> QED
    BY <1>2, <2>2, <2>3 DEF OneSlot, CacheExact, Ino
<1>4. CacheFresh
  <2> SUFFICES ASSUME NEW s \in Slots, Ino(fs, s) # 0, NamesOf(Ino(fs, s)) # {}
               PROVE  fs.disk[Ino(fs, s)] = [mode |-> fs.slot[s].mode, nlink |-> fs.slot[s].nlink]
    BY DEF CacheFresh
  <2> DEFINE i == Ino(fs, s)
  <2>1. i \in Inodes /\ i = fs.slot[s].ino
    BY <1>2 DEF Slotted, Slot, Ino
  <2>2. i \in Alive(fs.dirs, {})
    BY <2>1 DEF NamesOf, Alive
  <2>3. fs.slot[s].mode = fs.disk[i].mode /\ fs.slot[s].nlink = fs.disk[i].nlink
    BY <1>2, <2>1, <2>2 DEF Fresh, Ino
  <2>4. fs.disk[i] \in [mode : Modes, nlink : Nat]
    BY <1>2, <2>1 DEF Disks, Info
  <2> QED
    BY <2>3, <2>4
<1>5. InodesHeld
  <2> SUFFICES ASSUME NEW s \in Slots
               PROVE  LET holders == Cardinality({f \in Files : file[f].ip = s}) + (IF cwd = s THEN 1 ELSE 0)
                      IN  fs.slot[s].ref >= holders /\ (holders > 0 => fs.slot[s].mode # "free")
    BY DEF InodesHeld
  <2>1. P0[s] = Cardinality({f \in Files : file[f].ip = s}) + (IF cwd = s THEN 1 ELSE 0)
    BY DEF P0, Pins, Holding
  <2>2. P0[s] \in Nat /\ fs.slot[s].ref \in Nat /\ P0[s] <= fs.slot[s].ref
        /\ (P0[s] > 0 => fs.slot[s].mode # "free")
    BY <1>2 DEF Pinned, Counts, Slotted, Slot
  <2> QED
    BY <2>1, <2>2
<1> QED
  BY <1>3, <1>4, <1>5

(* They say that what is named exists and that subdirectories are counted. *)
LEMMA BookedNames == FsInv => NamesAlive /\ SubdirsCounted
<1> SUFFICES ASSUME FsInv PROVE NamesAlive /\ SubdirsCounted
  OBVIOUS
<1> DEFINE D == fs.disk
           t == fs.dirs
<1>1. Book(fs, D, t, O0, P0, {}) /\ Volume(D, t, {}) /\ t \in Trees
  BY StartBook
<1>2. \A i \in Inodes : Inode(i) = InodeIn(fs, i) /\ NamesOf(i) = NamesIn(t, i)
  BY DEF Inode, InodeIn, NamesOf
<1> HIDE DEF D, t
<1>3. \A i \in Alive(t, {}) : /\ i \in Inodes /\ Inode(i).mode = D[i].mode /\ Inode(i).nlink = D[i].nlink
                              /\ D[i].mode # "free" /\ D[i].nlink \in Nat
  <2> SUFFICES ASSUME NEW i \in Alive(t, {})
               PROVE  /\ i \in Inodes /\ Inode(i).mode = D[i].mode /\ Inode(i).nlink = D[i].nlink
                      /\ D[i].mode # "free" /\ D[i].nlink \in Nat
    OBVIOUS
  <2>1. i \in Inodes /\ D[i].mode # "free" /\ D[i].nlink \in Nat
    BY <1>1, AliveHasLink DEF Info
  <2>2. InodeIn(fs, i).mode = D[i].mode /\ InodeIn(fs, i).nlink = D[i].nlink
    BY <1>1, <2>1, InodeInBook
  <2> QED
    BY <1>2, <2>1, <2>2
<1>4. \A i \in Inodes : /\ NameCount(t, i) \in Nat /\ (NameCount(t, i) > 0 => i \in Alive(t, {}))
                        /\ (NamesIn(t, i) # {} => i \in Alive(t, {})) /\ DirCount(D, t, i) \in Nat
                        /\ Spare({}, i) = 0
  <2> SUFFICES ASSUME NEW i \in Inodes
               PROVE  /\ NameCount(t, i) \in Nat /\ (NameCount(t, i) > 0 => i \in Alive(t, {}))
                      /\ (NamesIn(t, i) # {} => i \in Alive(t, {})) /\ DirCount(D, t, i) \in Nat
                      /\ Spare({}, i) = 0
    OBVIOUS
  <2>1. NameCount(t, i) \in Nat /\ (NameCount(t, i) = 0 <=> NamesIn(t, i) = {}) /\ DirCount(D, t, i) \in Nat
    BY CountsAreNat
  <2>2. NamesIn(t, i) # {} => i \in Alive(t, {})
    BY DEF Alive
  <2> QED
    BY <2>1, <2>2 DEF Spare
<1>5. NamesAlive
  <2> SUFFICES ASSUME NEW i \in Inodes, NameCount(t, i) > 0
               PROVE  Inode(i).mode # "free" /\ Inode(i).nlink >= NameCount(t, i) /\ i \notin ToSet(fs.win)
    BY <1>2 DEF NamesAlive, NameCount
  <2>1. i \in Alive(t, {})
    BY <1>4
  <2>2. NameCount(t, i) <= D[i].nlink
    <3>1. NameCount(t, i) + Spare({}, i) <= D[i].nlink
      BY <1>1 DEF Volume
    <3> QED
      BY <1>3, <1>4, <2>1, <3>1
  <2>3. i \notin ToSet(fs.win)
    <3>1. fs.win \in Seq(Inodes) /\ Offers(fs.slot, fs.win, t, {})
      BY <1>1, BookFields DEF Kept
    <3>2. i \in ToSet(fs.win) => \E k \in 1..Len(fs.win) : fs.win[k] = i
      BY <3>1, InList
    <3> QED
      BY <2>1, <3>1, <3>2 DEF Offers
  <2> QED
    BY <1>3, <1>4, <2>1, <2>2, <2>3
<1>6. SubdirsCounted
  <2> SUFFICES ASSUME NEW d \in Inodes, Inode(d).mode = "dir", d = Root \/ NamesIn(t, d) # {}
               PROVE  Inode(d).nlink >= 2 + Cardinality(Subdirs(d))
    BY <1>2 DEF SubdirsCounted
  <2>1. d \in Alive(t, {}) /\ d \in Linked(t, {})
    BY DEF Alive, Linked
  <2>2. \A n \in Names : t[d][n] # 0 => t[d][n] \in Alive(t, {})
    BY <1>1, NamedIsAlive
  <2>3. Subdirs(d) = DirsIn(D, t, d)
    BY <1>3, <2>2 DEF Subdirs, DirsIn, t
  <2>4. 2 + DirCount(D, t, d) <= D[d].nlink
    BY <1>1, <1>3, <2>1 DEF Volume
  <2>5. Cardinality(Subdirs(d)) = DirCount(D, t, d)
    BY <2>3 DEF DirCount
  <2> QED
    BY <1>3, <1>4, <2>1, <2>4, <2>5
<1> QED
  BY <1>5, <1>6

(* The invariant of the books, when every path is absolute.                *)
LEMMA FsInvAlways ==
    ASSUME \A p \in Paths : p.abs
    PROVE  Spec => []FsInv
<1>1. Absolute
  BY DEF Absolute
<1> QED
  BY <1>1, FsInvInit, FsInvStep, PTL DEF Spec

(* inode.c: a slot is on the free list, once, exactly when it has no       *)
(* reference, and no inode is in two slots, whatever calls were made.      *)
THEOREM CacheStaysExact ==
    ASSUME \A p \in Paths : p.abs
    PROVE  Spec => []CacheExact
BY FsInvAlways, BookedCache, PTL

(* inode.c iupdate and iput: between calls an inode that has a name has the*)
(* same mode and link count in the cache and on the disk.                  *)
THEOREM CacheStaysFresh ==
    ASSUME \A p \in Paths : p.abs
    PROVE  Spec => []CacheFresh
BY FsInvAlways, BookedCache, PTL

(* inode.c iput: what an open file or the current directory stands for is  *)
(* not released: there is a reference for each of them.                    *)
THEOREM InodesStayHeld ==
    ASSUME \A p \in Paths : p.abs
    PROVE  Spec => []InodesHeld
BY FsInvAlways, BookedCache, PTL

(* link.c, unlink.c, rename.c, mkdir.c: whatever a name leads to exists,   *)
(* has a link for each of its names and is not up for allocation, on every *)
(* undo path too.                                                          *)
THEOREM NamesStayAlive ==
    ASSUME \A p \in Paths : p.abs
    PROVE  Spec => []NamesAlive
BY FsInvAlways, BookedNames, PTL

(* mkdir.c, rename.c: a directory that can be reached has a link for each  *)
(* of its subdirectories, so that rmdir does not discard one that holds    *)
(* others.                                                                 *)
THEOREM SubdirsStayCounted ==
    ASSUME \A p \in Paths : p.abs
    PROVE  Spec => []SubdirsCounted
BY FsInvAlways, BookedNames, PTL

(* The calls keep the promises of FileRules: names, descriptors and open   *)
(* descriptions change by its steps only, and what they refer to exists.   *)
THEOREM CallsImplementRules ==
    ASSUME \A p \in Paths : p.abs
    PROVE  Spec => Implements
<1>1. Absolute
  BY DEF Absolute
<1>2. FsInv /\ [Next]_vars => [Rules!Next]_Rules!vars
  BY <1>1, FsInvStep
<1> QED
  BY <1>2, FsInvAlways, FsInvInit, PTL DEF Spec, Implements, Rules!Spec
=============================================================================
