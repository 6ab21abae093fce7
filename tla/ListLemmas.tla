----------------------------- MODULE ListLemmas -----------------------------
(***************************************************************************)
(* Lemmas that the proofs of several modules cite.                         *)
(*                                                                         *)
(* Induction over the naturals and functions defined by recursion, stated  *)
(* with sets and functions in place of operators, so that they can be      *)
(* cited. They rest on the strict subset order of the finite sets, which   *)
(* the library proves well-founded.                                        *)
(*                                                                         *)
(* Linked lists over the entries 1..M of a table, 0 for the null pointer:  *)
(* what following the links from the head yields, and what adding and      *)
(* taking one entry does to the list. The order of the entries is carried  *)
(* along as a function s on 1..n, so that nothing is counted twice.        *)
(***************************************************************************)
EXTENDS Integers, SequenceTheorems, WellFoundedInduction, FiniteSetTheorems, TLAPS

(* Every set of naturals that has a member has a least one. *)
LEMMA LeastNatural ==
    ASSUME NEW K \in SUBSET Nat, K # {}
    PROVE  \E m \in K : \A k \in K : m <= k
<1> DEFINE T == {0..k : k \in K}
<1>1. T \subseteq FiniteSubsetsOf(Nat) /\ T # {}
  <2>1. \A k \in K : IsFiniteSet(0..k) /\ 0..k \in SUBSET Nat
    BY FS_Interval
  <2> QED
    BY <2>1 DEF FiniteSubsetsOf
<1>2. PICK x \in T : \A y \in T : ~(<<y, x>> \in StrictSubsetOrdering(Nat))
  BY <1>1, FS_StrictSubsetOrderingWellFounded, WFMin
<1>3. PICK m \in K : x = 0..m
  OBVIOUS
<1>4. ASSUME NEW k \in K, k < m
      PROVE  FALSE
  <2>1. 0..k \in T /\ 0..m \in T
    OBVIOUS
  <2>2. 0..k \subseteq 0..m /\ 0..k # 0..m
    BY <1>4
  <2>3. <<0..k, 0..m>> \in StrictSubsetOrdering(Nat)
    BY <2>2 DEF StrictSubsetOrdering
  <2> QED
    BY <1>2, <1>3, <2>1, <2>3
<1> QED
  BY <1>4

(* Induction up to a bound. *)
LEMMA InductionUpTo ==
    ASSUME NEW L \in Nat, NEW S,
           0 \in S,
           \A n \in 0..(L - 1) : n \in S => n + 1 \in S
    PROVE  \A n \in 0..L : n \in S
<1> DEFINE K == {n \in 0..L : n \notin S}
<1>1. SUFFICES ASSUME K # {} PROVE FALSE
  OBVIOUS
<1>2. PICK m \in K : \A k \in K : m <= k
  <2>1. K \in SUBSET Nat
    OBVIOUS
  <2> HIDE DEF K
  <2> QED
    BY <1>1, <2>1, LeastNatural
<1>3. m # 0 /\ m - 1 \in 0..(L - 1) /\ m - 1 \notin K
  BY <1>2
<1>4. m - 1 \in S
  BY <1>3
<1> QED
  BY <1>3, <1>4

(* f is defined on 0..L by recursion: step gives its value at i from i and *)
(* its value at i - 1.                                                     *)
Recursion(f, L, T, base, step) ==
    /\ f \in [0..L -> T]
    /\ f[0] = base
    /\ \A i \in 1..L : f[i] = step[i][f[i - 1]]

(* Such a function exists. *)
LEMMA RecursionUpTo ==
    ASSUME NEW L \in Nat, NEW T, NEW base \in T,
           NEW step \in [1..L -> [T -> T]]
    PROVE  \E f : Recursion(f, L, T, base, step)
<1> DEFINE S == {n \in 0..L : \E f : Recursion(f, n, T, base, step)}
<1>1. 0 \in S
  <2> DEFINE g == [i \in 0..0 |-> base]
  <2>1. Recursion(g, 0, T, base, step)
    BY DEF Recursion
  <2> QED
    BY <2>1
<1>2. ASSUME NEW n \in 0..(L - 1), n \in S
      PROVE  n + 1 \in S
  <2>1. PICK f : Recursion(f, n, T, base, step)
    BY <1>2
  <2> DEFINE g == [i \in 0..(n + 1) |-> IF i <= n THEN f[i]
                                        ELSE step[n + 1][f[n]]]
  <2>2. /\ f \in [0..n -> T]
        /\ f[0] = base
        /\ \A i \in 1..n : f[i] = step[i][f[i - 1]]
    BY <2>1 DEF Recursion
  <2>3. g \in [0..(n + 1) -> T]
    BY <2>2
  <2>4. ASSUME NEW i \in 1..(n + 1)
        PROVE  g[i] = step[i][g[i - 1]]
    BY <2>2
  <2>5. g[0] = base
    BY <2>2
  <2>6. Recursion(g, n + 1, T, base, step)
    BY <2>3, <2>4, <2>5 DEF Recursion
  <2>7. n + 1 \in 0..L
    OBVIOUS
  <2> QED
    BY <2>6, <2>7
<1>3. L \in S
  <2> HIDE DEF S
  <2>1. \A n \in 0..(L - 1) : n \in S => n + 1 \in S
    BY <1>2
  <2>2. \A n \in 0..L : n \in S
    BY <1>1, <2>1, InductionUpTo
  <2> QED
    BY <2>2
<1> QED
  BY <1>3

(* A property of each round that a loop establishes and keeps holds after  *)
(* its last round.                                                         *)
LEMMA LoopUpTo ==
    ASSUME NEW L \in Nat, NEW I, NEW f, f[0] \in I[0],
           \A i \in 1..L : f[i - 1] \in I[i - 1] => f[i] \in I[i]
    PROVE  \A i \in 0..L : f[i] \in I[i]
<1> DEFINE S == {n \in 0..L : f[n] \in I[n]}
<1>1. 0 \in S
  OBVIOUS
<1>2. ASSUME NEW n \in 0..(L - 1), n \in S
      PROVE  n + 1 \in S
  <2>1. n + 1 \in 1..L /\ (n + 1) - 1 = n /\ n + 1 \in 0..L
    OBVIOUS
  <2>2. f[n] \in I[n]
    BY <1>2
  <2>3. f[n + 1] \in I[n + 1]
    BY <2>1, <2>2
  <2> QED
    BY <2>1, <2>3
<1>3. \A n \in 0..L : n \in S
  <2> HIDE DEF S
  <2>1. \A n \in 0..(L - 1) : n \in S => n + 1 \in S
    BY <1>2
  <2> QED
    BY <1>1, <2>1, InductionUpTo
<1> QED
  BY <1>3

(* f is the states of a loop from base, one round a step, within I. *)
Loop(f, L, I, base, step) ==
    /\ f = [i \in 0..L |-> f[i]]
    /\ f[0] = base
    /\ \A i \in 1..L : f[i] = step[i][f[i - 1]]
    /\ \A i \in 0..L : f[i] \in I[i]

(* The states of such a loop exist, when each round has a value in the     *)
(* states of the round before.                                             *)
LEMMA LoopExists ==
    ASSUME NEW L \in Nat, NEW T, NEW I \in [0..L -> SUBSET T],
           NEW base \in I[0], NEW step,
           \A i \in 1..L : \A x \in I[i - 1] : step[i][x] \in I[i]
    PROVE  \E f : Loop(f, L, I, base, step)
<1> DEFINE c == [i \in 1..L |-> [x \in T |->
                    IF x \in I[i - 1] THEN step[i][x] ELSE base]]
<1>1. base \in T /\ \A i \in 1..L : i - 1 \in 0..L /\ i \in 0..L
  OBVIOUS
<1>2. c \in [1..L -> [T -> T]]
  <2> SUFFICES ASSUME NEW i \in 1..L, NEW x \in T, x \in I[i - 1]
               PROVE  step[i][x] \in T
    BY <1>1
  <2>1. step[i][x] \in I[i] /\ I[i] \in SUBSET T
    BY <1>1
  <2> QED
    BY <2>1
<1>3. PICK f : Recursion(f, L, T, base, c)
  <2> HIDE DEF c
  <2> QED
    BY <1>1, <1>2, RecursionUpTo
<1>4. /\ f \in [0..L -> T] /\ f[0] = base
      /\ \A i \in 1..L : f[i] = c[i][f[i - 1]]
  BY <1>3 DEF Recursion
<1>5. \A i \in 1..L : f[i - 1] \in I[i - 1] => f[i] = step[i][f[i - 1]]
  BY <1>1, <1>4
<1>6. \A i \in 1..L : f[i - 1] \in I[i - 1] => f[i] \in I[i]
  BY <1>5
<1> HIDE DEF c
<1>7. \A i \in 0..L : f[i] \in I[i]
  BY <1>4, <1>6, LoopUpTo
<1>8. \A i \in 1..L : f[i] = step[i][f[i - 1]]
  BY <1>1, <1>5, <1>7
<1>9. Loop(f, L, I, base, step)
  BY <1>4, <1>7, <1>8 DEF Loop
<1> QED
  BY <1>9

-----------------------------------------------------------------------------
(* From h on, next leads through s[1], ..., s[n] and ends. *)
Listed(next, h, M, n, s) ==
    /\ n \in Nat
    /\ s \in [1..n -> 1..M]
    /\ \A i, j \in 1..n : s[i] = s[j] => i = j
    /\ h = IF n = 0 THEN 0 ELSE s[1]
    /\ \A i \in 1..n : next[s[i]] = IF i = n THEN 0 ELSE s[i + 1]

(* prev leads back. *)
Backed(prev, n, s) ==
    \A i \in 1..n : prev[s[i]] = IF i = 1 THEN 0 ELSE s[i - 1]

Members(n, s) == {s[i] : i \in 1..n}

(* p behind the first k entries; the list without its k-th entry. *)
Added(s, n, k, p) == [i \in 1..(n + 1) |-> IF i <= k THEN s[i]
                                           ELSE IF i = k + 1 THEN p
                                           ELSE s[i - 1]]
Dropped(s, n, k) == [i \in 1..(n - 1) |-> IF i < k THEN s[i] ELSE s[i + 1]]

(* The pointer next followed from h, up to M times. *)
Walks(w, next, h, M) ==
    /\ w = [i \in 0..M |-> w[i]]
    /\ w[0] = h
    /\ \A i \in 1..M : w[i] = IF w[i - 1] = 0 THEN 0 ELSE next[w[i - 1]]

----------------------------------------------------------------------------
(* As many members as entries.                                             *)
LEMMA MembersCount ==
    ASSUME NEW n \in Nat, NEW T, NEW s \in [1..n -> T],
           \A i, j \in 1..n : s[i] = s[j] => i = j
    PROVE  IsFiniteSet(Members(n, s)) /\ Cardinality(Members(n, s)) = n
<1>1. IsFiniteSet(1..n) /\ Cardinality(1..n) = n
  BY FS_Interval
<1>2. s \in Bijection(1..n, Members(n, s))
  BY DEF Members, Bijection, Injection, Surjection, IsInjective
<1>3. ExistsBijection(1..n, Members(n, s))
  BY <1>2 DEF ExistsBijection
<1> QED
  BY <1>1, <1>3, FS_Bijection

(* A list has as many members as entries, no more than the table.          *)
LEMMA ListSize ==
    ASSUME NEW M \in Nat, NEW next, NEW h, NEW n, NEW s,
           Listed(next, h, M, n, s)
    PROVE  /\ n \in 0..M
           /\ IsFiniteSet(Members(n, s)) /\ Cardinality(Members(n, s)) = n
           /\ Members(n, s) \subseteq 1..M
<1>1. n \in Nat /\ s \in [1..n -> 1..M] /\ \A i, j \in 1..n : s[i] = s[j] => i = j
  BY DEF Listed
<1>2. /\ IsFiniteSet(1..n) /\ Cardinality(1..n) = n
      /\ IsFiniteSet(1..M) /\ Cardinality(1..M) = M
  BY <1>1, FS_Interval
<1>5. IsFiniteSet(Members(n, s)) /\ Cardinality(Members(n, s)) = n
  BY <1>1, MembersCount
<1>6. s \in Injection(1..n, 1..M)
  BY <1>1 DEF Injection, IsInjective
<1>7. n <= M
  BY <1>2, <1>6, FS_Injection
<1>8. Members(n, s) \subseteq 1..M
  BY <1>1 DEF Members
<1> QED
  BY <1>1, <1>5, <1>7, <1>8

(* Following the links yields the entries in order.                        *)
LEMMA WalkIs ==
    ASSUME NEW M \in Nat, NEW next, NEW h, NEW n, NEW s,
           Listed(next, h, M, n, s), NEW w, Walks(w, next, h, M)
    PROVE  \A i \in 0..M : w[i] = IF i < n THEN s[i + 1] ELSE 0
<1> DEFINE S == {i \in 0..M : w[i] = IF i < n THEN s[i + 1] ELSE 0}
<1>1. 0 \in S
  BY DEF Listed, Walks
<1>2. ASSUME NEW i \in 0..(M - 1), i \in S
      PROVE  i + 1 \in S
  <2>1. /\ i + 1 \in 1..M /\ (i + 1) - 1 = i
        /\ w[i] = IF i < n THEN s[i + 1] ELSE 0
    BY <1>2
  <2>2. w[i + 1] = IF w[i] = 0 THEN 0 ELSE next[w[i]]
    BY <2>1 DEF Walks
  <2>3. CASE i < n
    <3>1. i + 1 \in 1..n /\ s[i + 1] \in 1..M
      BY <2>3 DEF Listed
    <3>2. next[s[i + 1]] = IF i + 1 = n THEN 0 ELSE s[(i + 1) + 1]
      BY <3>1 DEF Listed
    <3>3. n \in Nat
      BY DEF Listed
    <3> QED
      BY <2>1, <2>2, <2>3, <3>1, <3>2, <3>3
  <2>4. CASE ~(i < n)
    BY <2>1, <2>2, <2>4 DEF Listed
  <2> QED
    BY <2>3, <2>4
<1>3. \A i \in 0..M : i \in S
  <2> HIDE DEF S
  <2>1. \A i \in 0..(M - 1) : i \in S => i + 1 \in S
    BY <1>2
  <2> QED
    BY <1>1, <2>1, InductionUpTo
<1> QED
  BY <1>3

(* The walk exists.                                                        *)
LEMMA WalkExists ==
    ASSUME NEW M \in Nat, NEW next \in [1..M -> 0..M], NEW h \in 0..M
    PROVE  \E w \in [0..M -> 0..M] : Walks(w, next, h, M)
<1> DEFINE step == [i \in 1..M |-> [x \in 0..M |-> IF x = 0 THEN 0 ELSE next[x]]]
<1>1. step \in [1..M -> [0..M -> 0..M]]
  OBVIOUS
<1>2. PICK w : Recursion(w, M, 0..M, h, step)
  <2> HIDE DEF step
  <2> QED
    BY <1>1, RecursionUpTo
<1>3. /\ w \in [0..M -> 0..M] /\ w[0] = h
      /\ \A i \in 1..M : w[i] = step[i][w[i - 1]]
  BY <1>2 DEF Recursion
<1>4. ASSUME NEW i \in 1..M
      PROVE  w[i] = IF w[i - 1] = 0 THEN 0 ELSE next[w[i - 1]]
  <2>1. w[i - 1] \in 0..M
    BY <1>3
  <2> QED
    BY <1>3, <2>1
<1> QED
  BY <1>3, <1>4 DEF Walks

----------------------------------------------------------------------------
(* A list is not touched by links written elsewhere.                       *)
LEMMA ListKept ==
    ASSUME NEW M \in Nat, NEW next, NEW h, NEW n, NEW s,
           Listed(next, h, M, n, s), NEW next2,
           \A q \in Members(n, s) : next2[q] = next[q]
    PROVE  Listed(next2, h, M, n, s)
<1>1. \A i \in 1..n : s[i] \in Members(n, s)
  BY DEF Members
<1> QED
  BY <1>1 DEF Listed

(* The links back of a list that no write touches. *)
LEMMA BackKept ==
    ASSUME NEW prev, NEW n, NEW s, Backed(prev, n, s), NEW prev2,
           \A q \in Members(n, s) : prev2[q] = prev[q]
    PROVE  Backed(prev2, n, s)
<1>1. \A i \in 1..n : s[i] \in Members(n, s)
  BY DEF Members
<1> QED
  BY <1>1 DEF Backed

(* Who is on the list after an entry is added. *)
LEMMA AddedMembers ==
    ASSUME NEW n \in Nat, NEW s, NEW k \in 0..n, NEW p
    PROVE  Members(n + 1, Added(s, n, k, p)) = Members(n, s) \cup {p}
<1> DEFINE t == Added(s, n, k, p)
<1>1. \A i \in 1..(n + 1) : t[i] = IF i <= k THEN s[i]
                                   ELSE IF i = k + 1 THEN p ELSE s[i - 1]
  BY DEF Added
<1> HIDE DEF t
<1>2. ASSUME NEW i \in 1..(n + 1) PROVE t[i] \in Members(n, s) \cup {p}
  BY <1>1 DEF Members
<1>3. ASSUME NEW i \in 1..n PROVE \E j \in 1..(n + 1) : s[i] = t[j]
  <2>1. CASE i <= k
    BY <1>1, <2>1
  <2>2. CASE i > k
    <3>1. i + 1 \in 1..(n + 1) /\ t[i + 1] = s[i]
      BY <1>1, <2>2
    <3> QED
      BY <3>1
  <2> QED
    BY <2>1, <2>2
<1>4. p = t[k + 1] /\ k + 1 \in 1..(n + 1)
  BY <1>1
<1> QED
  BY <1>2, <1>3, <1>4 DEF Members, t

(* Who is on the list after the k-th entry has left. *)
LEMMA DroppedMembers ==
    ASSUME NEW n \in Nat, NEW s, NEW k \in 1..n,
           \A i, j \in 1..n : s[i] = s[j] => i = j
    PROVE  Members(n - 1, Dropped(s, n, k)) = Members(n, s) \ {s[k]}
<1> DEFINE t == Dropped(s, n, k)
<1>1. \A i \in 1..(n - 1) : t[i] = IF i < k THEN s[i] ELSE s[i + 1]
  BY DEF Dropped
<1> HIDE DEF t
<1>2. ASSUME NEW i \in 1..(n - 1) PROVE t[i] \in Members(n, s) \ {s[k]}
  <2>1. i \in 1..n /\ i + 1 \in 1..n
    OBVIOUS
  <2> QED
    BY <1>1, <2>1 DEF Members
<1>3. ASSUME NEW i \in 1..n, i # k
      PROVE \E j \in 1..(n - 1) : s[i] = t[j]
  <2>1. CASE i < k
    BY <1>1, <2>1
  <2>2. CASE i > k
    <3>1. i - 1 \in 1..(n - 1) /\ t[i - 1] = s[i]
      BY <1>1, <2>2
    <3> QED
      BY <3>1
  <2> QED
    BY <1>3, <2>1, <2>2
<1> QED
  BY <1>2, <1>3 DEF Members, t

(* p is linked in behind the first k entries.                              *)
LEMMA ListAdd ==
    ASSUME NEW M \in Nat, NEW next, NEW h, NEW n, NEW s,
           Listed(next, h, M, n, s),
           NEW k \in 0..n, NEW p \in 1..M, p \notin Members(n, s),
           NEW next2, NEW h2,
           next2[p] = IF k = n THEN 0 ELSE s[k + 1],
           k > 0 => next2[s[k]] = p,
           \A i \in 1..n : i # k => next2[s[i]] = next[s[i]],
           h2 = IF k = 0 THEN p ELSE h
    PROVE  Listed(next2, h2, M, n + 1, Added(s, n, k, p))
<1> DEFINE t == Added(s, n, k, p)
<1>1. /\ n \in Nat /\ s \in [1..n -> 1..M]
      /\ \A i, j \in 1..n : s[i] = s[j] => i = j
      /\ h = IF n = 0 THEN 0 ELSE s[1]
      /\ \A i \in 1..n : next[s[i]] = IF i = n THEN 0 ELSE s[i + 1]
      /\ \A i \in 1..n : s[i] # p
  BY DEF Listed, Members
<1>2. /\ \A i \in 1..(n + 1) : t[i] = IF i <= k THEN s[i]
                                      ELSE IF i = k + 1 THEN p ELSE s[i - 1]
      /\ t \in [1..(n + 1) -> 1..M]
  BY <1>1 DEF Added
<1> HIDE DEF t
<1>3. ASSUME NEW i \in 1..(n + 1), NEW j \in 1..(n + 1), t[i] = t[j]
      PROVE  i = j
  <2> DEFINE from(x) == IF x <= k THEN x ELSE x - 1
  <2>1. \A x \in 1..(n + 1) : /\ x = k + 1 => t[x] = p
                             /\ x # k + 1 => from(x) \in 1..n /\ t[x] = s[from(x)]
    BY <1>1, <1>2
  <2>2. CASE i = k + 1 \/ j = k + 1
    <3> HIDE DEF from
    <3>1. \A x \in 1..(n + 1) : t[x] = p => x = k + 1
      BY <1>1, <2>1
    <3>2. t[k + 1] = p
      BY <1>1, <1>2
    <3> QED
      BY <1>3, <2>2, <3>1, <3>2
  <2>3. CASE i # k + 1 /\ j # k + 1
    <3>1. from(i) = from(j)
      <4> HIDE DEF from
      <4> QED
        BY <1>1, <1>3, <2>1, <2>3
    <3> QED
      BY <2>3, <3>1
  <2> QED
    BY <2>2, <2>3
<1>4. h2 = IF n + 1 = 0 THEN 0 ELSE t[1]
  BY <1>1, <1>2
<1>5. ASSUME NEW i \in 1..(n + 1)
      PROVE  next2[t[i]] = IF i = n + 1 THEN 0 ELSE t[i + 1]
  <2>1. CASE i < k
    <3>1. t[i] = s[i] /\ t[i + 1] = s[i + 1] /\ i \in 1..n /\ i # n
      BY <1>1, <1>2, <2>1
    <3> QED
      BY <1>1, <2>1, <3>1
  <2>2. CASE i = k
    <3>1. t[i] = s[k] /\ t[i + 1] = p /\ i # n + 1
      BY <1>1, <1>2, <2>2
    <3> QED
      BY <2>2, <3>1
  <2>3. CASE i = k + 1
    <3>1. t[i] = p
      BY <1>1, <1>2, <2>3
    <3>2. CASE k = n
      BY <2>3, <3>1, <3>2
    <3>3. CASE k < n
      <4>1. i + 1 \in 1..(n + 1) /\ i # n + 1
        BY <1>1, <2>3, <3>3
      <4>2. t[i + 1] = s[(i + 1) - 1] /\ (i + 1) - 1 = k + 1
        BY <1>1, <1>2, <2>3, <4>1
      <4> QED
        BY <1>1, <3>1, <3>3, <4>1, <4>2
    <3> QED
      BY <1>1, <3>2, <3>3
  <2>4. CASE i > k + 1
    <3>1. t[i] = s[i - 1] /\ i - 1 \in 1..n /\ i - 1 # k
      BY <1>1, <1>2, <2>4
    <3>2. next2[t[i]] = IF i - 1 = n THEN 0 ELSE s[(i - 1) + 1]
      BY <1>1, <3>1
    <3>3. CASE i = n + 1
      BY <1>1, <3>2, <3>3
    <3>4. CASE i # n + 1
      <4>1. i + 1 \in 1..(n + 1) /\ t[i + 1] = s[(i + 1) - 1]
        BY <1>1, <1>2, <2>4, <3>4
      <4> QED
        BY <1>1, <3>2, <3>4, <4>1
    <3> QED
      BY <3>3, <3>4
  <2> QED
    BY <1>1, <2>1, <2>2, <2>3, <2>4
<1>6. n + 1 \in Nat
  BY <1>1
<1> QED
  BY <1>2, <1>3, <1>4, <1>5, <1>6 DEF Listed, t

(* The links back after the same writes on prev. *)
LEMMA BackAdd ==
    ASSUME NEW M \in Nat, NEW next, NEW h, NEW n, NEW s,
           Listed(next, h, M, n, s), NEW prev, Backed(prev, n, s),
           NEW k \in 0..n, NEW p \in 1..M, p \notin Members(n, s), NEW prev2,
           prev2[p] = IF k = 0 THEN 0 ELSE s[k],
           k < n => prev2[s[k + 1]] = p,
           \A i \in 1..n : i # k + 1 => prev2[s[i]] = prev[s[i]]
    PROVE  Backed(prev2, n + 1, Added(s, n, k, p))
<1> DEFINE t == Added(s, n, k, p)
<1>1. /\ n \in Nat
      /\ \A i \in 1..n : prev[s[i]] = IF i = 1 THEN 0 ELSE s[i - 1]
  BY DEF Listed, Backed
<1>2. \A i \in 1..(n + 1) : t[i] = IF i <= k THEN s[i]
                                   ELSE IF i = k + 1 THEN p ELSE s[i - 1]
  BY DEF Added
<1> HIDE DEF t
<1>3. ASSUME NEW i \in 1..(n + 1)
      PROVE  prev2[t[i]] = IF i = 1 THEN 0 ELSE t[i - 1]
  <2>1. CASE i <= k
    <3>1. t[i] = s[i] /\ i \in 1..n /\ i # k + 1
      BY <1>1, <1>2, <2>1
    <3>2. prev2[t[i]] = IF i = 1 THEN 0 ELSE s[i - 1]
      BY <1>1, <3>1
    <3>3. i # 1 => t[i - 1] = s[i - 1]
      BY <1>1, <1>2, <2>1
    <3> QED
      BY <3>2, <3>3
  <2>2. CASE i = k + 1
    <3>1. t[i] = p /\ (i # 1 => t[i - 1] = s[i - 1])
      BY <1>1, <1>2, <2>2
    <3> QED
      BY <2>2, <3>1
  <2>3. CASE i = k + 2
    <3>1. t[i] = s[k + 1] /\ t[i - 1] = p /\ k < n /\ i # 1
      BY <1>1, <1>2, <2>3
    <3> QED
      BY <3>1
  <2>4. CASE i > k + 2
    <3>1. t[i] = s[i - 1] /\ i - 1 \in 1..n /\ i - 1 # k + 1 /\ i - 1 # 1
      BY <1>1, <1>2, <2>4
    <3>2. prev2[t[i]] = s[(i - 1) - 1]
      BY <1>1, <3>1
    <3>3. t[i - 1] = s[(i - 1) - 1] /\ i # 1
      BY <1>1, <1>2, <2>4
    <3> QED
      BY <3>2, <3>3
  <2> QED
    BY <1>1, <2>1, <2>2, <2>3, <2>4
<1> QED
  BY <1>3 DEF Backed, t

(* The k-th entry is unlinked.                                             *)
LEMMA ListDrop ==
    ASSUME NEW M \in Nat, NEW next, NEW h, NEW n, NEW s,
           Listed(next, h, M, n, s), NEW k \in 1..n, NEW next2, NEW h2,
           k > 1 => next2[s[k - 1]] = next[s[k]],
           \A i \in 1..n : i # k /\ i # k - 1 => next2[s[i]] = next[s[i]],
           h2 = IF k = 1 THEN next[s[k]] ELSE h
    PROVE  Listed(next2, h2, M, n - 1, Dropped(s, n, k))
<1> DEFINE t == Dropped(s, n, k)
<1>1. /\ n \in Nat /\ s \in [1..n -> 1..M]
      /\ \A i, j \in 1..n : s[i] = s[j] => i = j
      /\ h = IF n = 0 THEN 0 ELSE s[1]
      /\ \A i \in 1..n : next[s[i]] = IF i = n THEN 0 ELSE s[i + 1]
  BY DEF Listed
<1>2. /\ \A i \in 1..(n - 1) : t[i] = IF i < k THEN s[i] ELSE s[i + 1]
      /\ t \in [1..(n - 1) -> 1..M]
  BY <1>1 DEF Dropped
<1> HIDE DEF t
<1>3. ASSUME NEW i \in 1..(n - 1), NEW j \in 1..(n - 1), t[i] = t[j]
      PROVE  i = j
  <2> DEFINE from(x) == IF x < k THEN x ELSE x + 1
  <2>1. \A x \in 1..(n - 1) : from(x) \in 1..n /\ t[x] = s[from(x)]
    BY <1>1, <1>2
  <2>2. from(i) = from(j)
    <3> HIDE DEF from
    <3> QED
      BY <1>1, <1>3, <2>1
  <2> QED
    BY <2>2
<1>4. h2 = IF n - 1 = 0 THEN 0 ELSE t[1]
  <2>1. n # 1 => t[1] = IF 1 < k THEN s[1] ELSE s[2]
    BY <1>1, <1>2
  <2> QED
    BY <1>1, <2>1
<1>5. ASSUME NEW i \in 1..(n - 1)
      PROVE  next2[t[i]] = IF i = n - 1 THEN 0 ELSE t[i + 1]
  <2>1. CASE i < k - 1
    <3>1. t[i] = s[i] /\ t[i + 1] = s[i + 1] /\ i \in 1..n /\ i # n /\ i # n - 1
      BY <1>1, <1>2, <2>1
    <3> QED
      BY <1>1, <2>1, <3>1
  <2>2. CASE i = k - 1
    <3>1. t[i] = s[k - 1] /\ next2[t[i]] = next[s[k]]
      BY <1>1, <1>2, <2>2
    <3>2. i # n - 1 => t[i + 1] = s[k + 1]
      BY <1>1, <1>2, <2>2
    <3> QED
      BY <1>1, <2>2, <3>1, <3>2
  <2>3. CASE i >= k
    <3>1. t[i] = s[i + 1] /\ i + 1 \in 1..n /\ i + 1 # k /\ i + 1 # k - 1
      BY <1>1, <1>2, <2>3
    <3>2. next2[t[i]] = IF i + 1 = n THEN 0 ELSE s[(i + 1) + 1]
      BY <1>1, <3>1
    <3>3. i # n - 1 => t[i + 1] = s[(i + 1) + 1]
      BY <1>1, <1>2, <2>3
    <3> QED
      BY <1>1, <3>2, <3>3
  <2> QED
    BY <1>1, <2>1, <2>2, <2>3
<1>6. n - 1 \in Nat
  BY <1>1
<1> QED
  BY <1>2, <1>3, <1>4, <1>5, <1>6 DEF Listed, t

(* The links back after the entry has left. *)
LEMMA BackDrop ==
    ASSUME NEW M \in Nat, NEW next, NEW h, NEW n, NEW s,
           Listed(next, h, M, n, s), NEW prev, Backed(prev, n, s),
           NEW k \in 1..n, NEW prev2,
           k < n => prev2[s[k + 1]] = prev[s[k]],
           \A i \in 1..n : i # k /\ i # k + 1 => prev2[s[i]] = prev[s[i]]
    PROVE  Backed(prev2, n - 1, Dropped(s, n, k))
<1> DEFINE t == Dropped(s, n, k)
<1>1. /\ n \in Nat
      /\ \A i \in 1..n : prev[s[i]] = IF i = 1 THEN 0 ELSE s[i - 1]
  BY DEF Listed, Backed
<1>2. \A i \in 1..(n - 1) : t[i] = IF i < k THEN s[i] ELSE s[i + 1]
  BY DEF Dropped
<1> HIDE DEF t
<1>3. ASSUME NEW i \in 1..(n - 1)
      PROVE  prev2[t[i]] = IF i = 1 THEN 0 ELSE t[i - 1]
  <2>1. CASE i < k
    <3>1. t[i] = s[i] /\ i \in 1..n /\ i # k /\ i # k + 1
      BY <1>1, <1>2, <2>1
    <3>2. i # 1 => t[i - 1] = s[i - 1]
      BY <1>1, <1>2, <2>1
    <3> QED
      BY <1>1, <3>1, <3>2
  <2>2. CASE i = k
    <3>1. t[i] = s[k + 1] /\ k < n /\ (i # 1 => t[i - 1] = s[k - 1])
      BY <1>1, <1>2, <2>2
    <3> QED
      BY <1>1, <2>2, <3>1
  <2>3. CASE i > k
    <3>1. t[i] = s[i + 1] /\ i + 1 \in 1..n /\ i + 1 # k /\ i + 1 # k + 1
      BY <1>1, <1>2, <2>3
    <3>2. prev2[t[i]] = s[(i + 1) - 1]
      BY <1>1, <3>1
    <3>3. t[i - 1] = s[(i - 1) + 1] /\ i # 1
      BY <1>1, <1>2, <2>3
    <3> QED
      BY <1>1, <3>2, <3>3
  <2> QED
    BY <1>1, <2>1, <2>2, <2>3
<1> QED
  BY <1>3 DEF Backed, t

----------------------------------------------------------------------------
(* The order of a list as a sequence.                                      *)
LEMMA SeqOfOrder ==
    ASSUME NEW T, NEW n \in Nat, NEW s \in [1..n -> T]
    PROVE  s \in Seq(T) /\ Len(s) = n
<1>1. s \in Seq(T)
  BY SeqDef
<1>2. DOMAIN s = 1..Len(s) /\ Len(s) \in Nat
  BY <1>1, LenProperties
<1>3. DOMAIN s = 1..n
  OBVIOUS
<1> QED
  BY <1>1, <1>2, <1>3

(* A concatenation, entry by entry.                                        *)
LEMMA JoinIs ==
    ASSUME NEW T, NEW a \in Seq(T), NEW b \in Seq(T), NEW t \in Seq(T),
           Len(t) = Len(a) + Len(b), 
           \A i \in 1..Len(a) : t[i] = a[i],
           \A i \in 1..Len(b) : t[Len(a) + i] = b[i]
    PROVE  a \o b = t
<1>1. ASSUME NEW i \in 1..Len(t) PROVE (a \o b)[i] = t[i]
  <2>2. CASE i <= Len(a)
    BY <2>2
  <2>3. CASE i > Len(a)
    <3>1. i - Len(a) \in 1..Len(b) /\ Len(a) + (i - Len(a)) = i
      BY <2>3
    <3>2. t[Len(a) + (i - Len(a))] = b[i - Len(a)]
      BY <3>1
    <3> QED
      BY <2>3, <3>1, <3>2
  <2> QED
    BY <2>2, <2>3
<1>2. a \o b \in Seq(T) /\ Len(a \o b) = Len(t)
  OBVIOUS
<1> QED
  BY <1>1, <1>2, SeqEqual

(* The part of an order from i to j.                                       *)
LEMMA PartIs ==
    ASSUME NEW T, NEW n \in Nat, NEW s \in [1..n -> T],
           NEW i \in 1..(n + 1), NEW j \in 0..n, i <= j + 1
    PROVE  /\ SubSeq(s, i, j) \in Seq(T)
           /\ Len(SubSeq(s, i, j)) = j + 1 - i
           /\ \A x \in 1..(j + 1 - i) : SubSeq(s, i, j)[x] = s[i + x - 1]
<1>1. s \in Seq(T) /\ Len(s) = n
  BY SeqOfOrder
<1>2. \A x \in i..j : s[x] \in T
  OBVIOUS
<1>3. /\ SubSeq(s, i, j) \in Seq(T)
      /\ Len(SubSeq(s, i, j)) = IF i <= j THEN j - i + 1 ELSE 0
  BY <1>2, SubSeqProperties
<1>4. ASSUME NEW x \in 1..(j + 1 - i)
      PROVE  SubSeq(s, i, j)[x] = s[i + x - 1]
  BY <1>1
<1> QED
  BY <1>3, <1>4

(* Adding an entry is what a sequence has for it.                          *)
LEMMA AddedIsJoin ==
    ASSUME NEW T, NEW n \in Nat, NEW s \in [1..n -> T], NEW k \in 0..n, NEW p \in T
    PROVE  SubSeq(s, 1, k) \o <<p>> \o SubSeq(s, k + 1, n) = Added(s, n, k, p)
<1> DEFINE a == SubSeq(s, 1, k)
           b == SubSeq(s, k + 1, n)
           c == <<p>>
           d == [i \in 1..(k + 1) |-> IF i <= k THEN s[i] ELSE p]
<1>1. a \in Seq(T) /\ Len(a) = k /\ \A x \in 1..k : a[x] = s[x]
  <2>1. /\ SubSeq(s, 1, k) \in Seq(T)
        /\ Len(SubSeq(s, 1, k)) = k + 1 - 1
        /\ \A x \in 1..(k + 1 - 1) : SubSeq(s, 1, k)[x] = s[1 + x - 1]
    BY PartIs
  <2> QED
    BY <2>1
<1>2. b \in Seq(T) /\ Len(b) = n - k /\ \A x \in 1..(n - k) : b[x] = s[k + x]
  <2>1. /\ SubSeq(s, k + 1, n) \in Seq(T)
        /\ Len(SubSeq(s, k + 1, n)) = n + 1 - (k + 1)
        /\ \A x \in 1..(n + 1 - (k + 1)) : SubSeq(s, k + 1, n)[x] = s[k + 1 + x - 1]
    BY PartIs
  <2> QED
    BY <2>1
<1>3. c \in Seq(T) /\ Len(c) = 1 /\ c[1] = p
  OBVIOUS
<1> HIDE DEF a, b, c
<1>4. a \o c = d
  <2>1. /\ \A i \in 1..Len(a) : d[i] = a[i]
        /\ \A i \in 1..Len(c) : d[Len(a) + i] = c[i]
    BY <1>1, <1>3
  <2>2. d \in [1..(k + 1) -> T] /\ k + 1 = Len(a) + Len(c) /\ k + 1 \in Nat
    BY <1>1, <1>3
  <2> HIDE DEF d
  <2>3. d \in Seq(T) /\ Len(d) = Len(a) + Len(c)
    BY <2>2, SeqOfOrder
  <2> QED
    BY <1>1, <1>3, <2>1, <2>3, JoinIs
<1>5. d \in Seq(T) /\ Len(d) = k + 1
  <2>1. d \in [1..(k + 1) -> T] /\ k + 1 \in Nat
    OBVIOUS
  <2> HIDE DEF d
  <2> QED
    BY <2>1, SeqOfOrder
<1> DEFINE t == Added(s, n, k, p)
<1>6. d \o b = t
  <2>1. \A i \in 1..(k + 1) : t[i] = d[i]
    BY DEF Added
  <2>2. ASSUME NEW i \in 1..(n - k) PROVE t[k + 1 + i] = b[i]
    <3>1. k + 1 + i \in 1..(n + 1) /\ k + 1 + i > k + 1 /\ k + 1 + i - 1 = k + i
      OBVIOUS
    <3> QED
      BY <1>2, <3>1 DEF Added
  <2>3. t \in [1..(n + 1) -> T]
    BY DEF Added
  <2> HIDE DEF d, t
  <2>4. /\ n + 1 = Len(d) + Len(b) /\ n + 1 \in Nat
        /\ \A i \in 1..Len(d) : t[i] = d[i]
        /\ \A i \in 1..Len(b) : t[Len(d) + i] = b[i]
    BY <1>2, <1>5, <2>1, <2>2
  <2>5. t \in Seq(T) /\ Len(t) = n + 1
    BY <2>3, <2>4, SeqOfOrder
  <2>6. /\ d \in Seq(T) /\ b \in Seq(T) /\ t \in Seq(T)
        /\ Len(t) = Len(d) + Len(b)
    BY <1>2, <1>5, <2>4, <2>5
  <2> QED
    BY <2>4, <2>6, JoinIs
<1> QED
  BY <1>4, <1>6 DEF a, b, c

(* So is dropping one.                                                     *)
LEMMA DroppedIsJoin ==
    ASSUME NEW T, NEW n \in Nat, NEW s \in [1..n -> T], NEW k \in 1..n
    PROVE  SubSeq(s, 1, k - 1) \o SubSeq(s, k + 1, n) = Dropped(s, n, k)
<1> DEFINE a == SubSeq(s, 1, k - 1)
           b == SubSeq(s, k + 1, n)
           t == Dropped(s, n, k)
<1>1. a \in Seq(T) /\ Len(a) = k - 1 /\ \A x \in 1..(k - 1) : a[x] = s[x]
  <2>1. 1 \in 1..(n + 1) /\ k - 1 \in 0..n /\ 1 <= k - 1 + 1
    OBVIOUS
  <2>2. /\ SubSeq(s, 1, k - 1) \in Seq(T)
        /\ Len(SubSeq(s, 1, k - 1)) = k - 1 + 1 - 1
        /\ \A x \in 1..(k - 1 + 1 - 1) : SubSeq(s, 1, k - 1)[x] = s[1 + x - 1]
    BY <2>1, PartIs
  <2> QED
    BY <2>2
<1>2. b \in Seq(T) /\ Len(b) = n - k /\ \A x \in 1..(n - k) : b[x] = s[k + x]
  <2>1. /\ SubSeq(s, k + 1, n) \in Seq(T)
        /\ Len(SubSeq(s, k + 1, n)) = n + 1 - (k + 1)
        /\ \A x \in 1..(n + 1 - (k + 1)) : SubSeq(s, k + 1, n)[x] = s[k + 1 + x - 1]
    BY PartIs
  <2> QED
    BY <2>1
<1> HIDE DEF a, b
<1>3. \A i \in 1..(k - 1) : t[i] = a[i]
  BY <1>1 DEF Dropped
<1>4. ASSUME NEW i \in 1..(n - k) PROVE t[(k - 1) + i] = b[i]
  <2>1. (k - 1) + i \in 1..(n - 1) /\ ~((k - 1) + i < k) /\ (k - 1) + i + 1 = k + i
    OBVIOUS
  <2> QED
    BY <1>2, <2>1 DEF Dropped
<1>5. t \in [1..(n - 1) -> T]
  BY DEF Dropped
<1> HIDE DEF t
<1>6. /\ n - 1 = Len(a) + Len(b) /\ n - 1 \in Nat
      /\ \A i \in 1..Len(a) : t[i] = a[i]
      /\ \A i \in 1..Len(b) : t[Len(a) + i] = b[i]
  BY <1>1, <1>2, <1>3, <1>4
<1>7. t \in Seq(T) /\ Len(t) = n - 1
  BY <1>5, <1>6, SeqOfOrder
<1>8. a \o b = t
  <2>1. /\ a \in Seq(T) /\ b \in Seq(T) /\ t \in Seq(T)
        /\ Len(t) = Len(a) + Len(b)
    BY <1>1, <1>2, <1>6, <1>7
  <2> QED
    BY <1>6, <2>1, JoinIs
<1> QED
  BY <1>8 DEF a, b, t

(* The head of a queue and the rest, entry by entry.                       *)
LEMMA HeadAndRest ==
    ASSUME NEW T, NEW n \in Nat, NEW s \in [1..n -> T]
    PROVE  /\ n = 0 => s = <<>>
           /\ n > 0 => s # <<>> /\ Head(s) = s[1] /\ Tail(s) = Dropped(s, n, 1)
<1>1. s \in Seq(T) /\ Len(s) = n
  BY SeqOfOrder
<1>2. n = 0 => s = <<>>
  BY <1>1, EmptySeq
<1>3. ASSUME n > 0 PROVE s # <<>> /\ Head(s) = s[1] /\ Tail(s) = Dropped(s, n, 1)
  <2>1. s # <<>> /\ Head(s) = s[1]
    BY <1>1, <1>3
  <2>2. /\ Tail(s) \in Seq(T) /\ Len(Tail(s)) = n - 1
        /\ \A i \in 1..(n - 1) : Tail(s)[i] = s[i + 1]
    BY <1>1, <1>3
  <2>3. /\ Dropped(s, n, 1) \in [1..(n - 1) -> T]
        /\ \A i \in 1..(n - 1) : Dropped(s, n, 1)[i] = s[i + 1]
    BY DEF Dropped
  <2>4. Dropped(s, n, 1) \in Seq(T) /\ Len(Dropped(s, n, 1)) = n - 1
    BY <1>3, <2>3, SeqOfOrder
  <2>5. Tail(s) = Dropped(s, n, 1)
    BY <2>2, <2>3, <2>4, SeqEqual
  <2> QED
    BY <2>1, <2>5
<1> QED
  BY <1>2, <1>3
=============================================================================
