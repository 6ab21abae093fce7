--------------------------- MODULE SemSet_proofs ---------------------------
(***************************************************************************)
(* For every number of processes and semaphores and for all operation      *)
(* arrays, those that name a semaphore several times included: sem_op is   *)
(* all or nothing, loses no wakeup and never makes a value negative.       *)
(***************************************************************************)
EXTENDS SemSet, ListLemmas

(* What operation i of a adds to the value of s. *)
Effect(a, i, s) == IF a[i].num = s THEN a[i].op ELSE 0

(* sem_ctl is not asked for a negative value. *)
CtlValsNatural == CtlVals \subseteq Nat

----------------------------------------------------------------------------
(* What the sums of an array are, by induction on its length.              *)
LEMMA NetFacts ==
    ASSUME NEW a \in Seq(Op), NEW s
    PROVE  /\ Net(a, 0, s) = 0
           /\ \A n \in 0..Len(a) : Net(a, n, s) \in Int
           /\ \A n \in 1..Len(a) : Net(a, n, s) = Net(a, n - 1, s)
                                                    + Effect(a, n, s)
<1> DEFINE L == Len(a)
           Body(f) == [i \in 0..L |-> IF i = 0 THEN 0
                          ELSE f[i - 1] + IF a[i].num = s THEN a[i].op ELSE 0]
           F == CHOOSE f : f = Body(f)
           step == [i \in 1..L |-> [x \in Int |-> x + Effect(a, i, s)]]
<1>1. L \in Nat
  OBVIOUS
<1>2. \A i \in 1..L : Effect(a, i, s) \in Int
  <2>1. \A i \in 1..L : a[i] \in Op
    BY ElementOfSeq
  <2> QED
    BY <2>1 DEF Effect, Op
<1>3. \E f : f = Body(f)
  <2>1. step \in [1..L -> [Int -> Int]]
    BY <1>2
  <2>2. PICK f : Recursion(f, L, Int, 0, step)
    <3>1. 0 \in Int
      OBVIOUS
    <3> HIDE DEF step, L
    <3> QED
      BY <1>1, <2>1, <3>1, RecursionUpTo
  <2>3. \A i \in 1..L : f[i] = f[i - 1] + Effect(a, i, s)
    BY <2>2 DEF Recursion
  <2>4. f = Body(f)
    BY <2>2, <2>3 DEF Effect, Recursion
  <2> QED
    BY <2>4
<1>4. F = Body(F)
  <2> HIDE DEF Body
  <2> QED
    BY <1>3
<1>5. /\ F[0] = 0
      /\ \A n \in 1..L : F[n] = F[n - 1] + Effect(a, n, s)
  <2> HIDE DEF F, L
  <2> QED
    BY <1>1, <1>4 DEF Effect
<1>7. \A n \in 0..L : F[n] \in Int
  <2> DEFINE S == {n \in 0..L : F[n] \in Int}
  <2> HIDE DEF F, L
  <2>1. 0 \in S
    BY <1>1, <1>5
  <2>2. \A n \in 0..(L - 1) : n \in S => n + 1 \in S
    BY <1>1, <1>2, <1>5
  <2>3. \A n \in 0..L : n \in S
    <3> HIDE DEF S
    <3> QED
      BY <1>1, <2>1, <2>2, InductionUpTo
  <2> QED
    BY <2>3
<1>8. \A n : Net(a, n, s) = F[n]
  BY DEF Net
<1> QED
  BY <1>5, <1>7, <1>8

----------------------------------------------------------------------------
(* The inductive invariant. Where a process is in sem_op, and what its     *)
(* array is then known to be.                                              *)
Located ==
    \A p \in Proc :
        /\ at[p] # "user" => ops[p] \in Arrays
        /\ at[p] \in {"apply", "reverse"} => cpu = p /\ Valid(ops[p])
        /\ at[p] = "apply" => ip[p] <= Len(ops[p]) + 1
        /\ at[p] \in {"reverse", "asleep", "woken"} => ip[p] <= Len(ops[p])
        /\ at[p] = "reverse" => rp[p] < ip[p]

(* The operations that are applied and not yet reversed.                   *)
Done(p) == IF at[p] = "reverse" THEN rp[p] ELSE ip[p] - 1

(* During a pass the values are those the pass found and what the applied  *)
(* operations add to them, and no value was negative after any of them.    *)
PassExact ==
    \A p \in Proc : at[p] \in {"apply", "reverse"} =>
        \A s \in Sem :
            /\ val[s] = start[s] + Net(ops[p], Done(p), s)
            /\ \A k \in 0..Done(p) : start[s] + Net(ops[p], k, s) >= 0

(* A pass is reversed because a value was short, or not zero.              *)
BlockedAt(p) == start[Cur(p).num] + Net(ops[p], ip[p] - 1, Cur(p).num)

ReversedForCause ==
    \A p \in Proc : at[p] = "reverse" /\ Cur(p).op < 0
                        => BlockedAt(p) < -Cur(p).op

SemInv == /\ TypeOK
          /\ Located
          /\ NoOrphans
          /\ PassExact
          /\ ReversedForCause
          /\ NeverNegative
          /\ NoLostWakeup

----------------------------------------------------------------------------
(* The operations of an array of a process in sem_op.                      *)
LEMMA ArrayFacts ==
    ASSUME NEW a \in Arrays
    PROVE  /\ a \in Seq(Op)
           /\ Len(a) \in Nat \ {0}
           /\ \A i \in 1..Len(a) : a[i] \in Op
BY ParamAssumption, EmptySeq, ElementOfSeq

LEMMA OpFacts ==
    ASSUME NEW o \in Op
    PROVE  o.num \in Sem /\ o.op \in Int /\ o.nowait \in BOOLEAN
BY DEF Op

(* The operation that a process applies or is stopped at.                  *)
LEMMA CurFacts ==
    ASSUME SemInv, NEW p \in Proc, at[p] # "user", ip[p] <= Len(ops[p])
    PROVE  /\ ip[p] \in 1..Len(ops[p])
           /\ Cur(p) \in Op
           /\ Cur(p).num \in Sem /\ Cur(p).op \in Int
<1>1. ops[p] \in Arrays /\ ip[p] \in Nat \ {0}
  BY DEF SemInv, Located, TypeOK
<1>2. ip[p] \in 1..Len(ops[p])
  BY <1>1, ArrayFacts
<1>3. Cur(p) \in Op
  BY <1>1, <1>2, ArrayFacts DEF Cur
<1> QED
  BY <1>2, <1>3, OpFacts

(* Sleepers whose semaphore is woken are gone; a lower value leaves the    *)
(* others as short as they were.                                           *)
LEMMA SleepersOk ==
    ASSUME SemInv, NEW S, val' \in [Sem -> Int],
           \A q \in Proc : at'[q] = "asleep" =>
               /\ at[q] = "asleep" /\ Cur(q).num \notin S
               /\ ops'[q] = ops[q] /\ ip'[q] = ip[q],
           \A s \in Sem \ S : val'[s] <= val[s]
    PROVE  NoLostWakeup' /\ (nsems' = nsems => NoOrphans')
<1>1. ASSUME NEW p \in Proc, at'[p] = "asleep"
      PROVE  /\ at[p] = "asleep" /\ Cur(p).num \notin S
             /\ Cur(p)' = Cur(p)
             /\ ops'[p] = ops[p] /\ ip'[p] = ip[p]
             /\ Cur(p).num \in Sem /\ Cur(p).op \in Int
  BY <1>1, CurFacts DEF SemInv, Located, Cur
<1>2. ASSUME NEW p \in Proc, at'[p] = "asleep", Cur(p)'.op < 0
      PROVE  Offered(p)' < -Cur(p)'.op
  <2>1. ops[p] \in Arrays /\ ip[p] \in 1..Len(ops[p])
    BY <1>1, <1>2, CurFacts DEF SemInv, Located
  <2> DEFINE s == Cur(p).num
             net == Net(ops[p], ip[p] - 1, s)
  <2>2. net \in Int
    <3>1. ip[p] - 1 \in 0..Len(ops[p]) /\ ops[p] \in Seq(Op)
      BY <2>1, ArrayFacts
    <3> QED
      BY <3>1, NetFacts
  <2>3. Offered(p) = val[s] + net /\ Offered(p)' = val'[s] + net
    BY <1>1, <1>2 DEF Offered
  <2>4. val[s] \in Int /\ val'[s] \in Int /\ val'[s] <= val[s]
    BY <1>1, <1>2 DEF SemInv, TypeOK
  <2>5. Offered(p) < -Cur(p).op
    BY <1>1, <1>2 DEF SemInv, NoLostWakeup
  <2> QED
    BY <1>1, <1>2, <2>2, <2>3, <2>4, <2>5
<1>3. NoLostWakeup'
  BY <1>2 DEF NoLostWakeup
<1>4. nsems' = nsems => NoOrphans'
  BY <1>1 DEF NoOrphans, SemInv
<1> QED
  BY <1>3, <1>4

(* The same for a step that changes no value.                              *)
LEMMA UnmovedSleepersOk ==
    ASSUME SemInv, NEW p \in Proc, UNCHANGED set, at'[p] # "asleep",
           \A q \in Proc \ {p} : /\ at'[q] = at[q]
                                 /\ ops'[q] = ops[q] /\ ip'[q] = ip[q]
    PROVE  NoLostWakeup' /\ NoOrphans'
<1> DEFINE S == {}
<1>1. val' \in [Sem -> Int] /\ \A s \in Sem \ S : val'[s] <= val[s]
  BY DEF set, SemInv, TypeOK
<1>2. \A q \in Proc : at'[q] = "asleep" =>
               /\ at[q] = "asleep" /\ Cur(q).num \notin S
               /\ ops'[q] = ops[q] /\ ip'[q] = ip[q]
  OBVIOUS
<1> HIDE DEF S
<1> QED
  BY <1>1, <1>2, SleepersOk DEF set

(* Nobody is inside sem_op when the CPU is not.                            *)
LEMMA NobodyInside ==
    ASSUME SemInv, NEW p \in Proc, cpu # p
    PROVE  at[p] \notin {"apply", "reverse"}
BY DEF SemInv, Located

----------------------------------------------------------------------------
(* A pass that starts: at "restart:".                                      *)
LEMMA PassStarts ==
    ASSUME SemInv, NEW p \in Proc, cpu \in {p, NoProc},
           NEW a \in Arrays, Valid(a),
           at' = [at EXCEPT ![p] = "apply"],
           ops' \in [Proc -> Arrays \cup {<<>>}], ops'[p] = a,
           \A q \in Proc \ {p} : ops'[q] = ops[q],
           ip' = [ip EXCEPT ![p] = 1],
           cpu' = p, start' = val, pend' = pend, UNCHANGED <<set, rp>>
    PROVE  SemInv'
<1> USE DEF set
<1>1. TypeOK'
  BY DEF SemInv, TypeOK, At
<1>2. \A q \in Proc \ {p} : /\ at'[q] = at[q] /\ ip'[q] = ip[q]
                            /\ at'[q] \notin {"apply", "reverse"}
  BY ParamAssumption, NobodyInside DEF SemInv, TypeOK
<1>3. at'[p] = "apply" /\ ip'[p] = 1
  BY DEF SemInv, TypeOK
<1>4. Located'
  <2>1. ip'[p] <= Len(ops'[p]) + 1
    BY <1>3, ArrayFacts
  <2> QED
    BY <1>2, <1>3, <2>1 DEF SemInv, Located, Valid
<1>5. NoLostWakeup' /\ NoOrphans'
  BY <1>1, <1>2, <1>3, UnmovedSleepersOk DEF TypeOK
<1>6. PassExact'
  <2>1. Done(p)' = 0
    BY <1>3 DEF Done
  <2>2. ASSUME NEW s \in Sem
        PROVE  /\ Net(ops[p], 0, s)' = 0
               /\ val'[s] = start'[s] /\ start'[s] \in Int /\ start'[s] >= 0
    <3>1. Net(a, 0, s) = 0
      BY ArrayFacts, NetFacts
    <3> QED
      BY <3>1 DEF SemInv, TypeOK, NeverNegative
  <2> QED
    BY <1>2, <2>1, <2>2 DEF PassExact
<1>7. ReversedForCause'
  BY <1>2, <1>3 DEF ReversedForCause
<1>8. NeverNegative'
  BY DEF SemInv, NeverNegative
<1> QED
  BY <1>1, <1>4, <1>5, <1>6, <1>7, <1>8 DEF SemInv

(* A call that returns.                                                    *)
LEMMA Returns ==
    ASSUME SemInv, NEW p \in Proc, cpu \in {p, NoProc}, Return(p),
           UNCHANGED <<set, rp>>
    PROVE  SemInv'
<1> USE DEF set
<1>1. TypeOK'
  BY DEF SemInv, TypeOK, Return, At, Zeros
<1>2. \A q \in Proc \ {p} : /\ at'[q] = at[q] /\ ip'[q] = ip[q]
                            /\ ops'[q] = ops[q]
                            /\ at'[q] \notin {"apply", "reverse"}
  BY ParamAssumption, NobodyInside DEF SemInv, TypeOK, Return
<1>3. at'[p] = "user"
  BY DEF SemInv, TypeOK, Return
<1>4. Located'
  BY <1>2, <1>3 DEF SemInv, Located, Valid
<1>5. NoLostWakeup' /\ NoOrphans'
  BY <1>1, <1>2, <1>3, UnmovedSleepersOk DEF TypeOK
<1>6. PassExact' /\ ReversedForCause'
  BY <1>2, <1>3 DEF PassExact, ReversedForCause
<1>7. NeverNegative'
  BY DEF SemInv, NeverNegative
<1> QED
  BY <1>1, <1>4, <1>5, <1>6, <1>7 DEF SemInv

(* One operation of a pass is done: a V, a P that finds enough or a Z that *)
(* finds zero.                                                             *)
LEMMA Advances ==
    ASSUME SemInv, NEW p \in Proc, AtOp(p),
           val' = [val EXCEPT ![Cur(p).num] = @ + Cur(p).op],
           val[Cur(p).num] + Cur(p).op >= 0,
           at' \in {at, Waked({Cur(p).num})},
           Cur(p).op > 0 => at' = Waked({Cur(p).num}),
           ip' = [ip EXCEPT ![p] = @ + 1],
           UNCHANGED <<nsems, ops, rp, cpu, pend, start>>
    PROVE  SemInv'
<1> DEFINE c == Cur(p).num
           o == Cur(p).op
<1>1. /\ at[p] = "apply" /\ cpu = p
      /\ ip[p] \in 1..Len(ops[p]) /\ ops[p] \in Arrays
      /\ c \in Sem /\ o \in Int
  BY CurFacts DEF AtOp, SemInv, Located
<1>2. at' \in [Proc -> At]
  BY DEF SemInv, TypeOK, Waked, At
<1>3. /\ at'[p] = "apply" /\ ip'[p] = ip[p] + 1
      /\ \A q \in Proc \ {p} : /\ ip'[q] = ip[q]
                               /\ at'[q] \notin {"apply", "reverse"}
                               /\ \/ at'[q] = at[q]
                                  \/ at[q] = "asleep" /\ at'[q] = "woken"
  <2>1. \A q \in Proc : \/ at'[q] = at[q]
                        \/ at[q] = "asleep" /\ at'[q] = "woken"
    BY DEF Waked
  <2>2. \A q \in Proc \ {p} : at[q] \notin {"apply", "reverse"}
    BY <1>1, NobodyInside
  <2>3. ip \in [Proc -> Nat \ {0}]
    BY DEF SemInv, TypeOK
  <2> QED
    BY <1>1, <2>1, <2>2, <2>3
<1>4. \A s \in Sem : val'[s] = IF s = c THEN val[s] + o ELSE val[s]
  BY <1>1 DEF SemInv, TypeOK
<1>5. TypeOK'
  <2>1. val' \in [Sem -> Int]
    BY <1>1 DEF SemInv, TypeOK
  <2>2. ip' \in [Proc -> Nat \ {0}]
    BY DEF SemInv, TypeOK
  <2> QED
    BY <1>2, <2>1, <2>2 DEF SemInv, TypeOK
<1>6. Located'
  <2>1. ip'[p] <= Len(ops[p]) + 1
    BY <1>1, <1>3
  <2> QED
    BY <1>1, <1>3, <2>1 DEF SemInv, Located, Valid
<1>7. NoLostWakeup' /\ NoOrphans'
  <2> DEFINE S == IF o > 0 THEN {c} ELSE {}
  <2>1. \A s \in Sem \ S : val'[s] <= val[s]
    BY <1>1, <1>4 DEF SemInv, TypeOK
  <2>2. \A q \in Proc : at'[q] = "asleep" =>
               /\ at[q] = "asleep" /\ Cur(q).num \notin S
               /\ ops'[q] = ops[q] /\ ip'[q] = ip[q]
    BY <1>3 DEF Waked
  <2>3. val' \in [Sem -> Int]
    BY <1>5 DEF TypeOK
  <2> HIDE DEF S
  <2> QED
    BY <2>1, <2>2, <2>3, SleepersOk
<1>8. PassExact'
  <2> DEFINE k == ip[p]
  <2>1. Done(p) = k - 1 /\ Done(p)' = k
    BY <1>1, <1>3 DEF Done, SemInv, TypeOK
  <2>2. ASSUME NEW s \in Sem
        PROVE  /\ Net(ops[p], k, s) = Net(ops[p], k - 1, s)
                                          + (IF s = c THEN o ELSE 0)
               /\ Net(ops[p], k - 1, s) \in Int
    <3> DEFINE a == ops[p]
    <3>1. a \in Seq(Op) /\ k \in 1..Len(a) /\ k - 1 \in 0..Len(a)
      BY <1>1, ArrayFacts
    <3>2. Effect(a, k, s) = IF s = c THEN o ELSE 0
      BY DEF Effect, Cur
    <3> HIDE DEF a, k
    <3>3. /\ Net(a, k, s) = Net(a, k - 1, s) + Effect(a, k, s)
          /\ Net(a, k - 1, s) \in Int
      BY <3>1, NetFacts
    <3> QED
      BY <3>2, <3>3 DEF a
  <2>3. ASSUME NEW s \in Sem
        PROVE  /\ val'[s] = start[s] + Net(ops[p], k, s)
               /\ val'[s] >= 0
               /\ \A n \in 0..(k - 1) : start[s] + Net(ops[p], n, s) >= 0
    <3>1. val[s] = start[s] + Net(ops[p], k - 1, s)
      BY <1>1, <2>1 DEF SemInv, PassExact
    <3>2. \A n \in 0..(k - 1) : start[s] + Net(ops[p], n, s) >= 0
      BY <1>1, <2>1 DEF SemInv, PassExact
    <3>3. val[s] \in Int /\ start[s] \in Int /\ val[s] >= 0
      BY DEF SemInv, TypeOK, NeverNegative
    <3>4. val'[s] = val[s] + (IF s = c THEN o ELSE 0)
      BY <1>4, <3>3
    <3>5. val'[s] >= 0
      BY <1>4, <3>3
    <3> HIDE DEF k, c, o
    <3>6. (IF s = c THEN o ELSE 0) \in Int
      BY <1>1
    <3> QED
      BY <2>2, <3>1, <3>2, <3>3, <3>4, <3>5, <3>6
  <2>4. ASSUME NEW s \in Sem, NEW n \in 0..k
        PROVE  start[s] + Net(ops[p], n, s) >= 0
    <3>1. n = k \/ n \in 0..(k - 1)
      BY <1>1
    <3> QED
      BY <2>3, <3>1
  <2> QED
    BY <1>3, <2>1, <2>3, <2>4 DEF PassExact
<1>9. ReversedForCause'
  BY <1>3 DEF ReversedForCause
<1>10. NeverNegative'
  BY <1>4, <1>1 DEF SemInv, NeverNegative, TypeOK
<1> QED
  BY <1>5, <1>6, <1>7, <1>8, <1>9, <1>10 DEF SemInv

(* A pass is stopped.                                                      *)
LEMMA Blocks ==
    ASSUME SemInv, NEW p \in Proc, Block(p)
    PROVE  SemInv'
<1>1. /\ at[p] = "apply" /\ cpu = p
      /\ ip[p] \in 1..Len(ops[p]) /\ ops[p] \in Arrays
      /\ Cur(p).num \in Sem /\ Cur(p).op \in Int
  BY CurFacts DEF Block, AtOp, SemInv, Located
<1>2. /\ at'[p] = "reverse" /\ rp'[p] = ip[p] - 1
      /\ \A q \in Proc \ {p} : /\ rp'[q] = rp[q] /\ at'[q] = at[q]
                               /\ at'[q] \notin {"apply", "reverse"}
      /\ UNCHANGED <<set, ops, ip, cpu, pend, start>>
  <2>1. \A q \in Proc \ {p} : at[q] \notin {"apply", "reverse"}
    BY <1>1, NobodyInside
  <2> QED
    BY <2>1 DEF Block, SemInv, TypeOK
<1>3. TypeOK'
  BY <1>1 DEF Block, set, SemInv, TypeOK, At
<1>4. Located'
  <2>1. rp'[p] < ip[p] /\ ip[p] <= Len(ops[p])
    BY <1>1, <1>2
  <2> QED
    BY <1>1, <1>2, <2>1 DEF SemInv, Located, Valid, set
<1>5. NoLostWakeup' /\ NoOrphans'
  BY <1>2, UnmovedSleepersOk
<1>6. Done(p)' = Done(p)
  BY <1>1, <1>2 DEF Done
<1>7. PassExact'
  BY <1>1, <1>2, <1>6 DEF SemInv, PassExact, set
<1>8. ReversedForCause'
  <2>1. val[Cur(p).num] = BlockedAt(p)
    BY <1>1 DEF SemInv, PassExact, Done, BlockedAt
  <2>2. val[Cur(p).num] \in Int
    BY <1>1 DEF SemInv, TypeOK
  <2>3. Cur(p).op < 0 => BlockedAt(p) < -Cur(p).op
    BY <1>1, <2>1, <2>2 DEF Block, CanAcquire
  <2>4. BlockedAt(p)' = BlockedAt(p) /\ Cur(p)' = Cur(p)
    BY <1>2 DEF BlockedAt, Cur
  <2> QED
    BY <1>2, <2>3, <2>4 DEF ReversedForCause
<1>9. NeverNegative'
  BY <1>2 DEF SemInv, NeverNegative, set
<1> QED
  BY <1>3, <1>4, <1>5, <1>7, <1>8, <1>9 DEF SemInv

(* One operation of a stopped pass is reversed.                            *)
LEMMA Reverses ==
    ASSUME SemInv, NEW p \in Proc, Reverse(p)
    PROVE  SemInv'
<1> DEFINE a == ops[p]
           k == rp[p]
           c == a[k].num
           o == a[k].op
<1>1. /\ at[p] = "reverse" /\ cpu = p /\ a \in Arrays /\ a \in Seq(Op)
      /\ ip[p] \in 1..Len(a) /\ k \in 1..(ip[p] - 1) /\ k \in 1..Len(a)
  <2>1. at[p] = "reverse" /\ cpu = p /\ k > 0
    BY DEF Reverse
  <2>2. a \in Arrays /\ ip[p] \in 1..Len(a) /\ k < ip[p] /\ k \in Nat
    BY <2>1, CurFacts DEF SemInv, Located, TypeOK
  <2> QED
    BY <2>1, <2>2, ArrayFacts
<1>2. a[k] \in Op /\ c \in Sem /\ o \in Int
  BY <1>1, ArrayFacts, OpFacts
<1>3. \A s \in Sem : val'[s] = IF s = c THEN val[s] - o ELSE val[s]
  BY <1>2 DEF Reverse, SemInv, TypeOK
<1>4. at' \in [Proc -> At]
  BY DEF Reverse, SemInv, TypeOK, Waked, At
<1>5. TypeOK'
  <2>1. val' \in [Sem -> Int]
    BY <1>2 DEF Reverse, SemInv, TypeOK
  <2>2. rp' \in [Proc -> Nat]
    BY <1>1 DEF Reverse, SemInv, TypeOK
  <2> QED
    BY <1>4, <2>1, <2>2 DEF Reverse, SemInv, TypeOK
<1>6. /\ at'[p] = "reverse" /\ rp'[p] = k - 1
      /\ \A q \in Proc \ {p} : /\ rp'[q] = rp[q]
                               /\ at'[q] \notin {"apply", "reverse"}
                               /\ \/ at'[q] = at[q]
                                  \/ at[q] = "asleep" /\ at'[q] = "woken"
      /\ UNCHANGED <<nsems, ops, ip, cpu, pend, start>>
  <2>1. \A q \in Proc : \/ at'[q] = at[q]
                        \/ at[q] = "asleep" /\ at'[q] = "woken"
    BY DEF Reverse, Waked
  <2>2. \A q \in Proc \ {p} : at[q] \notin {"apply", "reverse"}
    BY <1>1, NobodyInside
  <2> QED
    BY <1>1, <2>1, <2>2 DEF Reverse, SemInv, TypeOK
<1>7. Located'
  <2>1. rp'[p] < ip[p] /\ ip[p] <= Len(a)
    BY <1>1, <1>6
  <2> QED
    BY <1>1, <1>6, <2>1 DEF SemInv, Located, Valid
<1>8. NoLostWakeup' /\ NoOrphans'
  <2> DEFINE S == {c}
  <2>1. \A s \in Sem \ S : val'[s] <= val[s]
    BY <1>3 DEF SemInv, TypeOK
  <2>2. \A q \in Proc : at'[q] = "asleep" =>
               /\ at[q] = "asleep" /\ Cur(q).num \notin S
               /\ ops'[q] = ops[q] /\ ip'[q] = ip[q]
    BY <1>6 DEF Reverse, Waked
  <2>3. val' \in [Sem -> Int]
    BY <1>5 DEF TypeOK
  <2> HIDE DEF S
  <2> QED
    BY <1>6, <2>1, <2>2, <2>3, SleepersOk
<1>9. \A s \in Sem : /\ val'[s] = start[s] + Net(a, k - 1, s)
                     /\ val'[s] >= 0
                     /\ \A n \in 0..(k - 1) : start[s] + Net(a, n, s) >= 0
  <2> TAKE s \in Sem
  <2>1. /\ val[s] = start[s] + Net(a, k, s)
        /\ \A n \in 0..k : start[s] + Net(a, n, s) >= 0
    BY <1>1 DEF SemInv, PassExact, Done
  <2>2. val[s] \in Int /\ start[s] \in Int
    BY DEF SemInv, TypeOK
  <2>3. Effect(a, k, s) = (IF s = c THEN o ELSE 0) /\ Effect(a, k, s) \in Int
    BY <1>2 DEF Effect
  <2>4. k - 1 \in 0..k /\ k - 1 \in 0..Len(a) /\ 0..(k - 1) \subseteq 0..k
    BY <1>1
  <2> HIDE DEF a, k
  <2>5. Net(a, k - 1, s) \in Int /\ Net(a, k, s) = Net(a, k - 1, s)
                                                 + Effect(a, k, s)
    BY <1>1, <2>4, NetFacts
  <2>6. val'[s] = val[s] - Effect(a, k, s)
    BY <1>3, <2>2, <2>3
  <2>7. val'[s] = start[s] + Net(a, k - 1, s)
    BY <2>1, <2>2, <2>3, <2>5, <2>6
  <2> QED
    BY <2>1, <2>4, <2>7
<1>10. PassExact'
  <2>1. Done(p)' = k - 1
    BY <1>6 DEF Done
  <2> QED
    BY <1>6, <1>9, <2>1 DEF PassExact
<1>11. ReversedForCause'
  <2>1. BlockedAt(p)' = BlockedAt(p) /\ Cur(p)' = Cur(p)
    BY <1>6 DEF BlockedAt, Cur
  <2> QED
    BY <1>1, <1>6, <2>1 DEF SemInv, ReversedForCause
<1>12. NeverNegative'
  BY <1>9 DEF NeverNegative
<1> QED
  BY <1>5, <1>7, <1>8, <1>10, <1>11, <1>12 DEF SemInv

(* A stopped pass is reversed: every value is as the pass found it.        *)
LEMMA ReversedExact ==
    ASSUME SemInv, NEW p \in Proc, Reversed(p)
    PROVE  val = start
<1>1. ops[p] \in Arrays /\ at[p] = "reverse" /\ rp[p] = 0
  BY DEF Reversed, SemInv, Located
<1>2. \A s \in Sem : Net(ops[p], 0, s) = 0
  BY <1>1, ArrayFacts, NetFacts
<1>3. \A s \in Sem : val[s] = start[s] + 0
  BY <1>1, <1>2 DEF SemInv, PassExact, Done
<1> QED
  BY <1>3 DEF SemInv, TypeOK

(* A process whose pass was reversed sleeps.                               *)
LEMMA Sleeps ==
    ASSUME SemInv, NEW p \in Proc, SleepOn(p)
    PROVE  SemInv'
<1>1. /\ at[p] = "reverse" /\ cpu = p /\ val = start
      /\ ip[p] \in 1..Len(ops[p]) /\ ops[p] \in Arrays
      /\ Cur(p).num \in Sem /\ Cur(p).op \in Int
  BY CurFacts, ReversedExact DEF SleepOn, Reversed, SemInv, Located
<1>2. /\ at'[p] = "asleep"
      /\ \A q \in Proc \ {p} : /\ at'[q] = at[q]
                               /\ at'[q] \notin {"apply", "reverse"}
      /\ UNCHANGED <<set, ops, ip, rp>>
  <2>1. \A q \in Proc \ {p} : at[q] \notin {"apply", "reverse"}
    BY <1>1, NobodyInside
  <2> QED
    BY <2>1 DEF SleepOn, set, call, SemInv, TypeOK
<1>3. TypeOK'
  BY DEF SleepOn, set, call, SemInv, TypeOK, At, Zeros
<1>4. Located'
  BY <1>1, <1>2 DEF SemInv, Located
<1>5. \A q \in Proc : Cur(q)' = Cur(q) /\ Offered(q)' = Offered(q)
  BY <1>2 DEF Cur, Offered, set
<1>6. Cur(p).num < nsems
  <2>1. ip[p] \in DOMAIN ops[p]
    BY <1>1, ArrayFacts
  <2> QED
    BY <1>1, <2>1 DEF SemInv, Located, Valid, Cur
<1>7. NoOrphans'
  BY <1>2, <1>5, <1>6 DEF SemInv, NoOrphans, set
<1>8. Offered(p) = BlockedAt(p)
  BY <1>1 DEF Offered, BlockedAt
<1>9. NoLostWakeup'
  BY <1>1, <1>2, <1>5, <1>8 DEF SemInv, NoLostWakeup, ReversedForCause
<1>10. PassExact' /\ ReversedForCause'
  BY <1>2 DEF PassExact, ReversedForCause
<1>11. NeverNegative'
  BY <1>2 DEF SemInv, NeverNegative, set
<1> QED
  BY <1>3, <1>4, <1>7, <1>9, <1>10, <1>11 DEF SemInv

(* A call of sem_ctl or sem_get wakes the sleepers of S, whose values it   *)
(* changes, or finds nobody asleep.                                        *)
LEMMA SetChanges ==
    ASSUME SemInv, cpu = NoProc, NEW S, at' = Waked(S),
           nsems' \in 0..IPC_MAX_SEMS,
           val' \in [Sem -> Int], \A s \in Sem : val'[s] >= 0,
           \A s \in Sem \ S : val'[s] = val[s],
           nsems' = nsems \/ \A q \in Proc : at'[q] # "asleep",
           UNCHANGED <<call, cpu, pend, start>>
    PROVE  SemInv'
<1>1. TypeOK'
  BY DEF SemInv, TypeOK, Waked, At, call
<1>2. \A q \in Proc : /\ at[q] \notin {"apply", "reverse"}
                     /\ \/ at'[q] = at[q]
                        \/ at[q] = "asleep" /\ at'[q] = "woken"
                     /\ ops'[q] = ops[q] /\ ip'[q] = ip[q]
  BY ParamAssumption, NobodyInside DEF Waked, call
<1>3. Located'
  BY <1>2 DEF SemInv, Located
<1>4. PassExact' /\ ReversedForCause'
  BY <1>2 DEF PassExact, ReversedForCause
<1>5. NoLostWakeup' /\ NoOrphans'
  <2>1. \A s \in Sem \ S : val'[s] <= val[s]
    BY DEF SemInv, TypeOK
  <2>2. \A q \in Proc : at'[q] = "asleep" =>
               /\ at[q] = "asleep" /\ Cur(q).num \notin S
               /\ ops'[q] = ops[q] /\ ip'[q] = ip[q]
    BY <1>2 DEF Waked
  <2>3. NoLostWakeup' /\ (nsems' = nsems => NoOrphans')
    BY <2>1, <2>2, SleepersOk
  <2> QED
    BY <2>3 DEF NoOrphans
<1>6. NeverNegative'
  BY DEF NeverNegative
<1> QED
  BY <1>1, <1>3, <1>4, <1>5, <1>6 DEF SemInv

(* On a slot that is free nobody sleeps.                                   *)
LEMMA SemGetStep ==
    ASSUME SemInv, NEW n \in 0..(IPC_MAX_SEMS + 1), SemGet(n)
    PROVE  SemInv'
<1>1. \A q \in Proc : at[q] # "asleep"
  <2> SUFFICES ASSUME NEW q \in Proc, at[q] = "asleep" PROVE FALSE
    OBVIOUS
  <2>1. Cur(q).num \in Sem
    BY CurFacts DEF SemInv, Located
  <2>2. Cur(q).num < 0
    BY DEF SemInv, NoOrphans, SemGet
  <2> QED
    BY <2>1, <2>2, ParamAssumption DEF Sem
<1> DEFINE S == Sem
<1>2. at' = Waked(S)
  BY <1>1 DEF SemGet, Waked, SemInv, TypeOK
<1>3. /\ nsems' \in 0..IPC_MAX_SEMS
      /\ val' \in [Sem -> Int] /\ \A s \in Sem : val'[s] >= 0
      /\ \A s \in Sem \ S : val'[s] = val[s]
      /\ UNCHANGED <<call, cpu, pend, start>> /\ cpu = NoProc
      /\ \A q \in Proc : at'[q] # "asleep"
  BY <1>1, ParamAssumption DEF SemGet, SizeOk, Caller, Zeros
<1> HIDE DEF S
<1> QED
  BY <1>2, <1>3, SetChanges

LEMMA RemoveStep ==
    ASSUME SemInv, Remove
    PROVE  SemInv'
<1> DEFINE S == InSet
<1>1. \A q \in Proc : at'[q] # "asleep"
  <2> SUFFICES ASSUME NEW q \in Proc, at[q] = "asleep"
               PROVE  Cur(q).num \in S
    BY DEF Remove, Waked
  <2>1. Cur(q).num \in Sem
    BY CurFacts DEF SemInv, Located
  <2> QED
    BY <2>1 DEF SemInv, NoOrphans, InSet
<1>2. ASSUME NEW s \in Sem
      PROVE  val'[s] = 0
  BY DEF Remove, Zeros
<1>3. /\ nsems' \in 0..IPC_MAX_SEMS
      /\ val' \in [Sem -> Int]
      /\ at' = Waked(S)
      /\ UNCHANGED <<call, cpu, pend, start>> /\ cpu = NoProc
  BY ParamAssumption DEF Remove, Caller, Zeros
<1>4. PICK T : T = Sem
  OBVIOUS
<1>5. at' = Waked(T)
  <2>1. \A q \in Proc : at[q] = "asleep" => Cur(q).num \in T /\ Cur(q).num \in S
    <3> SUFFICES ASSUME NEW q \in Proc, at[q] = "asleep"
                 PROVE  Cur(q).num \in Sem /\ Cur(q).num \in S
      BY <1>4
    <3>1. Cur(q).num \in Sem
      BY CurFacts DEF SemInv, Located
    <3> QED
      BY <3>1 DEF SemInv, NoOrphans, InSet
  <2> QED
    BY <1>3, <2>1 DEF Waked
<1> QED
  BY <1>1, <1>2, <1>3, <1>4, <1>5, SetChanges

LEMMA SetValStep ==
    ASSUME SemInv, CtlValsNatural, NEW s \in Sem, NEW v \in CtlVals,
           SetVal(s, v)
    PROVE  SemInv'
<1> DEFINE S == {s}
<1>1. v \in Nat
  BY DEF CtlValsNatural
<1>2. /\ at' = Waked(S) /\ nsems' = nsems /\ nsems' \in 0..IPC_MAX_SEMS
      /\ val' \in [Sem -> Int] /\ \A t \in Sem : val'[t] >= 0
      /\ \A t \in Sem \ S : val'[t] = val[t]
      /\ UNCHANGED <<call, cpu, pend, start>> /\ cpu = NoProc
  BY <1>1 DEF SetVal, Caller, SemInv, TypeOK, NeverNegative
<1> HIDE DEF S
<1> QED
  BY <1>2, SetChanges

LEMMA SetAllStep ==
    ASSUME SemInv, CtlValsNatural, NEW v \in CtlVals, SetAll(v)
    PROVE  SemInv'
<1> DEFINE S == InSet
<1>1. v \in Nat
  BY DEF CtlValsNatural
<1>2. /\ at' = Waked(S) /\ nsems' = nsems /\ nsems' \in 0..IPC_MAX_SEMS
      /\ val' \in [Sem -> Int] /\ \A t \in Sem : val'[t] >= 0
      /\ \A t \in Sem \ S : val'[t] = val[t]
      /\ UNCHANGED <<call, cpu, pend, start>> /\ cpu = NoProc
  BY <1>1 DEF SetAll, InSet, Caller, SemInv, TypeOK, NeverNegative
<1> HIDE DEF S
<1> QED
  BY <1>2, SetChanges

----------------------------------------------------------------------------
(* The two ways a process is back at "restart:".                           *)
LEMMA Restarts ==
    ASSUME SemInv, NEW p \in Proc, cpu \in {p, NoProc}, at[p] # "user",
           Restart(p), UNCHANGED <<set, rp>>
    PROVE  SemInv'
<1>1. CASE ~Valid(ops[p])
  BY <1>1, Returns DEF Restart
<1>2. CASE Valid(ops[p])
  <2>1. ops[p] \in Arrays
    BY DEF SemInv, Located
  <2>2. /\ ops' \in [Proc -> Arrays \cup {<<>>}] /\ ops' = ops
        /\ at' = [at EXCEPT ![p] = "apply"] /\ ip' = [ip EXCEPT ![p] = 1]
        /\ cpu' = p /\ start' = val /\ pend' = pend
    BY <1>2 DEF Restart, SemInv, TypeOK
  <2> QED
    BY <1>2, <2>1, <2>2, PassStarts
<1> QED
  BY <1>1, <1>2

LEMMA SemInit == Init => SemInv
<1> SUFFICES ASSUME Init PROVE SemInv
  OBVIOUS
<1>1. TypeOK
  BY ParamAssumption DEF Init, TypeOK, At, Zeros
<1>2. Located /\ NoOrphans /\ PassExact /\ ReversedForCause /\ NoLostWakeup
  BY DEF Init, Located, NoOrphans, PassExact, ReversedForCause, NoLostWakeup
<1>3. NeverNegative
  BY DEF Init, NeverNegative, Zeros
<1> QED
  BY <1>1, <1>2, <1>3 DEF SemInv

LEMMA InKernelStep ==
    ASSUME SemInv, NEW p \in Proc, InKernel(p)
    PROVE  SemInv'
<1>1. AtOp(p) => /\ Cur(p).num \in Sem /\ Cur(p).op \in Int
                 /\ val[Cur(p).num] \in Int /\ val[Cur(p).num] >= 0
  BY CurFacts DEF AtOp, SemInv, TypeOK, NeverNegative
<1> DEFINE c == Cur(p).num
           o == Cur(p).op
<1>2. CASE Release(p)
  <2>1. AtOp(p) /\ val[c] + o >= 0
    BY <1>1, <1>2 DEF Release
  <2>2. /\ val' = [val EXCEPT ![c] = @ + o]
        /\ at' = Waked({c}) /\ ip' = [ip EXCEPT ![p] = @ + 1]
        /\ UNCHANGED <<nsems, ops, rp, cpu, pend, start>>
    BY <1>2 DEF Release
  <2>3. at' \in {at, Waked({c})}
    BY <2>2
  <2> QED
    BY <2>1, <2>2, <2>3, Advances
<1>3. CASE Acquire(p)
  <2>1. AtOp(p) /\ val[c] + o >= 0 /\ ~(o > 0)
    BY <1>1, <1>3 DEF Acquire, CanAcquire
  <2>2. /\ val' = [val EXCEPT ![c] = @ + o]
        /\ ip' = [ip EXCEPT ![p] = @ + 1]
        /\ UNCHANGED <<nsems, ops, rp, cpu, pend, start>>
    BY <1>3 DEF Acquire
  <2>3. at' \in {at, Waked({c})}
    BY <1>3 DEF Acquire
  <2> QED
    BY <2>1, <2>2, <2>3, Advances
<1>4. CASE PassZero(p)
  <2>1. AtOp(p) /\ val[c] + o >= 0 /\ ~(o > 0)
    BY <1>1, <1>4 DEF PassZero
  <2>2. /\ ip' = [ip EXCEPT ![p] = @ + 1]
        /\ UNCHANGED <<nsems, val, ops, rp, cpu, pend, start>>
    BY <1>4 DEF PassZero, set
  <2>3. at' \in {at, Waked({c})}
    BY <1>4 DEF PassZero
  <2>4. val' = [val EXCEPT ![c] = @ + o]
    <3>1. o = 0 /\ val[c] + o = val[c]
      BY <1>1, <1>4 DEF PassZero
    <3> HIDE DEF c, o
    <3> QED
      BY <2>2, <3>1 DEF SemInv, TypeOK
  <2> QED
    BY <2>1, <2>2, <2>3, <2>4, Advances
<1>5. CASE Block(p)
  BY <1>5, Blocks
<1>6. CASE Reverse(p)
  BY <1>6, Reverses
<1>7. CASE WouldBlock(p)
  BY <1>7, Returns DEF WouldBlock, Reversed
<1>8. CASE SleepOn(p)
  BY <1>8, Sleeps
<1>9. CASE Interrupted(p)
  BY <1>9, Restarts DEF Interrupted, Reversed
<1>10. CASE Finish(p)
  BY <1>10, Returns DEF Finish
<1> QED
  BY <1>2, <1>3, <1>4, <1>5, <1>6, <1>7, <1>8, <1>9, <1>10 DEF InKernel

LEMMA SemStep ==
    ASSUME CtlValsNatural
    PROVE  SemInv /\ [Next]_vars => SemInv'
<1> SUFFICES ASSUME SemInv, [Next]_vars
             PROVE  SemInv'
  OBVIOUS
<1>1. ASSUME NEW p \in Proc, NEW a \in Arrays, SemOp(p, a)
      PROVE  SemInv'
  <2>1. /\ ops' \in [Proc -> Arrays \cup {<<>>}] /\ ops'[p] = a
        /\ \A q \in Proc \ {p} : ops'[q] = ops[q]
    BY <1>1 DEF SemOp, SemInv, TypeOK
  <2> QED
    BY <1>1, <2>1, PassStarts DEF SemOp
<1>2. ASSUME NEW p \in Proc, InKernel(p)
      PROVE  SemInv'
  BY <1>2, InKernelStep
<1>3. ASSUME NEW p \in Proc, Resume(p)
      PROVE  SemInv'
  BY <1>3, Restarts DEF Resume, set
<1>4. ASSUME NEW p \in Proc, Signal(p)
      PROVE  SemInv'
  <2>1. TypeOK'
    BY <1>4 DEF Signal, set, call, SemInv, TypeOK
  <2> QED
    BY <1>4, <2>1 DEF Signal, set, call, SemInv, Located, Valid, NoOrphans,
        PassExact, Done, ReversedForCause, BlockedAt, NeverNegative,
        NoLostWakeup, Offered, Cur
<1>5. CASE UNCHANGED vars
  BY <1>5 DEF vars, SemInv, TypeOK, Located, Valid, NoOrphans,
        PassExact, Done, ReversedForCause, BlockedAt, NeverNegative,
        NoLostWakeup, Offered, Cur
<1> QED
  BY <1>1, <1>2, <1>3, <1>4, <1>5, SemGetStep, SetValStep, SetAllStep,
     RemoveStep DEF Next

----------------------------------------------------------------------------
(* The invariant holds of every behaviour.                                 *)
LEMMA SemInvariant ==
    ASSUME CtlValsNatural
    PROVE  Spec => []SemInv
BY SemInit, SemStep, PTL DEF Spec

(* The state keeps its type.                                               *)
THEOREM SemTyped ==
    ASSUME CtlValsNatural
    PROVE  Spec => []TypeOK
<1>1. SemInv => TypeOK
  BY DEF SemInv
<1> QED
  BY <1>1, SemInvariant, PTL

(* sem.c:229: nobody sleeps for a value to rise that is high enough.       *)
THEOREM NoWakeupLost ==
    ASSUME CtlValsNatural
    PROVE  Spec => []NoLostWakeup
<1>1. SemInv => NoLostWakeup
  BY DEF SemInv
<1> QED
  BY <1>1, SemInvariant, PTL

(* sem.c:152: a pass that cannot be completed leaves every value as it was *)
(* found, an array that names a semaphore several times included.          *)
THEOREM SemOpAllOrNothing ==
    ASSUME CtlValsNatural
    PROVE  Spec => []AllOrNothing
<1>1. SemInv => AllOrNothing
  BY ReversedExact DEF AllOrNothing
<1> QED
  BY <1>1, SemInvariant, PTL

(* sem.c:218: no value is ever negative, in the middle of a reversal       *)
(* included, if sem_ctl is not asked for one.                              *)
THEOREM ValuesNatural ==
    ASSUME CtlValsNatural
    PROVE  Spec => []NeverNegative
<1>1. SemInv => NeverNegative
  BY DEF SemInv
<1> QED
  BY <1>1, SemInvariant, PTL

(* sem.c:134: removing the set leaves nobody asleep on it.                 *)
THEOREM NobodyOrphaned ==
    ASSUME CtlValsNatural
    PROVE  Spec => []NoOrphans
<1>1. SemInv => NoOrphans
  BY DEF SemInv
<1> QED
  BY <1>1, SemInvariant, PTL
=============================================================================
