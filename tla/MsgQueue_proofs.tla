-------------------------- MODULE MsgQueue_proofs --------------------------
(***************************************************************************)
(* For every number of processes and nodes, every limit and every set of   *)
(* calls: nobody sleeps beside what he waits for, the node pool balances   *)
(* with the list, and the list is the queue that MsgFifo describes.        *)
(***************************************************************************)
EXTENDS MsgQueue, ListLemmas

Places == {"user", "asleep", "woken"}

(* What every step preserves. A sleeper belongs to a queue that exists, so *)
(* a queue that is created finds none.                                     *)
WaitersTyped == /\ at \in [Proc -> Places]
                /\ req \in [Proc -> Calls \cup {NoReq}]

SleepersHaveQueue == \A p \in Proc : at[p] = "asleep" => active

ReceiverInv == WaitersTyped /\ SleepersHaveQueue /\ NoStrandedReceiver

----------------------------------------------------------------------------
(* What a receiver would take depends on the list and its messages only.   *)
LEMMA ChosenUnchanged ==
    ASSUME UNCHANGED <<first, next, body>>, NEW t
    PROVE  Chosen(t)' = Chosen(t)
BY DEF Chosen, Chain

(* A return that wakes leaves nobody asleep.                               *)
LEMMA WakeReturn ==
    ASSUME WaitersTyped, NEW p \in Proc, Return(p, TRUE)
    PROVE  /\ WaitersTyped'
           /\ \A q \in Proc : at'[q] # "asleep"
BY DEF WaitersTyped, Return, Waked, Places

(* Nobody asleep: nothing to show.                                         *)
LEMMA NobodyAsleep ==
    ASSUME WaitersTyped', \A q \in Proc : at'[q] # "asleep"
    PROVE  ReceiverInv'
BY DEF ReceiverInv, SleepersHaveQueue, NoStrandedReceiver

(* A return that wakes nobody and leaves the queue as it is.               *)
LEMMA QuietReturn ==
    ASSUME ReceiverInv, NEW p \in Proc, Return(p, FALSE),
           UNCHANGED <<queue, pool>>
    PROVE  ReceiverInv'
<1>1. \A t : Chosen(t)' = Chosen(t)
  BY ChosenUnchanged DEF queue, pool
<1>2. WaitersTyped'
  BY DEF ReceiverInv, WaitersTyped, Return, Places
<1>3. ASSUME NEW q \in Proc, at'[q] = "asleep"
      PROVE  at[q] = "asleep" /\ req'[q] = req[q]
  BY <1>3 DEF ReceiverInv, WaitersTyped, Return, Places
<1>4. SleepersHaveQueue'
  BY <1>3 DEF ReceiverInv, SleepersHaveQueue, queue
<1>5. NoStrandedReceiver'
  BY <1>1, <1>3 DEF ReceiverInv, NoStrandedReceiver
<1> QED
  BY <1>2, <1>4, <1>5 DEF ReceiverInv

(* A call that goes to sleep on a queue that holds nothing for it.         *)
LEMMA BlockKeeps ==
    ASSUME ReceiverInv, active, NEW p \in Proc, NEW r \in Calls \cup {NoReq},
           r.op = "rcv" => Chosen(r.type) = 0, Block(p, r)
    PROVE  ReceiverInv'
<1>1. \A t : Chosen(t)' = Chosen(t)
  BY ChosenUnchanged DEF Block, queue, pool
<1>2. WaitersTyped'
  BY DEF ReceiverInv, WaitersTyped, Block, Places
<1>3. SleepersHaveQueue'
  BY DEF SleepersHaveQueue, Block, queue
<1>4. ASSUME NEW q \in Proc, at'[q] = "asleep", req'[q].op = "rcv"
      PROVE  Chosen(req'[q].type) = 0
  <2>1. CASE q = p
    BY <1>4, <2>1 DEF ReceiverInv, WaitersTyped, Block
  <2>2. CASE q # p
    BY <1>4, <2>2 DEF ReceiverInv, WaitersTyped, NoStrandedReceiver, Block
  <2> QED
    BY <2>1, <2>2
<1>5. NoStrandedReceiver'
  BY <1>1, <1>4 DEF NoStrandedReceiver
<1> QED
  BY <1>2, <1>3, <1>5 DEF ReceiverInv

(* msg_snd and msg_rcv, from the call or from the return of ipc_sleep.     *)
LEMMA SendReceive ==
    ASSUME ReceiverInv, active, NEW p \in Proc, NEW r \in Calls \cup {NoReq},
           Send(p, r) \/ Receive(p, r)
    PROVE  ReceiverInv'
<1>1. WaitersTyped
  BY DEF ReceiverInv
<1>2. CASE Block(p, r) /\ r.op = "snd"
  BY <1>2, BlockKeeps
<1>3. CASE Block(p, r) /\ Chosen(r.type) = 0
  BY <1>3, BlockKeeps
<1>4. CASE Return(p, FALSE) /\ UNCHANGED <<queue, pool>>
  BY <1>4, QuietReturn
<1>5. CASE Return(p, TRUE)
  BY <1>1, <1>5, WakeReturn, NobodyAsleep
<1>6. Append1(p, r) => \/ Return(p, FALSE) /\ UNCHANGED <<queue, pool>>
                       \/ Return(p, TRUE)
  BY DEF Append1
<1>7. ASSUME NEW i, Take(p, r, i)
      PROVE  \/ Return(p, FALSE) /\ UNCHANGED <<queue, pool>>
             \/ Return(p, TRUE)
  BY <1>7 DEF Take
<1> QED
  BY <1>2, <1>3, <1>4, <1>5, <1>6, <1>7 DEF Send, Receive

----------------------------------------------------------------------------
(* The first state.                                                        *)
LEMMA ReceiverInit == Init => ReceiverInv
BY DEF Init, ReceiverInv, WaitersTyped, SleepersHaveQueue,
       NoStrandedReceiver, Places

(* Every step keeps what the receivers rely on.                            *)
LEMMA ReceiverStep == ReceiverInv /\ [Next]_vars => ReceiverInv'
<1> SUFFICES ASSUME ReceiverInv, [Next]_vars
             PROVE  ReceiverInv'
  OBVIOUS
<1>1. CASE UNCHANGED vars
  <2>1. \A t : Chosen(t)' = Chosen(t)
    BY <1>1, ChosenUnchanged DEF vars
  <2> QED
    BY <1>1, <2>1 DEF ReceiverInv, WaitersTyped, SleepersHaveQueue,
                      NoStrandedReceiver, vars
<1>2. ASSUME NEW p \in Proc, NEW r \in Calls, Call(p, r)
      PROVE  ReceiverInv'
  BY <1>2, SendReceive DEF Call
<1>3. ASSUME NEW p \in Proc, Resume(p)
      PROVE  ReceiverInv'
  <2>1. req[p] \in Calls \cup {NoReq}
    BY DEF ReceiverInv, WaitersTyped
  <2>2. CASE Return(p, FALSE) /\ UNCHANGED <<queue, pool>>
    BY <2>2, QuietReturn
  <2>3. CASE active /\ (Send(p, req[p]) \/ Receive(p, req[p]))
    BY <2>1, <2>3, SendReceive
  <2> QED
    BY <1>3, <2>2, <2>3 DEF Resume
<1>4. CASE MsgGet
  <2>1. WaitersTyped'
    BY <1>4 DEF MsgGet, ReceiverInv, WaitersTyped
  <2>2. \A q \in Proc : at'[q] # "asleep"
    BY <1>4 DEF MsgGet, ReceiverInv, SleepersHaveQueue
  <2> QED
    BY <2>1, <2>2, NobodyAsleep
<1>5. ASSUME NEW l \in NewLimits, Set(l)
      PROVE  ReceiverInv'
  <2>1. \A t : Chosen(t)' = Chosen(t)
    BY <1>5, ChosenUnchanged DEF Set, pool
  <2> QED
    BY <1>5, <2>1 DEF Set, ReceiverInv, WaitersTyped, SleepersHaveQueue,
                      NoStrandedReceiver
<1>6. CASE Remove
  <2>1. WaitersTyped'
    BY <1>6 DEF Remove, Waked, ReceiverInv, WaitersTyped, Places
  <2>2. \A q \in Proc : at'[q] # "asleep"
    BY <1>6 DEF Remove, Waked
  <2> QED
    BY <2>1, <2>2, NobodyAsleep
<1> QED
  BY <1>1, <1>2, <1>3, <1>4, <1>5, <1>6 DEF Next

(* msg.c:318: whatever the order of sends, receives by any selector,       *)
(* removals and re-creations, nobody sleeps in msg_rcv while the queue     *)
(* holds a message the search of msg_rcv would stop at.                    *)
THEOREM ReceiversAwake == Spec => []NoStrandedReceiver
<1>1. ReceiverInv => NoStrandedReceiver
  BY DEF ReceiverInv
<1> QED
  BY <1>1, ReceiverInit, ReceiverStep, PTL DEF Spec

----------------------------------------------------------------------------
(* The list of nodes. In the order s, the n nodes from q->first on are the *)
(* ones marked used, the last of them is q->last, and the two counters are *)
(* those of their messages.                                                *)
Bodies(bd, n, s) == [i \in 1..n |-> bd[s[i]]]

Ordered(f, l, c, b, nx, bd, us, n, s) ==
    /\ Listed(nx, f, POOL, n, s)
    /\ Members(n, s) = us
    /\ l = (IF n = 0 THEN 0 ELSE s[n])
    /\ c = n
    /\ Bodies(bd, n, s) \in [1..n -> Message]
    /\ b = Fifo!Bytes(Bodies(bd, n, s))

Order(n, s) == Ordered(first, last, count, bytes, next, body, used, n, s)

(* What is marked free is not linked and holds nothing: msg_snd links a    *)
(* node without clearing its link.                                         *)
FreeNodesClear == \A m \in Node \ used : next[m] = Nil /\ body[m] = NoMsg

ClosedHoldsNothing == ~active => used = {}

(* The bytes fit the limit that some message was accepted under.           *)
BytesBounded == bytes \in Nat /\ \E l \in NewLimits \cup {QBYTES} : bytes <= l

QueueTyped ==
    /\ active \in BOOLEAN /\ qbytes \in Nat
    /\ active => qbytes \in NewLimits \cup {QBYTES}
    /\ next \in [Node -> Node \cup {Nil}]
    /\ body \in [Node -> Message \cup {NoMsg}]
    /\ used \subseteq Node
    /\ evicted \subseteq Proc

QueueInv == /\ QueueTyped
            /\ FreeNodesClear /\ ClosedHoldsNothing /\ BytesBounded
            /\ \E n, s : Order(n, s)

(* The walk of Chain, over the head and the links it is given.             *)
ChainFrom(f, nx) ==
    LET w[i \in 1..POOL] == IF i = 1 THEN f
                            ELSE IF w[i - 1] = Nil THEN Nil ELSE nx[w[i - 1]]
    IN  [i \in 1..Cardinality({i \in 1..POOL : w[i] # Nil}) |-> w[i]]

(* Chain is the walk from q->first.                                        *)
LEMMA ChainIsFrom == Chain = ChainFrom(first, next)
BY Zenon DEF Chain, ChainFrom

(* The walk yields the nodes in their order.                               *)
LEMMA ChainIs ==
    ASSUME NEW f, NEW nx, NEW n, NEW s, Listed(nx, f, POOL, n, s)
    PROVE  ChainFrom(f, nx) = s
<1> DEFINE Body(g) == [i \in 1..POOL |->
                          IF i = 1 THEN f
                          ELSE IF g[i - 1] = Nil THEN Nil ELSE nx[g[i - 1]]]
           F == CHOOSE g : g = Body(g)
           E == [i \in 1..POOL |-> IF i <= n THEN s[i] ELSE Nil]
<1>1. ChainFrom(f, nx) = [i \in 1..Cardinality({i \in 1..POOL : F[i] # Nil}) |-> F[i]]
  BY Zenon DEF ChainFrom
<1>2. /\ POOL \in Nat /\ n \in Nat /\ n <= POOL /\ s \in [1..n -> 1..POOL]
      /\ f = (IF n = 0 THEN 0 ELSE s[1])
      /\ \A i \in 1..n : nx[s[i]] = IF i = n THEN 0 ELSE s[i + 1]
  <2>1. POOL \in Nat
    BY ParamAssumption
  <2>2. n \in 0..POOL
    BY <2>1, ListSize
  <2> QED
    BY <2>1, <2>2 DEF Listed
<1>3. ASSUME NEW g, NEW i \in 1..POOL, i # 1 => g[i - 1] = E[i - 1]
      PROVE  E[i] = IF i = 1 THEN f
                    ELSE IF g[i - 1] = Nil THEN Nil ELSE nx[g[i - 1]]
  <2>1. CASE i = 1
    BY <1>2, <2>1 DEF Nil
  <2>2. CASE i # 1 /\ i - 1 <= n
    <3>1. i - 1 \in 1..n /\ i - 1 \in 1..POOL /\ (i - 1) + 1 = i
      BY <1>2, <2>2
    <3>2. g[i - 1] = s[i - 1] /\ s[i - 1] # Nil
      BY <1>2, <1>3, <2>2, <3>1 DEF Nil
    <3>3. nx[s[i - 1]] = IF i - 1 = n THEN 0 ELSE s[i]
      BY <1>2, <3>1
    <3>4. i - 1 = n <=> ~(i <= n)
      BY <1>2, <2>2
    <3> QED
      BY <2>2, <3>2, <3>3, <3>4 DEF Nil
  <2>3. CASE i # 1 /\ ~(i - 1 <= n)
    <3>1. i - 1 \in 1..POOL /\ ~(i <= n)
      BY <1>2, <2>3
    <3> QED
      BY <1>3, <2>3, <3>1
  <2> QED
    BY <2>1, <2>2, <2>3
<1>4. E = Body(E)
  <2>1. ASSUME NEW i \in 1..POOL PROVE E[i] = Body(E)[i]
    <3> HIDE DEF E
    <3>1. E[i] = IF i = 1 THEN f
                 ELSE IF E[i - 1] = Nil THEN Nil ELSE nx[E[i - 1]]
      BY <1>3
    <3> QED
      BY <3>1
  <2>2. E = [i \in 1..POOL |-> E[i]] /\ Body(E) = [i \in 1..POOL |-> Body(E)[i]]
    OBVIOUS
  <2> HIDE DEF E, Body
  <2> QED
    BY <2>1, <2>2
<1>5. F = Body(F)
  <2> HIDE DEF Body, E
  <2> QED
    BY <1>4
<1> HIDE DEF F
<1> DEFINE S == {i \in 0..POOL : i = 0 \/ F[i] = E[i]}
<1>6. 0 \in S
  BY <1>2
<1>7. ASSUME NEW i \in 0..(POOL - 1), i \in S
      PROVE  i + 1 \in S
  <2>1. i + 1 \in 1..POOL /\ (i + 1) - 1 = i /\ i + 1 \in 0..POOL
    BY <1>2
  <2>2. F[i + 1] = IF i + 1 = 1 THEN f
                   ELSE IF F[(i + 1) - 1] = Nil THEN Nil ELSE nx[F[(i + 1) - 1]]
    BY <1>5, <2>1
  <2>3. i + 1 # 1 => F[(i + 1) - 1] = E[(i + 1) - 1]
    BY <1>7, <2>1
  <2> HIDE DEF E
  <2>4. F[i + 1] = E[i + 1]
    BY <1>3, <2>1, <2>2, <2>3
  <2> QED
    BY <2>1, <2>4
<1>8. \A i \in 1..POOL : F[i] = IF i <= n THEN s[i] ELSE Nil
  <2>1. \A i \in 0..POOL : i \in S
    <3> HIDE DEF S
    <3>1. \A i \in 0..(POOL - 1) : i \in S => i + 1 \in S
      BY <1>7
    <3> QED
      BY <1>2, <1>6, <3>1, InductionUpTo
  <2>2. ASSUME NEW i \in 1..POOL PROVE F[i] = E[i]
    <3> HIDE DEF E
    <3>1. i \in 0..POOL /\ i # 0
      BY <1>2
    <3> QED
      BY <2>1, <3>1
  <2> QED
    BY <2>2
<1>9. {i \in 1..POOL : F[i] # Nil} = 1..n
  BY <1>2, <1>8 DEF Nil
<1>10. Cardinality(1..n) = n
  BY <1>2, FS_Interval
<1>11. \A i \in 1..n : F[i] = s[i]
  BY <1>2, <1>8
<1>12. s = [i \in 1..n |-> s[i]]
  BY <1>2
<1> QED
  BY <1>1, <1>9, <1>10, <1>11, <1>12

----------------------------------------------------------------------------
(* The bytes of a queue, message by message.                               *)
Sums(g, n, q) == /\ g \in [0..n -> Nat]
                 /\ g[0] = 0
                 /\ \A i \in 1..n : g[i] = g[i - 1] + q[i].size

Sized(n, q) == n \in Nat /\ Len(q) = n /\ \A i \in 1..n : q[i].size \in Nat

(* The sums up to each message exist.                                      *)
LEMMA SumsExist ==
    ASSUME NEW n, NEW q, Sized(n, q)
    PROVE  \E g : Sums(g, n, q)
<1> DEFINE step == [i \in 1..n |-> [x \in Nat |-> x + q[i].size]]
<1>1. n \in Nat /\ \A i \in 1..n : q[i].size \in Nat
  BY DEF Sized
<1>2. step \in [1..n -> [Nat -> Nat]]
  BY <1>1
<1>3. PICK g : Recursion(g, n, Nat, 0, step)
  <2> HIDE DEF step
  <2>1. 0 \in Nat
    OBVIOUS
  <2>2. \A z \in {0} : \E g : Recursion(g, n, Nat, z, step)
    BY <1>1, <1>2, <2>1, RecursionUpTo
  <2> QED
    BY <2>2
<1>4. /\ g \in [0..n -> Nat] /\ g[0] = 0
      /\ \A i \in 1..n : g[i] = step[i][g[i - 1]]
  BY <1>3 DEF Recursion
<1>5. ASSUME NEW i \in 1..n PROVE g[i] = g[i - 1] + q[i].size
  <2>1. g[i - 1] \in Nat
    BY <1>1, <1>4
  <2> QED
    BY <1>4, <2>1
<1> QED
  BY <1>4, <1>5 DEF Sums

(* The bytes of a queue are the last of them.                              *)
LEMMA BytesIs ==
    ASSUME NEW n, NEW q, Sized(n, q), NEW g, Sums(g, n, q)
    PROVE  Fifo!Bytes(q) = g[n]
<1> DEFINE Body(h) == [i \in 0..Len(q) |-> IF i = 0 THEN 0
                                          ELSE h[i - 1] + q[i].size]
           F == CHOOSE h : h = Body(h)
<1>1. Fifo!Bytes(q) = F[Len(q)]
  BY Zenon DEF Fifo!Bytes
<1>2. /\ n \in Nat /\ Len(q) = n
      /\ g \in [0..n -> Nat] /\ g[0] = 0
      /\ \A i \in 1..n : g[i] = g[i - 1] + q[i].size
  BY DEF Sized, Sums
<1>3. g = Body(g)
  <2>1. \A i \in 0..n : g[i] = IF i = 0 THEN 0 ELSE g[i - 1] + q[i].size
    BY <1>2
  <2> QED
    BY <1>2, <2>1
<1>4. F = Body(F)
  <2> HIDE DEF Body
  <2> QED
    BY <1>3
<1> HIDE DEF F
<1> DEFINE S == {i \in 0..n : F[i] = g[i]}
<1>5. 0 \in S
  <2>1. F[0] = 0
    BY <1>2, <1>4
  <2> QED
    BY <1>2, <2>1
<1>6. ASSUME NEW i \in 0..(n - 1), i \in S
      PROVE  i + 1 \in S
  <2>1. i + 1 \in 1..n /\ (i + 1) - 1 = i /\ i + 1 \in 0..n /\ i + 1 # 0
    BY <1>2
  <2>2. F[i + 1] = F[(i + 1) - 1] + q[i + 1].size
    BY <1>2, <1>4, <2>1
  <2>3. g[i + 1] = g[(i + 1) - 1] + q[i + 1].size
    BY <1>2, <2>1
  <2> QED
    BY <1>6, <2>1, <2>2, <2>3
<1>7. \A i \in 0..n : i \in S
  <2> HIDE DEF S
  <2>1. \A i \in 0..(n - 1) : i \in S => i + 1 \in S
    BY <1>6
  <2> QED
    BY <1>2, <1>5, <2>1, InductionUpTo
<1> QED
  BY <1>1, <1>2, <1>7

(* The bytes of a queue are a number, none of an empty one.                *)
LEMMA BytesNat ==
    ASSUME NEW n, NEW q, Sized(n, q)
    PROVE  Fifo!Bytes(q) \in Nat /\ (n = 0 => Fifo!Bytes(q) = 0)
<1>1. PICK g : Sums(g, n, q)
  BY SumsExist
<1>2. Fifo!Bytes(q) = g[n]
  BY <1>1, BytesIs
<1> QED
  BY <1>1, <1>2 DEF Sums, Sized

(* A message behind the others adds its size.                              *)
LEMMA BytesAdded ==
    ASSUME NEW n, NEW q, Sized(n, q), NEW r, Sized(n + 1, r),
           \A i \in 1..n : r[i] = q[i]
    PROVE  Fifo!Bytes(r) = Fifo!Bytes(q) + r[n + 1].size
<1>1. PICK g : Sums(g, n, q)
  BY SumsExist
<1> DEFINE h == [i \in 0..(n + 1) |-> IF i <= n THEN g[i] ELSE g[n] + r[n + 1].size]
<1>2. /\ n \in Nat /\ r[n + 1].size \in Nat
      /\ g \in [0..n -> Nat] /\ g[0] = 0
      /\ \A i \in 1..n : g[i] = g[i - 1] + r[i].size
  BY <1>1 DEF Sized, Sums
<1>3. Sums(h, n + 1, r)
  <2>1. h \in [0..(n + 1) -> Nat] /\ h[0] = 0
    BY <1>2
  <2>2. ASSUME NEW i \in 1..(n + 1) PROVE h[i] = h[i - 1] + r[i].size
    BY <1>2
  <2> QED
    BY <2>1, <2>2 DEF Sums
<1>4. h[n + 1] = g[n] + r[n + 1].size
  BY <1>2
<1> HIDE DEF h
<1>5. Fifo!Bytes(r) = h[n + 1] /\ Fifo!Bytes(q) = g[n]
  BY <1>1, <1>3, BytesIs
<1> QED
  BY <1>4, <1>5

(* The k-th message takes its size along.                                  *)
LEMMA BytesDropped ==
    ASSUME NEW n, NEW q, Sized(n, q), NEW k \in 1..n,
           NEW r, Sized(n - 1, r),
           \A i \in 1..(n - 1) : r[i] = IF i < k THEN q[i] ELSE q[i + 1]
    PROVE  Fifo!Bytes(r) = Fifo!Bytes(q) - q[k].size
<1>1. PICK g : Sums(g, n, q)
  BY SumsExist
<1>2. PICK h : Sums(h, n - 1, r)
  BY SumsExist
<1>3. /\ n \in Nat /\ n - 1 \in Nat /\ \A i \in 1..n : q[i].size \in Nat
      /\ g \in [0..n -> Nat] /\ g[0] = 0
      /\ \A i \in 1..n : g[i] = g[i - 1] + q[i].size
      /\ h \in [0..(n - 1) -> Nat] /\ h[0] = 0
      /\ \A i \in 1..(n - 1) : h[i] = h[i - 1] + r[i].size
  BY <1>1, <1>2 DEF Sized, Sums
<1> DEFINE S == {i \in 0..(n - 1) : h[i] = IF i < k THEN g[i]
                                          ELSE g[i + 1] - q[k].size}
<1>4. 0 \in S
  BY <1>3
<1>5. ASSUME NEW i \in 0..((n - 1) - 1), i \in S
      PROVE  i + 1 \in S
  <2>0. i \in Nat /\ i <= n - 2 /\ n \in Nat
    BY <1>3
  <2>1. /\ i + 1 \in 1..(n - 1) /\ (i + 1) - 1 = i /\ i + 1 \in 1..n
        /\ i + 2 \in 1..n /\ (i + 1) + 1 = i + 2 /\ i + 2 - 1 = i + 1
        /\ i \in 0..n /\ i + 1 \in 0..n /\ i + 1 \in 0..(n - 1)
    BY <2>0
  <2>2. h[i + 1] = h[i] + (IF i + 1 < k THEN q[i + 1] ELSE q[i + 2]).size
    BY <1>3, <2>1
  <2>3. h[i] = IF i < k THEN g[i] ELSE g[i + 1] - q[k].size
    BY <1>5
  <2>4. g[i + 1] = g[i] + q[i + 1].size /\ g[i + 2] = g[i + 1] + q[i + 2].size
    BY <1>3, <2>1
  <2>5. g[i] \in Nat /\ q[i + 1].size \in Nat /\ q[i + 2].size \in Nat /\ q[k].size \in Nat
    BY <1>3, <2>1
  <2>6. CASE i + 1 < k
    <3>1. h[i + 1] = g[i + 1]
      BY <2>2, <2>3, <2>4, <2>6
    <3> QED
      BY <2>1, <2>6, <3>1
  <2>7. CASE i + 1 = k
    <3>1. h[i + 1] = g[i + 2] - q[k].size
      BY <2>2, <2>3, <2>4, <2>5, <2>7
    <3> QED
      BY <2>1, <2>7, <3>1
  <2>8. CASE i + 1 > k
    <3>1. h[i + 1] = g[i + 2] - q[k].size
      BY <2>2, <2>3, <2>4, <2>5, <2>8
    <3> QED
      BY <2>1, <2>8, <3>1
  <2> QED
    BY <2>1, <2>6, <2>7, <2>8
<1>6. n - 1 \in S
  <2> HIDE DEF S
  <2>1. \A i \in 0..((n - 1) - 1) : i \in S => i + 1 \in S
    BY <1>5
  <2>2. \A i \in 0..(n - 1) : i \in S
    BY <1>3, <1>4, <2>1, InductionUpTo
  <2> QED
    BY <1>3, <2>2
<1>7. h[n - 1] = g[n] - q[k].size
  <2>1. CASE n - 1 < k
    <3>1. k = n /\ h[n - 1] = g[n - 1] /\ n \in 1..n
      BY <1>3, <1>6, <2>1
    <3>2. g[n] = g[n - 1] + q[k].size /\ g[n - 1] \in Nat /\ q[k].size \in Nat
      BY <1>3, <3>1
    <3> QED
      BY <3>1, <3>2
  <2>2. CASE ~(n - 1 < k)
    <3>1. (n - 1) + 1 = n
      BY <1>3
    <3> QED
      BY <1>6, <2>2, <3>1
  <2> QED
    BY <2>1, <2>2
<1>8. Fifo!Bytes(q) = g[n] /\ Fifo!Bytes(r) = h[n - 1]
  BY <1>1, <1>2, BytesIs
<1> QED
  BY <1>7, <1>8

----------------------------------------------------------------------------
(* A message has a type and a size above 0.                                *)
LEMMA MessageIs ==
    ASSUME NEW m \in Message
    PROVE  m.type \in Nat \ {0} /\ m.size \in Nat \ {0} /\ m # NoMsg
<1>1. PICK r \in Calls : r.op = "snd" /\ m = [type |-> r.type, size |-> r.size]
  BY DEF Message
<1>2. r \in Requests
  BY ParamAssumption
<1>3. r.type \in Nat \ {0} /\ r.size \in Nat \ {0}
  BY <1>1, <1>2 DEF Requests
<1> QED
  BY <1>1, <1>3 DEF NoMsg

(* The messages of the list are a sequence of messages.                    *)
LEMMA QueueOfMessages ==
    ASSUME NEW n \in Nat, NEW q \in [1..n -> Message]
    PROVE  q \in Seq(Message) /\ Len(q) = n /\ Sized(n, q)
<1>1. q \in Seq(Message) /\ Len(q) = n
  BY SeqOfOrder
<1>2. \A i \in 1..n : q[i].size \in Nat
  BY MessageIs
<1> QED
  BY <1>1, <1>2 DEF Sized

(* The head and the links after q is put behind l.                         *)
HeadWith(f, l, q) == IF l = Nil THEN q ELSE f
Put(bd, q, m)     == [bd EXCEPT ![q] = m]
Linked(nx, l, q)  == IF l = Nil THEN nx ELSE [nx EXCEPT ![l] = q]

(* What becomes of the messages. *)
Extended(old, m, new)  == new = Append(old, m)
Shortened(old, k, new) == new = Fifo!Without(old, k)

(* msg_snd links a free node behind the last: it is the last of the order. *)
LEMMA AppendOrdered ==
    ASSUME NEW f, NEW l, NEW c, NEW b, NEW nx \in [Node -> Node \cup {Nil}],
           NEW bd \in [Node -> Message \cup {NoMsg}], NEW us, NEW n, NEW s,
           Ordered(f, l, c, b, nx, bd, us, n, s),
           NEW q \in Node, q \notin us, nx[q] = Nil, NEW m \in Message
    PROVE  /\ Ordered(HeadWith(f, l, q), q, c + 1, b + m.size, Linked(nx, l, q),
                      Put(bd, q, m), us \cup {q}, n + 1, Added(s, n, n, q))
           /\ Extended(Bodies(bd, n, s), m,
                       Bodies(Put(bd, q, m), n + 1, Added(s, n, n, q)))
<1> DEFINE t   == Added(s, n, n, q)
           bd2 == Put(bd, q, m)
           nx2 == Linked(nx, l, q)
           f2  == HeadWith(f, l, q)
<1>1. /\ POOL \in Nat /\ n \in Nat /\ s \in [1..n -> 1..POOL]
      /\ \A i, j \in 1..n : s[i] = s[j] => i = j
      /\ f = (IF n = 0 THEN 0 ELSE s[1])
      /\ l = (IF n = 0 THEN 0 ELSE s[n])
      /\ Members(n, s) = us /\ c = n
      /\ \A i \in 1..n : s[i] # q
      /\ \A i \in 1..n : nx[s[i]] = IF i = n THEN 0 ELSE s[i + 1]
      /\ Listed(nx, f, POOL, n, s)
  BY ParamAssumption DEF Ordered, Listed, Members
<1>2. /\ Bodies(bd, n, s) \in [1..n -> Message]
      /\ b = Fifo!Bytes(Bodies(bd, n, s))
  BY DEF Ordered
<1>3. /\ n > 0 => l = s[n] /\ l \in Node /\ l # Nil
      /\ n = 0 => l = Nil
  BY <1>1 DEF Node, Nil
<1>4. \A x \in Node : nx2[x] = IF n > 0 /\ x = l THEN q ELSE nx[x]
  BY <1>1, <1>3 DEF Linked
<1>5. Listed(nx2, f2, POOL, n + 1, t)
  <2> HIDE DEF nx2, f2, t
  <2>1. nx2[q] = IF n = n THEN 0 ELSE s[n + 1]
    BY <1>1, <1>3, <1>4 DEF Nil
  <2>2. n > 0 => nx2[s[n]] = q
    BY <1>3, <1>4
  <2>3. \A i \in 1..n : i # n => nx2[s[i]] = nx[s[i]]
    BY <1>1, <1>3, <1>4 DEF Node
  <2>4. f2 = IF n = 0 THEN q ELSE f
    BY <1>1, <1>3 DEF f2, HeadWith
  <2>5. n \in 0..n /\ q \in 1..POOL /\ q \notin Members(n, s) /\ POOL \in Nat
    BY <1>1 DEF Node
  <2> QED
    BY <1>1, <2>1, <2>2, <2>3, <2>4, <2>5, ListAdd DEF t
<1>6. Members(n + 1, t) = us \cup {q}
  <2>1. n \in 0..n
    BY <1>1
  <2> QED
    BY <1>1, <2>1, AddedMembers
<1>7. \A i \in 1..(n + 1) : t[i] = IF i <= n THEN s[i] ELSE q
  BY <1>1 DEF Added
<1>8. t[n + 1] = q /\ n + 1 # 0 /\ n + 1 \in Nat /\ n + 1 \in 1..(n + 1)
  BY <1>1, <1>7
<1> HIDE DEF t
<1> USE DEF Put
<1>9. \A i \in 1..(n + 1) : bd2[t[i]] = IF i <= n THEN bd[s[i]] ELSE m
  <2>1. ASSUME NEW i \in 1..(n + 1), i <= n PROVE bd2[t[i]] = bd[s[i]]
    BY <1>1, <1>7, <2>1 DEF Node
  <2>2. ASSUME NEW i \in 1..(n + 1), ~(i <= n) PROVE bd2[t[i]] = m
    BY <1>1, <1>7, <2>2
  <2> QED
    BY <2>1, <2>2
<1> DEFINE old == Bodies(bd, n, s)
           new == Bodies(bd2, n + 1, t)
<1>10. /\ \A i \in 1..n : old[i] = bd[s[i]]
       /\ new = [i \in 1..(n + 1) |-> bd2[t[i]]]
  BY <1>1 DEF Bodies
<1> HIDE DEF bd2, old, new, Put
<1>11. new \in [1..(n + 1) -> Message]
  <2>1. \A i \in 1..(n + 1) : bd2[t[i]] \in Message
    BY <1>1, <1>2, <1>9, <1>10 DEF old
  <2> QED
    BY <1>10, <2>1
<1>12. /\ old \in Seq(Message) /\ Len(old) = n /\ Sized(n, old)
       /\ new \in Seq(Message) /\ Len(new) = n + 1 /\ Sized(n + 1, new)
  BY <1>1, <1>2, <1>8, <1>11, QueueOfMessages DEF old
<1>13. (\A i \in 1..n : new[i] = old[i]) /\ new[n + 1] = m
  BY <1>1, <1>8, <1>9, <1>10
<1>14. Fifo!Bytes(new) = b + m.size
  BY <1>2, <1>12, <1>13, BytesAdded DEF old
<1>15. new = Append(old, m)
  <2>1. /\ Append(old, m) \in Seq(Message)
        /\ Len(Append(old, m)) = n + 1
        /\ \A i \in 1..(n + 1) : Append(old, m)[i] = IF i <= n THEN old[i] ELSE m
    BY <1>1, <1>12
  <2>2. \A i \in 1..(n + 1) : new[i] = Append(old, m)[i]
    BY <1>1, <1>13, <2>1
  <2> QED
    BY <1>12, <2>1, <2>2, SeqEqual
<1>16. Ordered(f2, q, c + 1, b + m.size, nx2, bd2, us \cup {q}, n + 1, t)
  <2> HIDE DEF nx2, f2
  <2> QED
    BY <1>1, <1>5, <1>6, <1>8, <1>11, <1>14 DEF Ordered, new
<1> QED
  BY <1>15, <1>16 DEF t, bd2, new, old, Extended

(* The ends and the links after the node q behind p has left.              *)
HeadWithout(f, nx, q, p) == IF p = Nil THEN nx[q] ELSE f
LastWithout(l, q, p)     == IF l = q THEN p ELSE l
Freed(nx, q, p) == [x \in Node |-> IF x = q THEN Nil
                                   ELSE IF x = p THEN nx[q] ELSE nx[x]]

Before(s, k) == IF k = 1 THEN Nil ELSE s[k - 1]

(* msg_rcv unlinks the k-th node: the order loses its k-th entry, wherever *)
(* in the list that is.                                                    *)
LEMMA UnlinkOrdered ==
    ASSUME NEW f, NEW l, NEW c, NEW b, NEW nx \in [Node -> Node \cup {Nil}],
           NEW bd \in [Node -> Message \cup {NoMsg}], NEW us, NEW n, NEW s,
           Ordered(f, l, c, b, nx, bd, us, n, s), NEW k \in 1..n
    PROVE  /\ Ordered(HeadWithout(f, nx, s[k], Before(s, k)),
                      LastWithout(l, s[k], Before(s, k)), c - 1, b - bd[s[k]].size,
                      Freed(nx, s[k], Before(s, k)), Put(bd, s[k], NoMsg),
                      us \ {s[k]}, n - 1, Dropped(s, n, k))
           /\ Shortened(Bodies(bd, n, s), k,
                        Bodies(Put(bd, s[k], NoMsg), n - 1, Dropped(s, n, k)))
<1> DEFINE t   == Dropped(s, n, k)
           q   == s[k]
           bd2 == Put(bd, q, NoMsg)
           p   == Before(s, k)
           nx2 == Freed(nx, q, p)
           f2  == HeadWithout(f, nx, q, p)
           l2  == LastWithout(l, q, p)
<1>1. /\ POOL \in Nat /\ n \in Nat /\ s \in [1..n -> 1..POOL]
      /\ \A i, j \in 1..n : s[i] = s[j] => i = j
      /\ f = (IF n = 0 THEN 0 ELSE s[1])
      /\ l = (IF n = 0 THEN 0 ELSE s[n])
      /\ Members(n, s) = us /\ c = n
      /\ \A i \in 1..n : nx[s[i]] = IF i = n THEN 0 ELSE s[i + 1]
      /\ Listed(nx, f, POOL, n, s)
  BY ParamAssumption DEF Ordered, Listed, Members
<1>2. /\ Bodies(bd, n, s) \in [1..n -> Message]
      /\ b = Fifo!Bytes(Bodies(bd, n, s))
  BY DEF Ordered
<1>3. /\ n - 1 \in Nat /\ q \in Node /\ l = s[n] /\ q # Nil
      /\ k > 1 => k - 1 \in 1..n /\ p = s[k - 1] /\ p \in Node /\ p # Nil /\ p # q
      /\ k = 1 => p = Nil
  BY <1>1 DEF Node, Nil, Before
<1>4. \A x \in Node : nx2[x] = IF x = q THEN Nil ELSE IF x = p THEN nx[q] ELSE nx[x]
  BY DEF Freed
<1>5. Listed(nx2, f2, POOL, n - 1, t)
  <2> HIDE DEF nx2, t
  <2>1. k > 1 => nx2[s[k - 1]] = nx[s[k]]
    BY <1>3, <1>4
  <2>2. ASSUME NEW i \in 1..n, i # k, i # k - 1 PROVE nx2[s[i]] = nx[s[i]]
    <3>1. s[i] \in Node /\ s[i] # q
      BY <1>1, <2>2 DEF Node
    <3>2. s[i] # p
      BY <1>1, <1>3, <2>2, <3>1 DEF Nil, Node
    <3> QED
      BY <1>4, <3>1, <3>2
  <2>3. f2 = IF k = 1 THEN nx[s[k]] ELSE f
    BY <1>3 DEF HeadWithout
  <2> HIDE DEF f2
  <2>4. \A i \in 1..n : i # k /\ i # k - 1 => nx2[s[i]] = nx[s[i]]
    BY <2>2
  <2> QED
    BY <1>1, <2>1, <2>3, <2>4, ListDrop DEF t
<1>6. Members(n - 1, t) = us \ {q}
  <2>1. n \in Nat /\ k \in 1..n /\ \A i, j \in 1..n : s[i] = s[j] => i = j
    BY <1>1
  <2>2. Members(n - 1, Dropped(s, n, k)) = Members(n, s) \ {s[k]}
    BY <2>1, DroppedMembers
  <2> QED
    BY <1>1, <2>2
<1>7. \A i \in 1..(n - 1) : t[i] = IF i < k THEN s[i] ELSE s[i + 1]
  BY DEF Dropped
<1> HIDE DEF t
<1>8. l2 = IF n - 1 = 0 THEN 0 ELSE t[n - 1]
  <2>1. CASE k = n
    <3>1. n # 1 => t[n - 1] = s[n - 1]
      BY <1>1, <1>7, <2>1
    <3> QED
      BY <1>1, <1>3, <2>1, <3>1 DEF Nil, LastWithout
  <2>2. CASE k # n
    <3>1. l # q /\ n - 1 # 0 /\ n - 1 \in 1..(n - 1) /\ ~(n - 1 < k) /\ (n - 1) + 1 = n
      BY <1>1, <1>3, <2>2
    <3> QED
      BY <1>3, <1>7, <3>1 DEF LastWithout
  <2> QED
    BY <2>1, <2>2
<1> DEFINE old == Bodies(bd, n, s)
           new == Bodies(bd2, n - 1, t)
<1> USE DEF Put
<1>9. \A i \in 1..(n - 1) : bd2[t[i]] = IF i < k THEN bd[s[i]] ELSE bd[s[i + 1]]
  <2>1. ASSUME NEW i \in 1..(n - 1), i < k PROVE bd2[t[i]] = bd[s[i]]
    <3>1. i \in 1..n /\ i # k
      BY <1>1, <2>1
    <3> QED
      BY <1>1, <1>7, <2>1, <3>1 DEF Node
  <2>2. ASSUME NEW i \in 1..(n - 1), ~(i < k) PROVE bd2[t[i]] = bd[s[i + 1]]
    <3>1. i + 1 \in 1..n /\ i + 1 # k
      BY <1>1, <2>2
    <3> QED
      BY <1>1, <1>7, <2>2, <3>1 DEF Node
  <2> QED
    BY <2>1, <2>2
<1>10. /\ \A i \in 1..n : old[i] = bd[s[i]]
       /\ new = [i \in 1..(n - 1) |-> bd2[t[i]]]
  BY <1>1 DEF Bodies
<1>11. Dropped(old, n, k) = new
  <2>1. \A i \in 1..(n - 1) : i \in 1..n /\ i + 1 \in 1..n
    BY <1>1
  <2> HIDE DEF old, bd2, new
  <2>2. \A i \in 1..(n - 1) : (IF i < k THEN old[i] ELSE old[i + 1]) = bd2[t[i]]
    BY <1>9, <1>10, <2>1
  <2> QED
    BY <1>10, <2>2 DEF Dropped
<1> HIDE DEF bd2, old, new, Put
<1>12. new \in [1..(n - 1) -> Message]
  <2>1. \A i \in 1..(n - 1) : i \in 1..n /\ i + 1 \in 1..n
    BY <1>1
  <2>2. \A i \in 1..(n - 1) : (IF i < k THEN old[i] ELSE old[i + 1]) \in Message
    BY <1>2, <2>1 DEF old
  <2> QED
    BY <1>11, <2>2 DEF Dropped
<1>13. /\ old \in Seq(Message) /\ Len(old) = n /\ Sized(n, old)
       /\ new \in Seq(Message) /\ Len(new) = n - 1 /\ Sized(n - 1, new)
  BY <1>1, <1>2, <1>3, <1>12, QueueOfMessages DEF old
<1>14. Fifo!Bytes(new) = b - bd[q].size
  <2>1. \A i \in 1..(n - 1) : new[i] = IF i < k THEN old[i] ELSE old[i + 1]
    BY <1>11 DEF Dropped
  <2>2. Fifo!Bytes(new) = Fifo!Bytes(old) - old[k].size
    BY <1>13, <2>1, BytesDropped
  <2> QED
    BY <1>2, <1>10, <2>2 DEF old
<1>15. new = Fifo!Without(old, k)
  <2>1. n \in Nat /\ k \in 1..n /\ old \in [1..n -> Message]
    BY <1>1, <1>2 DEF old
  <2>2. SubSeq(old, 1, k - 1) \o SubSeq(old, k + 1, n) = Dropped(old, n, k)
    BY <2>1, DroppedIsJoin
  <2> QED
    BY <1>11, <1>13, <2>2 DEF Fifo!Without
<1>16. Ordered(f2, l2, c - 1, b - bd[q].size, nx2, bd2, us \ {q}, n - 1, t)
  <2> HIDE DEF nx2, f2, l2, q
  <2> QED
    BY <1>1, <1>5, <1>6, <1>8, <1>12, <1>14 DEF Ordered, new
<1> QED
  BY <1>15, <1>16 DEF t, bd2, new, old, Shortened

----------------------------------------------------------------------------
(* The messages in the order of the walk. *)
ContentsFrom(f, nx, bd) ==
    LET chain == ChainFrom(f, nx)
    IN  [i \in 1..Len(chain) |-> bd[chain[i]]]

(* The messages in the order s.                                            *)
LEMMA ContentsAre ==
    ASSUME NEW f, NEW nx, NEW bd, NEW n, NEW s, Listed(nx, f, POOL, n, s)
    PROVE  ContentsFrom(f, nx, bd) = Bodies(bd, n, s)
<1>1. ChainFrom(f, nx) = s
  BY ChainIs
<1>2. Len(s) = n
  <2>1. n \in Nat /\ s \in [1..n -> 1..POOL]
    BY DEF Listed
  <2> QED
    BY <2>1, SeqOfOrder
<1> QED
  BY <1>1, <1>2 DEF ContentsFrom, Bodies

(* Contents is what the walk finds, before and after a step.               *)
LEMMA ContentsIsFrom ==
    /\ Contents = ContentsFrom(first, next, body)
    /\ Contents' = ContentsFrom(first', next', body')
BY Zenon DEF Contents, ContentsFrom, Chain, ChainFrom

(* What an order says of the queue before and after a step.                *)
LEMMA OrderContents ==
    ASSUME NEW n, NEW s
    PROVE  /\ Order(n, s) => Contents = Bodies(body, n, s)
           /\ Order(n, s)' => Contents' = Bodies(body', n, s)
<1>1. ASSUME Order(n, s) PROVE Contents = Bodies(body, n, s)
  BY <1>1, ContentsAre, ContentsIsFrom DEF Order, Ordered
<1>2. ASSUME Order(n, s)' PROVE Contents' = Bodies(body', n, s)
  <2>1. Listed(next', first', POOL, n, s)
    BY <1>2 DEF Order, Ordered
  <2>2. PICK f, nx, bd : f = first' /\ nx = next' /\ bd = body'
    OBVIOUS
  <2>3. ContentsFrom(f, nx, bd) = Bodies(bd, n, s)
    BY <2>1, <2>2, ContentsAre
  <2> QED
    BY <2>2, <2>3, ContentsIsFrom
<1> QED
  BY <1>1, <1>2

(* What an order says of every field of the queue.                         *)
LEMMA OrderIs ==
    ASSUME NEW n, NEW s, Order(n, s)
    PROVE  /\ n \in 0..POOL /\ s \in [1..n -> Node] /\ POOL \in Nat
           /\ \A i, j \in 1..n : s[i] = s[j] => i = j
           /\ Chain = s /\ Len(s) = n
           /\ Contents = Bodies(body, n, s)
           /\ Contents \in [1..n -> Message] /\ Len(Contents) = n
           /\ \A i \in 1..n : Contents[i] = body[s[i]]
           /\ bytes = Fifo!Bytes(Contents) /\ bytes \in Nat
           /\ used = {s[i] : i \in 1..n}
           /\ count = n /\ last = IF n = 0 THEN Nil ELSE s[n]
           /\ first = IF n = 0 THEN Nil ELSE s[1]
           /\ \A i \in 1..n : next[s[i]] = IF i = n THEN 0 ELSE s[i + 1]
<1>1. /\ Listed(next, first, POOL, n, s)
      /\ Members(n, s) = used /\ last = (IF n = 0 THEN 0 ELSE s[n])
      /\ count = n /\ Bodies(body, n, s) \in [1..n -> Message]
      /\ bytes = Fifo!Bytes(Bodies(body, n, s))
  BY DEF Order, Ordered
<1>2. POOL \in Nat
  BY ParamAssumption
<1>3. n \in 0..POOL
  BY <1>1, <1>2, ListSize
<1>4. /\ s \in [1..n -> 1..POOL]
      /\ \A i, j \in 1..n : s[i] = s[j] => i = j
      /\ first = (IF n = 0 THEN 0 ELSE s[1])
      /\ \A i \in 1..n : next[s[i]] = IF i = n THEN 0 ELSE s[i + 1]
  BY <1>1 DEF Listed
<1>5. Chain = s /\ Len(s) = n
  BY <1>1, <1>3, <1>4, ChainIs, ChainIsFrom, SeqOfOrder
<1>6. Contents = Bodies(body, n, s)
  BY OrderContents
<1>7. /\ Len(Contents) = n /\ Sized(n, Contents)
      /\ \A i \in 1..n : Contents[i] = body[s[i]]
  <2>1. Contents \in [1..n -> Message] /\ n \in Nat
    BY <1>1, <1>3, <1>6
  <2>2. \A i \in 1..n : Contents[i] = body[s[i]]
    BY <1>6 DEF Bodies
  <2> QED
    BY <2>1, <2>2, QueueOfMessages
<1>8. bytes \in Nat
  BY <1>1, <1>6, <1>7, BytesNat
<1> QED
  BY <1>1, <1>2, <1>3, <1>4, <1>5, <1>6, <1>7, <1>8 DEF Members, Node, Nil

(* The search of msg_rcv stops at the first of the messages that the type  *)
(* asks for.                                                               *)
LEMMA ChosenIs ==
    ASSUME NEW n, NEW s, Order(n, s), NEW t \in Int, Chosen(t) # 0
    PROVE  /\ Chosen(t) \in 1..n
           /\ Chosen(t) \in Fifo!Wanted(Contents, t)
           /\ \A j \in Fifo!Wanted(Contents, t) : Chosen(t) <= j
<1> DEFINE ty(i) == body[s[i]].type
           fits  == {i \in 1..n : \/ t = 0
                                  \/ t > 0 /\ ty(i) = t
                                  \/ t < 0 /\ ty(i) <= -t}
           best  == {i \in fits : t >= 0 \/ \A j \in fits : ty(i) <= ty(j)}
<1>1. /\ n \in Nat /\ Chain = s /\ Len(s) = n /\ Len(Contents) = n
      /\ \A i \in 1..n : Contents[i] = body[s[i]]
      /\ Contents \in [1..n -> Message]
  BY OrderIs
<1>2. Chosen(t) = IF best = {} THEN 0 ELSE CHOOSE i \in best : \A j \in best : i <= j
  <2> DEFINE fits0(c) == {i \in 1..Len(c) :
                             \/ t = 0
                             \/ t > 0 /\ body[c[i]].type = t
                             \/ t < 0 /\ body[c[i]].type <= -t}
             best0(c) == {i \in fits0(c) :
                             t >= 0 \/ \A j \in fits0(c) :
                                          body[c[i]].type <= body[c[j]].type}
  <2>1. Chosen(t) = IF best0(Chain) = {} THEN 0
                    ELSE CHOOSE i \in best0(Chain) :
                            \A j \in best0(Chain) : i <= j
    BY Zenon DEF Chosen
  <2>2. best0(s) = best
    BY <1>1
  <2> HIDE DEF best0, best
  <2>3. best0(Chain) = best
    BY <1>1, <2>2
  <2> QED
    BY <2>1, <2>3
<1>3. \A i \in 1..n : ty(i) \in Nat
  <2> SUFFICES ASSUME NEW i \in 1..n PROVE Contents[i].type \in Nat
    BY <1>1
  <2> QED
    BY <1>1, MessageIs
<1>4. best = Fifo!Wanted(Contents, t)
  <2>1. Fifo!Wanted(Contents, t) =
          {i \in 1..n : CASE t = 0 -> TRUE
                          [] t > 0 -> ty(i) = t
                          [] t < 0 -> /\ ty(i) <= -t
                                      /\ \A j \in 1..n : ty(i) <= ty(j)}
    <3>1. \A i \in 1..n : Contents[i].type = ty(i)
      BY <1>1
    <3> HIDE DEF ty
    <3> QED
      BY <1>1, <3>1 DEF Fifo!Wanted
  <2> DEFINE want == {i \in 1..n : CASE t = 0 -> TRUE
                          [] t > 0 -> ty(i) = t
                          [] t < 0 -> /\ ty(i) <= -t
                                      /\ \A j \in 1..n : ty(i) <= ty(j)}
  <2> HIDE DEF ty
  <2>2. CASE t = 0
    <3>1. best = 1..n /\ want = 1..n
      BY <2>2
    <3> QED
      BY <2>1, <3>1
  <2>3. CASE t > 0
    <3>1. t # 0 /\ ~(t < 0) /\ t >= 0
      BY <2>3
    <3>2. best = {i \in 1..n : ty(i) = t}
      BY <2>3, <3>1
    <3>3. want = {i \in 1..n : ty(i) = t}
      BY <2>3, <3>1
    <3> QED
      BY <2>1, <3>2, <3>3
  <2>4. CASE t < 0
    <3>1. fits = {i \in 1..n : ty(i) <= -t}
      BY <2>4
    <3>2. best = {i \in fits : \A j \in fits : ty(i) <= ty(j)}
      BY <2>4
    <3>3. want = {i \in 1..n : ty(i) <= -t /\ \A j \in 1..n : ty(i) <= ty(j)}
      BY <2>4
    <3> HIDE DEF fits, best, want
    <3>4. ASSUME NEW i \in 1..n, ty(i) <= -t, NEW j \in 1..n, j \notin fits
          PROVE  ty(i) <= ty(j)
      BY <1>3, <2>4, <3>1, <3>4
    <3>5. best = want
      BY <3>1, <3>2, <3>3, <3>4
    <3> QED
      BY <2>1, <3>5 DEF want
  <2> QED
    BY <2>2, <2>3, <2>4
<1>5. best \in SUBSET Nat
  BY <1>1
<1> HIDE DEF best
<1>6. best # {}
  BY <1>2
<1>7. \E i \in best : \A j \in best : i <= j
  BY <1>5, <1>6, LeastNatural
<1> DEFINE k == CHOOSE i \in best : \A j \in best : i <= j
<1>8. k \in best /\ \A j \in best : k <= j
  BY <1>7
<1>9. Chosen(t) = k
  BY <1>2, <1>6
<1> HIDE DEF k
<1>10. best \subseteq 1..n
  BY DEF best
<1> QED
  BY <1>4, <1>8, <1>9, <1>10

----------------------------------------------------------------------------
(* The steps of the abstract queue, as steps of this one.                  *)
Bound == IF active THEN qbytes ELSE 0

(* The abstract queue does not move.                                       *)
LEMMA FifoStutter ==
    ASSUME UNCHANGED <<active, first, next, body>>, Bound' = Bound
    PROVE  UNCHANGED Fifo!vars
<1>1. Contents' = Contents
  BY ContentsIsFrom
<1> QED
  BY <1>1 DEF Fifo!vars, Bound

(* A message is appended.                                                  *)
LEMMA FifoSend ==
    ASSUME active, UNCHANGED <<active, qbytes>>, NEW m \in Message,
           Fifo!Bytes(Contents) + m.size <= qbytes,
           Contents' = Append(Contents, m)
    PROVE  Fifo!Next
<1>1. Fifo!Send(m)
  BY DEF Fifo!Send
<1> QED
  BY <1>1 DEF Fifo!Next

(* The best message is taken.                                              *)
LEMMA FifoReceive ==
    ASSUME active, UNCHANGED <<active, qbytes>>, NEW r \in Calls, r.op = "rcv",
           NEW k \in Fifo!Wanted(Contents, r.type),
           \A j \in Fifo!Wanted(Contents, r.type) : k <= j,
           Contents' = Fifo!Without(Contents, k)
    PROVE  Fifo!Next
<1>1. Fifo!Receive(r.type)
  BY DEF Fifo!Receive
<1> QED
  BY <1>1 DEF Fifo!Next

(* A queue is created.                                                     *)
LEMMA FifoOpen ==
    ASSUME ~active, active' = TRUE, qbytes' = QBYTES, Contents' = <<>>
    PROVE  Fifo!Next
<1>1. Fifo!Open(QBYTES)
  BY DEF Fifo!Open
<1> QED
  BY <1>1 DEF Fifo!Next

(* The limit is set.                                                       *)
LEMMA FifoSet ==
    ASSUME active, UNCHANGED <<active, first, next, body>>,
           NEW l \in NewLimits, qbytes' = l
    PROVE  Fifo!Next
<1>1. Contents' = Contents
  BY ContentsIsFrom
<1>2. Fifo!SetLimit(l)
  BY <1>1 DEF Fifo!SetLimit
<1> QED
  BY <1>2 DEF Fifo!Next

(* The queue is removed.                                                   *)
LEMMA FifoClose ==
    ASSUME active, active' = FALSE, Contents' = <<>>
    PROVE  Fifo!Next
<1>1. Fifo!Close
  BY DEF Fifo!Close
<1> QED
  BY <1>1 DEF Fifo!Next

(* An empty list.                                                          *)
LEMMA NoNodes ==
    ASSUME NEW nx, NEW bd
    PROVE  Ordered(Nil, Nil, 0, 0, nx, bd, {}, 0, <<>>)
<1>1. Listed(nx, Nil, POOL, 0, <<>>)
  BY DEF Listed, Nil
<1>2. Members(0, <<>>) = {}
  BY DEF Members
<1>3. \A n \in {0} : Bodies(bd, n, <<>>) \in [1..n -> Message]
  BY DEF Bodies
<1>4. Fifo!Bytes(Bodies(bd, 0, <<>>)) = 0
  <2>1. \A n \in {0} : Sized(n, Bodies(bd, n, <<>>))
    BY <1>3, QueueOfMessages
  <2>2. \A n \in {0} : Fifo!Bytes(Bodies(bd, n, <<>>)) = 0
    BY <2>1, BytesNat
  <2> QED
    BY <2>2
<1> QED
  BY <1>1, <1>2, <1>3, <1>4 DEF Ordered, Nil

(* The queue as it was.                                                    *)
LEMMA QueueKept ==
    ASSUME QueueInv, UNCHANGED <<queue, pool>>, evicted' \subseteq Proc
    PROVE  QueueInv' /\ UNCHANGED Fifo!vars
<1>1. UNCHANGED <<active, first, last, count, bytes, qbytes, next, body, used>>
  BY DEF queue, pool
<1>2. PICK n, s : Order(n, s)
  BY DEF QueueInv
<1>3. Order(n, s)'
  BY <1>1, <1>2 DEF Order
<1>4. QueueTyped' /\ FreeNodesClear' /\ ClosedHoldsNothing' /\ BytesBounded'
  BY <1>1 DEF QueueInv, QueueTyped, FreeNodesClear, ClosedHoldsNothing, BytesBounded
<1>5. UNCHANGED Fifo!vars
  BY <1>1, FifoStutter DEF Bound
<1> QED
  BY <1>3, <1>4, <1>5 DEF QueueInv

(* msg_snd with room.                                                      *)
LEMMA AppendKeeps ==
    ASSUME QueueInv, active, NEW p \in Proc, NEW r \in Calls, r.op = "snd",
           Fits(r), Append1(p, r)
    PROVE  QueueInv' /\ (Fifo!Next \/ UNCHANGED Fifo!vars)
<1>1. evicted' \subseteq Proc
  BY DEF Append1, Return, QueueInv, QueueTyped
<1>2. CASE used = Node
  BY <1>1, <1>2, QueueKept DEF Append1
<1>3. CASE used # Node
  <2> DEFINE m == [type |-> r.type, size |-> r.size]
  <2>1. m \in Message
    BY DEF Message
  <2>2. PICK q \in Node \ used :
           /\ used' = used \cup {q}
           /\ body' = [body EXCEPT ![q] = m]
           /\ next' = IF last = Nil THEN next ELSE [next EXCEPT ![last] = q]
           /\ first' = IF last = Nil THEN q ELSE first
           /\ last' = q
           /\ count' = count + 1
           /\ bytes' = bytes + r.size
           /\ UNCHANGED <<active, qbytes>>
    BY <1>3 DEF Append1
  <2>3. m.size = r.size
    OBVIOUS
  <2> HIDE DEF m
  <2>4. PICK n, s : Order(n, s)
    BY DEF QueueInv
  <2>5. /\ next \in [Node -> Node \cup {Nil}] /\ body \in [Node -> Message \cup {NoMsg}]
        /\ Ordered(first, last, count, bytes, next, body, used, n, s)
        /\ q \in Node /\ q \notin used /\ next[q] = Nil
    BY <2>2, <2>4 DEF QueueInv, QueueTyped, FreeNodesClear, Order
  <2> DEFINE t == Added(s, n, n, q)
  <2>6. next' = Linked(next, last, q) /\ first' = HeadWith(first, last, q)
    BY <2>2 DEF Linked, HeadWith
  <2>6a. body' = Put(body, q, m)
    BY <2>2, Zenon DEF Put
  <2>7. /\ Ordered(HeadWith(first, last, q), q, count + 1, bytes + m.size,
                   Linked(next, last, q), Put(body, q, m),
                   used \cup {q}, n + 1, t)
        /\ Bodies(Put(body, q, m), n + 1, t) = Append(Bodies(body, n, s), m)
    <3> HIDE DEF t
    <3>1. next \in [Node -> Node \cup {Nil}]
      BY <2>5
    <3>2. body \in [Node -> Message \cup {NoMsg}]
      BY <2>5
    <3>3. Ordered(first, last, count, bytes, next, body, used, n, s)
      BY <2>5
    <3>4. q \in Node /\ q \notin used /\ next[q] = Nil
      BY <2>5
    <3>5. Ordered(HeadWith(first, last, q), q, count + 1, bytes + m.size, Linked(next, last, q),
                      Put(body, q, m), used \cup {q}, n + 1, Added(s, n, n, q))
      BY <2>1, <3>1, <3>2, <3>3, <3>4, AppendOrdered
    <3>6. Extended(Bodies(body, n, s), m, Bodies(Put(body, q, m), n + 1, Added(s, n, n, q)))
      BY <2>1, <3>1, <3>2, <3>3, <3>4, AppendOrdered
    <3> QED
      BY <3>5, <3>6 DEF t, Extended
  <2> HIDE DEF t
  <2>8. Order(n + 1, t)' /\ Bodies(body', n + 1, t) = Append(Bodies(body, n, s), m)
    BY <2>2, <2>3, <2>6, <2>6a, <2>7, Zenon DEF Order
  <2>9. Contents' = Append(Contents, m)
    <3>1. \A i \in {n + 1} : Order(i, t)' => Contents' = Bodies(body', i, t)
      BY OrderContents
    <3>2. Contents' = Bodies(body', n + 1, t)
      BY <2>8, <3>1
    <3> QED
      BY <2>4, <2>8, <3>2, OrderContents
  <2>10. bytes = Fifo!Bytes(Contents) /\ bytes \in Nat
    BY <2>4, OrderIs
  <2>11. m.size \in Nat
    BY <2>1, MessageIs
  <2>12. Fifo!Next
    BY <2>1, <2>2, <2>3, <2>9, <2>10, FifoSend DEF Fits
  <2>13. QueueTyped'
    <3>1. next' \in [Node -> Node \cup {Nil}]
      BY <2>2, <2>5
    <3>2. body' \in [Node -> Message \cup {NoMsg}]
      BY <2>1, <2>2, <2>5
    <3> QED
      BY <1>1, <2>2, <3>1, <3>2 DEF QueueInv, QueueTyped
  <2>14. FreeNodesClear'
    <3>1. last # Nil => last \in used
      BY <2>4, OrderIs
    <3>2. ASSUME NEW x \in Node, x \notin used'
          PROVE  next'[x] = Nil /\ body'[x] = NoMsg
      <4>1. x \notin used /\ x # q /\ (last # Nil => x # last)
        BY <2>2, <3>1, <3>2
      <4>2. next[x] = Nil /\ body[x] = NoMsg
        BY <4>1 DEF QueueInv, FreeNodesClear
      <4>3. next'[x] = next[x]
        BY <2>2, <2>5, <4>1
      <4>4. body'[x] = body[x]
        BY <2>2, <2>5, <4>1
      <4> QED
        BY <4>2, <4>3, <4>4
    <3> QED
      BY <3>2 DEF FreeNodesClear
  <2>15. ClosedHoldsNothing'
    BY <2>2 DEF ClosedHoldsNothing
  <2>16. BytesBounded'
    <3>1. bytes' <= qbytes /\ bytes' \in Nat
      BY <2>2, <2>3, <2>10, <2>11 DEF Fits
    <3>2. qbytes \in NewLimits \cup {QBYTES}
      BY DEF QueueInv, QueueTyped
    <3> QED
      BY <3>1, <3>2 DEF BytesBounded
  <2> QED
    BY <2>8, <2>12, <2>13, <2>14, <2>15, <2>16 DEF QueueInv
<1> QED
  BY <1>2, <1>3

(* msg_rcv with a message: the chosen one leaves, or stays because it is   *)
(* larger than the buffer.                                                 *)
LEMMA TakeKeeps ==
    ASSUME QueueInv, active, NEW p \in Proc, NEW r \in Calls, r.op = "rcv",
           Chosen(r.type) # 0, Take(p, r, Chosen(r.type))
    PROVE  QueueInv' /\ (Fifo!Next \/ UNCHANGED Fifo!vars)
<1>0. PICK k : k = Chosen(r.type)
  OBVIOUS
<1> DEFINE q == Chain[k]
<1>1. evicted' \subseteq Proc
  BY DEF Take, Return, QueueInv, QueueTyped
<1>2. CASE body[q].size > r.size /\ ~r.noerror
  BY <1>0, <1>1, <1>2, QueueKept DEF Take
<1>3. CASE ~(body[q].size > r.size /\ ~r.noerror)
  <2>1. PICK n, s : Order(n, s)
    BY DEF QueueInv
  <2>2. /\ n \in 0..POOL /\ s \in [1..n -> Node] /\ Chain = s
        /\ \A i, j \in 1..n : s[i] = s[j] => i = j
        /\ Contents \in [1..n -> Message]
        /\ \A i \in 1..n : Contents[i] = body[s[i]]
        /\ used = {s[i] : i \in 1..n}
        /\ \A i \in 1..n : next[s[i]] = IF i = n THEN 0 ELSE s[i + 1]
    BY <2>1, OrderIs
  <2>3. r.type \in Int
    BY ParamAssumption DEF Requests
  <2>4. /\ k \in 1..n /\ k \in Fifo!Wanted(Contents, r.type)
        /\ \A j \in Fifo!Wanted(Contents, r.type) : k <= j
    BY <1>0, <2>1, <2>3, ChosenIs
  <2>5. Unlink(q, Before(s, k)) /\ UNCHANGED <<active, qbytes>>
    BY <1>0, <1>3, <2>2, Zenon DEF Take, Before
  <2>6. q = s[k] /\ q \in Node /\ q \in used
    BY <2>2, <2>4
  <2> HIDE DEF q
  <2>7. /\ next' = Freed(next, s[k], Before(s, k))
        /\ first' = HeadWithout(first, next, s[k], Before(s, k))
        /\ last' = LastWithout(last, s[k], Before(s, k))
        /\ count' = count - 1
        /\ bytes' = bytes - body[s[k]].size
        /\ body' = Put(body, s[k], NoMsg)
        /\ used' = used \ {s[k]}
    BY <2>5, <2>6, Zenon DEF Unlink, Freed, HeadWithout, LastWithout, Put
  <2>8. next \in [Node -> Node \cup {Nil}]
    BY DEF QueueInv, QueueTyped
  <2>9. body \in [Node -> Message \cup {NoMsg}]
    BY DEF QueueInv, QueueTyped
  <2>10. Ordered(first, last, count, bytes, next, body, used, n, s)
    BY <2>1 DEF Order
  <2> DEFINE t == Dropped(s, n, k)
  <2>11. Ordered(HeadWithout(first, next, s[k], Before(s, k)),
                 LastWithout(last, s[k], Before(s, k)), count - 1,
                 bytes - body[s[k]].size, Freed(next, s[k], Before(s, k)),
                 Put(body, s[k], NoMsg), used \ {s[k]}, n - 1, Dropped(s, n, k))
    BY <2>4, <2>8, <2>9, <2>10, UnlinkOrdered
  <2>12. Shortened(Bodies(body, n, s), k,
                   Bodies(Put(body, s[k], NoMsg), n - 1, Dropped(s, n, k)))
    BY <2>4, <2>8, <2>9, <2>10, UnlinkOrdered
  <2>13. Order(n - 1, t)' /\ Bodies(body', n - 1, t) = Fifo!Without(Bodies(body, n, s), k)
    BY <2>7, <2>11, <2>12, Zenon DEF Order, Shortened
  <2> HIDE DEF t
  <2>14. Contents' = Fifo!Without(Contents, k)
    <3>1. \A i \in {n - 1} : Order(i, t)' => Contents' = Bodies(body', i, t)
      BY OrderContents
    <3>2. Contents' = Bodies(body', n - 1, t)
      BY <2>13, <3>1
    <3> QED
      BY <2>1, <2>13, <3>2, OrderContents
  <2>15. Fifo!Next
    BY <2>4, <2>5, <2>14, FifoReceive
  <2>16. QueueTyped'
    <3>1. next' \in [Node -> Node \cup {Nil}]
      BY <2>6, <2>7, <2>8 DEF Freed
    <3>2. body' \in [Node -> Message \cup {NoMsg}]
      BY <2>6, <2>7, <2>9 DEF Put
    <3> QED
      BY <1>1, <2>5, <2>7, <3>1, <3>2 DEF QueueInv, QueueTyped
  <2>17. FreeNodesClear'
    <3>1. Before(s, k) = Nil \/ Before(s, k) \in used
      <4>1. k # 1 => k - 1 \in 1..n
        BY <2>2, <2>4
      <4> QED
        BY <2>2, <4>1 DEF Before
    <3>2. ASSUME NEW x \in Node, x \notin used'
          PROVE  next'[x] = Nil /\ body'[x] = NoMsg
      <4>1. CASE x = s[k]
        BY <2>7, <2>9, <4>1 DEF Freed, Put
      <4>2. CASE x # s[k]
        <5>1. x \notin used /\ x # Before(s, k)
          BY <2>7, <3>1, <3>2, <4>2 DEF Node, Nil
        <5>2. next[x] = Nil /\ body[x] = NoMsg
          BY <5>1 DEF QueueInv, FreeNodesClear
        <5>3. next'[x] = next[x] /\ body'[x] = body[x]
          BY <2>7, <2>9, <4>2, <5>1 DEF Freed, Put
        <5> QED
          BY <5>2, <5>3
      <4> QED
        BY <4>1, <4>2
    <3> QED
      BY <3>2 DEF FreeNodesClear
  <2>18. ClosedHoldsNothing'
    BY <2>5 DEF ClosedHoldsNothing
  <2>19. BytesBounded'
    <3>1. body[s[k]].size \in Nat
      BY <2>2, <2>4, MessageIs
    <3>2. bytes' \in Nat
      <4>1. n - 1 \in Nat /\ Bodies(body', n - 1, t) \in [1..(n - 1) -> Message]
        BY <2>2, <2>4, <2>13 DEF Order, Ordered
      <4>2. bytes' = Fifo!Bytes(Bodies(body', n - 1, t))
        BY <2>13 DEF Order, Ordered
      <4> QED
        BY <4>1, <4>2, QueueOfMessages, BytesNat
    <3>3. bytes \in Nat /\ \E l \in NewLimits \cup {QBYTES} : bytes <= l
      BY DEF QueueInv, BytesBounded
    <3>4. NewLimits \cup {QBYTES} \subseteq Nat
      BY ParamAssumption
    <3> QED
      BY <2>7, <3>1, <3>2, <3>3, <3>4 DEF BytesBounded
  <2> QED
    BY <2>13, <2>15, <2>16, <2>17, <2>18, <2>19 DEF QueueInv
<1> QED
  BY <1>2, <1>3

(* msg_snd and msg_rcv, from the call or from the return of ipc_sleep.     *)
LEMMA CallKeepsQueue ==
    ASSUME QueueInv, active, NEW p \in Proc, NEW r \in Calls \cup {NoReq},
           Send(p, r) \/ Receive(p, r)
    PROVE  QueueInv' /\ (Fifo!Next \/ UNCHANGED Fifo!vars)
<1>1. r \in Calls
  BY DEF Send, Receive, NoReq
<1>2. CASE Block(p, r)
  <2>1. UNCHANGED <<queue, pool>> /\ evicted' \subseteq Proc
    BY <1>2 DEF Block, QueueInv, QueueTyped
  <2> QED
    BY <2>1, QueueKept
<1>3. CASE r.op = "snd" /\ Fits(r) /\ Append1(p, r)
  BY <1>1, <1>3, AppendKeeps
<1>4. CASE r.op = "rcv" /\ Chosen(r.type) # 0 /\ Take(p, r, Chosen(r.type))
  BY <1>1, <1>4, TakeKeeps
<1> QED
  BY <1>2, <1>3, <1>4 DEF Send, Receive

(* IPC_RMID gives every node back.                                         *)
LEMMA RemoveKeepsQueue ==
    ASSUME QueueInv, Remove
    PROVE  QueueInv' /\ Fifo!Next
<1>1. PICK n, s : Order(n, s)
  BY DEF QueueInv
<1>2. n \in 0..POOL /\ Chain = s /\ Len(s) = n /\ used = {s[i] : i \in 1..n}
  BY <1>1, OrderIs
<1>3. {Chain[i] : i \in 1..Len(Chain)} = used
  BY <1>2
<1>4. /\ active /\ active' = FALSE /\ first' = Nil /\ last' = Nil
      /\ count' = 0 /\ bytes' = 0 /\ qbytes' = 0
      /\ next' = [x \in Node |-> IF x \in used THEN Nil ELSE next[x]]
      /\ body' = [x \in Node |-> IF x \in used THEN NoMsg ELSE body[x]]
      /\ used' = {}
      /\ evicted' \subseteq Proc
  BY <1>3 DEF Remove, QueueInv, QueueTyped
<1>5. Order(0, <<>>)'
  <2>1. PICK nx, bd : nx = next' /\ bd = body'
    OBVIOUS
  <2>2. Ordered(Nil, Nil, 0, 0, nx, bd, {}, 0, <<>>)
    BY NoNodes
  <2> QED
    BY <1>4, <2>1, <2>2 DEF Order
<1>6. Contents' = <<>>
  <2>1. \A i \in {0} : Order(i, <<>>)' => Contents' = Bodies(body', i, <<>>)
    BY OrderContents
  <2>2. Contents' = Bodies(body', 0, <<>>)
    BY <1>5, <2>1
  <2> QED
    BY <2>2 DEF Bodies
<1>7. Fifo!Next
  BY <1>4, <1>6, FifoClose
<1>8. QueueTyped'
  <2>1. next' \in [Node -> Node \cup {Nil}] /\ body' \in [Node -> Message \cup {NoMsg}]
    BY <1>4 DEF QueueInv, QueueTyped
  <2> QED
    BY <1>4, <2>1 DEF QueueTyped
<1>9. FreeNodesClear'
  BY <1>4 DEF QueueInv, FreeNodesClear
<1>10. ClosedHoldsNothing' /\ BytesBounded'
  BY <1>4, ParamAssumption DEF ClosedHoldsNothing, BytesBounded
<1> QED
  BY <1>5, <1>7, <1>8, <1>9, <1>10 DEF QueueInv

(* A queue that is created finds every node free.                          *)
LEMMA GetKeepsQueue ==
    ASSUME QueueInv, MsgGet
    PROVE  QueueInv' /\ Fifo!Next
<1>1. /\ ~active /\ active' = TRUE /\ first' = Nil /\ last' = Nil
      /\ count' = 0 /\ bytes' = 0 /\ qbytes' = QBYTES
      /\ UNCHANGED <<next, body, used, evicted>>
  BY DEF MsgGet, pool
<1>2. used = {}
  BY <1>1 DEF QueueInv, ClosedHoldsNothing
<1>3. Order(0, <<>>)'
  <2>1. PICK nx, bd : nx = next' /\ bd = body'
    OBVIOUS
  <2>2. Ordered(Nil, Nil, 0, 0, nx, bd, {}, 0, <<>>)
    BY NoNodes
  <2> QED
    BY <1>1, <1>2, <2>1, <2>2 DEF Order
<1>4. Contents' = <<>>
  <2>1. \A i \in {0} : Order(i, <<>>)' => Contents' = Bodies(body', i, <<>>)
    BY OrderContents
  <2>2. Contents' = Bodies(body', 0, <<>>)
    BY <1>3, <2>1
  <2> QED
    BY <2>2 DEF Bodies
<1>5. Fifo!Next
  BY <1>1, <1>4, FifoOpen
<1>6. QueueTyped' /\ FreeNodesClear' /\ ClosedHoldsNothing' /\ BytesBounded'
  BY <1>1, ParamAssumption
     DEF QueueInv, QueueTyped, FreeNodesClear, ClosedHoldsNothing, BytesBounded
<1> QED
  BY <1>3, <1>5, <1>6 DEF QueueInv

(* IPC_SET leaves the messages alone.                                      *)
LEMMA SetKeepsQueue ==
    ASSUME QueueInv, NEW l \in NewLimits, Set(l)
    PROVE  QueueInv' /\ Fifo!Next
<1>1. /\ active /\ qbytes' = l
      /\ UNCHANGED <<active, first, last, count, bytes, next, body, used, evicted>>
  BY DEF Set, pool
<1>2. PICK n, s : Order(n, s)
  BY DEF QueueInv
<1>3. Order(n, s)'
  BY <1>1, <1>2 DEF Order
<1>4. QueueTyped' /\ FreeNodesClear' /\ ClosedHoldsNothing' /\ BytesBounded'
  BY <1>1, ParamAssumption
     DEF QueueInv, QueueTyped, FreeNodesClear, ClosedHoldsNothing, BytesBounded
<1>5. Fifo!Next
  BY <1>1, FifoSet
<1> QED
  BY <1>3, <1>4, <1>5 DEF QueueInv

----------------------------------------------------------------------------
(* The first state.                                                        *)
LEMMA QueueInit == Init => QueueInv /\ Fifo!Init
<1> SUFFICES ASSUME Init PROVE QueueInv /\ Fifo!Init
  OBVIOUS
<1>1. Order(0, <<>>)
  BY NoNodes DEF Init, Order
<1>2. Contents = <<>>
  <2>1. \A i \in {0} : Order(i, <<>>) => Contents = Bodies(body, i, <<>>)
    BY OrderContents
  <2>2. Contents = Bodies(body, 0, <<>>)
    BY <1>1, <2>1
  <2> QED
    BY <2>2 DEF Bodies
<1>3. QueueTyped /\ FreeNodesClear /\ ClosedHoldsNothing /\ BytesBounded
  <2>1. QueueTyped /\ FreeNodesClear /\ ClosedHoldsNothing
    BY ParamAssumption DEF Init, QueueTyped, FreeNodesClear, ClosedHoldsNothing, Nil
  <2>2. BytesBounded
    <3>1. bytes = 0 /\ QBYTES \in Nat
      BY ParamAssumption DEF Init
    <3>2. 0 <= QBYTES
      BY <3>1
    <3> QED
      BY <3>1, <3>2 DEF BytesBounded
  <2> QED
    BY <2>1, <2>2
<1>4. Fifo!Init
  BY <1>2 DEF Init, Fifo!Init
<1> QED
  BY <1>1, <1>3, <1>4 DEF QueueInv

(* Every step keeps the invariant, and is a step of the abstract queue or  *)
(* none.                                                                   *)
LEMMA QueueStep ==
    ASSUME QueueInv, WaitersTyped, [Next]_vars
    PROVE  QueueInv' /\ (Fifo!Next \/ UNCHANGED Fifo!vars)
<1>1. CASE UNCHANGED vars
  <2>1. UNCHANGED <<queue, pool>> /\ evicted' \subseteq Proc
    BY <1>1 DEF vars, queue, pool, QueueInv, QueueTyped
  <2> QED
    BY <2>1, QueueKept
<1>2. ASSUME NEW p \in Proc, NEW r \in Calls, Call(p, r)
      PROVE  QueueInv' /\ (Fifo!Next \/ UNCHANGED Fifo!vars)
  BY <1>2, CallKeepsQueue DEF Call
<1>3. ASSUME NEW p \in Proc, Resume(p)
      PROVE  QueueInv' /\ (Fifo!Next \/ UNCHANGED Fifo!vars)
  <2>1. req[p] \in Calls \cup {NoReq}
    BY DEF WaitersTyped
  <2>2. CASE Return(p, FALSE) /\ UNCHANGED <<queue, pool>>
    <3>1. evicted' \subseteq Proc
      BY <2>2 DEF Return, QueueInv, QueueTyped
    <3> QED
      BY <2>2, <3>1, QueueKept
  <2>3. CASE active /\ (Send(p, req[p]) \/ Receive(p, req[p]))
    BY <2>1, <2>3, CallKeepsQueue
  <2> QED
    BY <1>3, <2>2, <2>3 DEF Resume
<1>4. CASE MsgGet
  BY <1>4, GetKeepsQueue
<1>5. ASSUME NEW l \in NewLimits, Set(l)
      PROVE  QueueInv' /\ (Fifo!Next \/ UNCHANGED Fifo!vars)
  BY <1>5, SetKeepsQueue
<1>6. CASE Remove
  BY <1>6, RemoveKeepsQueue
<1> QED
  BY <1>1, <1>2, <1>3, <1>4, <1>5, <1>6 DEF Next

MsgInv == ReceiverInv /\ QueueInv

(* Every step keeps both.                                                  *)
LEMMA MsgInvStep == MsgInv /\ [Next]_vars => MsgInv'
BY ReceiverStep, QueueStep DEF MsgInv, ReceiverInv

(* The first state.                                                        *)
LEMMA MsgInvInit == Init => MsgInv
BY ReceiverInit, QueueInit DEF MsgInv

(* What the list says of the pool.                                         *)
LEMMA OrderBalances == QueueInv => PoolBalanced
<1> SUFFICES ASSUME QueueInv PROVE PoolBalanced
  OBVIOUS
<1>1. PICK n, s : Order(n, s)
  BY DEF QueueInv
<1>2. /\ n \in 0..POOL /\ s \in [1..n -> Node] /\ POOL \in Nat
      /\ \A i, j \in 1..n : s[i] = s[j] => i = j
      /\ Chain = s /\ Len(s) = n
      /\ bytes = Fifo!Bytes(Contents)
      /\ used = {s[i] : i \in 1..n}
      /\ count = n /\ last = (IF n = 0 THEN Nil ELSE s[n])
      /\ \A i \in 1..n : next[s[i]] = IF i = n THEN 0 ELSE s[i + 1]
  BY <1>1, OrderIs
<1>3. Cardinality(used) = n
  <2>1. /\ n \in Nat /\ s \in [1..n -> Node]
        /\ \A i, j \in 1..n : s[i] = s[j] => i = j
    BY <1>2
  <2>2. Cardinality(Members(n, s)) = n
    BY <2>1, MembersCount
  <2> QED
    BY <1>2, <2>2 DEF Members
<1>4. last # Nil => next[last] = Nil
  <2>1. n # 0 => n \in 1..n
    BY <1>2
  <2> QED
    BY <1>2, <2>1 DEF Nil
<1> QED
  BY <1>2, <1>3, <1>4 DEF PoolBalanced

(* msg.c:49, 118-131: whatever the order of sends, of receives from the    *)
(* middle of the list, of removals and re-creations, the nodes marked used *)
(* are those of the list, each once, the list ends at q->last, and the two *)
(* counters are those of its messages.                                     *)
THEOREM PoolIsBalanced == Spec => []PoolBalanced
<1>1. MsgInv => PoolBalanced
  BY OrderBalances DEF MsgInv
<1> QED
  BY <1>1, MsgInvInit, MsgInvStep, PTL DEF Spec

(* The history variable stays a truth value.                               *)
RaisedBoolean == raised \in BOOLEAN

LEMMA RaisedTyped ==
    ASSUME RaisedBoolean, [Next]_vars
    PROVE  RaisedBoolean'
<1>1. ASSUME NEW p, NEW wake, Return(p, wake) PROVE RaisedBoolean'
  BY <1>1 DEF Return, RaisedBoolean
<1>2. ASSUME NEW p, NEW r, Block(p, r) PROVE RaisedBoolean'
  BY <1>2 DEF Block, RaisedBoolean
<1>3. ASSUME NEW p, NEW r, Send(p, r) \/ Receive(p, r) PROVE RaisedBoolean'
  BY <1>1, <1>2, <1>3 DEF Send, Receive, Append1, Take
<1>4. ASSUME NEW p, Resume(p) PROVE RaisedBoolean'
  BY <1>1, <1>3, <1>4 DEF Resume
<1>5. CASE UNCHANGED vars
  BY <1>5 DEF vars, RaisedBoolean
<1>6. ASSUME NEW l, Set(l) PROVE RaisedBoolean'
  BY <1>6 DEF Set, RaisedBoolean
<1> QED
  BY <1>3, <1>4, <1>5, <1>6 DEF Next, Call, MsgGet, Remove, RaisedBoolean

(* Every state is well typed; msg_bytes never exceeds the highest limit    *)
(* that the queue was given.                                               *)
THEOREM QueueTypeCorrect == Spec => []TypeOK
<1>1. ASSUME MsgInv, RaisedBoolean PROVE TypeOK
  <2>1. PICK n, s : Order(n, s)
    BY <1>1 DEF MsgInv, QueueInv
  <2>2. /\ n \in 0..POOL /\ s \in [1..n -> Node] /\ count = n
        /\ last = (IF n = 0 THEN Nil ELSE s[n])
        /\ first = (IF n = 0 THEN Nil ELSE s[1])
    BY <2>1, OrderIs
  <2>3. first \in Node \cup {Nil} /\ last \in Node \cup {Nil} /\ count \in 0..POOL
    <3>1. n # 0 => 1 \in 1..n /\ n \in 1..n
      BY <2>2
    <3> QED
      BY <2>2, <3>1
  <2>4. \E l \in NewLimits \cup {QBYTES} : bytes \in 0..l
    <3>1. bytes \in Nat /\ \E l \in NewLimits \cup {QBYTES} : bytes <= l
      BY <1>1 DEF MsgInv, QueueInv, BytesBounded
    <3>2. NewLimits \cup {QBYTES} \subseteq Nat
      BY ParamAssumption
    <3> QED
      BY <3>1, <3>2
  <2> QED
    BY <1>1, <2>3, <2>4
       DEF MsgInv, ReceiverInv, WaitersTyped, Places, QueueInv, QueueTyped, TypeOK,
           RaisedBoolean
<1>2. Init => RaisedBoolean
  BY DEF Init, RaisedBoolean
<1>3. RaisedBoolean /\ [Next]_vars => RaisedBoolean'
  BY RaisedTyped
<1> QED
  BY <1>1, <1>2, <1>3, MsgInvInit, MsgInvStep, PTL DEF Spec

(* uiox_kix_msg.h: the linked list of nodes is the sequence of messages    *)
(* that the header describes, at every step: a send appends, a receive     *)
(* takes the first message of those its type asks for, wherever it is.     *)
THEOREM ImplementsFifo == Spec => Implements
<1>1. MsgInv => QueueInv /\ WaitersTyped
  BY DEF MsgInv, ReceiverInv
<1>2. QueueInv /\ WaitersTyped /\ [Next]_vars => Fifo!Next \/ UNCHANGED Fifo!vars
  BY QueueStep
<1>3. MsgInv /\ [Next]_vars => [Fifo!Next]_(Fifo!vars)
  BY <1>1, <1>2
<1>4. Init => Fifo!Init
  BY QueueInit
<1> QED
  BY <1>3, <1>4, MsgInvInit, MsgInvStep, PTL DEF Spec, Implements, Fifo!Spec

----------------------------------------------------------------------------
(* Senders. IPC_SET wakes nobody, so a limit that is raised can leave a    *)
(* sender asleep beside room for its message; `raised' stands until it has *)
(* been woken.                                                             *)
RaiseNoted == raised \/ qbytes' > qbytes => raised'

(* A sender that stays asleep while no message comes or goes waits for room*)
(* still, or for the next wakeup after a limit was raised.                 *)
LEMMA StillWaiting ==
    ASSUME MsgInv, NoStrandedSender, RaiseNoted,
           UNCHANGED <<active, bytes>>, qbytes' \in Nat,
           NEW q \in Proc, at[q] = "asleep", req'[q] = req[q], req[q].op = "snd"
    PROVE  active' /\ (Fits(req[q])' => raised')
<1>1. active /\ (bytes + req[q].size <= qbytes => raised)
  BY DEF NoStrandedSender, Fits
<1>2. bytes \in Nat /\ qbytes \in Nat
  BY DEF MsgInv, QueueInv, QueueTyped, BytesBounded
<1>3. req[q] \in Calls
  BY DEF MsgInv, ReceiverInv, WaitersTyped, NoReq
<1>4. req[q].size \in Nat
  BY <1>3, ParamAssumption DEF Requests
<1>5. Fits(req[q])' <=> bytes + req[q].size <= qbytes'
  BY DEF Fits
<1>6. CASE qbytes' > qbytes
  BY <1>1, <1>6 DEF RaiseNoted
<1>7. CASE ~(qbytes' > qbytes)
  <2>1. qbytes' <= qbytes
    BY <1>2, <1>7
  <2>2. Fits(req[q])' => bytes + req[q].size <= qbytes
    BY <1>2, <1>4, <1>5, <2>1
  <2> QED
    BY <1>1, <2>2 DEF RaiseNoted
<1> QED
  BY <1>6, <1>7

(* Every step leaves no sender asleep beside room, unless IPC_SET raised   *)
(* the limit and nobody has been woken since.                              *)
LEMMA SendersStep ==
    ASSUME MsgInv, NoStrandedSender, [Next]_vars
    PROVE  NoStrandedSender'
<1>1. WaitersTyped /\ SleepersHaveQueue
  BY DEF MsgInv, ReceiverInv
<1>2. ASSUME \A q \in Proc : at'[q] # "asleep"
      PROVE  NoStrandedSender'
  BY <1>2 DEF NoStrandedSender
<1>3. ASSUME UNCHANGED <<active, bytes>>, RaiseNoted, qbytes' \in Nat,
             \A q \in Proc : at'[q] = "asleep" /\ req'[q].op = "snd" =>
                 \/ at[q] = "asleep" /\ req'[q] = req[q]
                 \/ active /\ qbytes' = qbytes /\ ~Fits(req'[q])
      PROVE  NoStrandedSender'
  <2>1. ASSUME NEW q \in Proc, at'[q] = "asleep", req'[q].op = "snd"
        PROVE  active' /\ (bytes' + req'[q].size <= qbytes' => raised')
    <3>1. CASE at[q] = "asleep" /\ req'[q] = req[q]
      BY <1>3, <2>1, <3>1, StillWaiting DEF Fits
    <3>2. CASE active /\ qbytes' = qbytes /\ ~Fits(req'[q])
      BY <1>3, <3>2 DEF Fits
    <3> QED
      BY <1>3, <2>1, <3>1, <3>2
  <2> QED
    BY <2>1 DEF NoStrandedSender, Fits
<1>4. CASE UNCHANGED vars
  BY <1>4 DEF vars, NoStrandedSender, Fits
<1>5. qbytes \in Nat /\ ~(qbytes > qbytes)
  BY DEF MsgInv, QueueInv, QueueTyped
<1>6. ASSUME NEW p \in Proc, Return(p, FALSE), UNCHANGED <<queue, pool>>
      PROVE  NoStrandedSender'
  <2>1. UNCHANGED <<active, bytes, qbytes>>
    BY <1>6 DEF queue
  <2>2. \A q \in Proc : at'[q] = "asleep" => at[q] = "asleep" /\ req'[q] = req[q]
    BY <1>1, <1>6 DEF WaitersTyped, Return, Places
  <2>3. raised => raised'
    BY <1>6 DEF Return
  <2>4. RaiseNoted
    BY <1>5, <2>1, <2>3 DEF RaiseNoted
  <2> QED
    BY <1>3, <1>5, <2>1, <2>2, <2>4
<1>7. ASSUME NEW p \in Proc, Return(p, TRUE)
      PROVE  NoStrandedSender'
  BY <1>1, <1>2, <1>7, WakeReturn
<1>8. ASSUME NEW p \in Proc, NEW r \in Calls \cup {NoReq}, active, Block(p, r),
             r.op = "snd" => ~Fits(r)
      PROVE  NoStrandedSender'
  <2>1. UNCHANGED <<active, bytes, qbytes, raised>>
    BY <1>8 DEF Block, queue
  <2>2. ASSUME NEW q \in Proc, at'[q] = "asleep", req'[q].op = "snd"
        PROVE  \/ at[q] = "asleep" /\ req'[q] = req[q]
               \/ active /\ qbytes' = qbytes /\ ~Fits(req'[q])
    <3>1. CASE q = p
      <4>1. req'[q] = r
        BY <1>1, <1>8, <3>1 DEF WaitersTyped, Block
      <4> QED
        BY <1>8, <2>1, <2>2, <4>1
    <3>2. CASE q # p
      BY <1>1, <1>8, <2>2, <3>2 DEF WaitersTyped, Block
    <3> QED
      BY <3>1, <3>2
  <2>3. RaiseNoted
    BY <1>5, <2>1 DEF RaiseNoted
  <2> QED
    BY <1>3, <1>5, <2>1, <2>2, <2>3
<1>9. ASSUME NEW p \in Proc, NEW r \in Calls \cup {NoReq}, active,
             Send(p, r) \/ Receive(p, r)
      PROVE  NoStrandedSender'
  <2>1. CASE Block(p, r) /\ (r.op = "snd" => ~Fits(r))
    BY <1>8, <1>9, <2>1
  <2>2. CASE Append1(p, r)
    BY <1>6, <1>7, <2>2 DEF Append1
  <2>3. ASSUME NEW i, Take(p, r, i) PROVE NoStrandedSender'
    BY <1>6, <1>7, <2>3 DEF Take
  <2> QED
    BY <1>9, <2>1, <2>2, <2>3 DEF Send, Receive
<1>10. ASSUME NEW p \in Proc, NEW r \in Calls, Call(p, r) PROVE NoStrandedSender'
  BY <1>9, <1>10 DEF Call
<1>11. ASSUME NEW p \in Proc, Resume(p) PROVE NoStrandedSender'
  <2>1. req[p] \in Calls \cup {NoReq}
    BY <1>1 DEF WaitersTyped
  <2> QED
    BY <1>6, <1>9, <1>11, <2>1 DEF Resume
<1>12. CASE MsgGet
  BY <1>1, <1>2, <1>12 DEF MsgGet, SleepersHaveQueue
<1>13. ASSUME NEW l \in NewLimits, Set(l)
       PROVE  NoStrandedSender'
  <2>1. qbytes' \in Nat /\ RaiseNoted
    BY <1>13, ParamAssumption DEF Set, RaiseNoted
  <2>2. UNCHANGED <<active, bytes, at, req>>
    BY <1>13 DEF Set
  <2> QED
    BY <1>3, <2>1, <2>2
<1>14. CASE Remove
  BY <1>2, <1>14 DEF Remove, Waked
<1> QED
  BY <1>4, <1>10, <1>11, <1>12, <1>13, <1>14 DEF Next

(* msg.c:228: a sender sleeps only on a queue that exists, and beside room *)
(* for its message only between an IPC_SET that raised the limit and the   *)
(* next message that is sent or taken, for any limits IPC_SET installs.    *)
THEOREM SendersAwake == Spec => []NoStrandedSender
<1>1. Init => NoStrandedSender
  BY DEF Init, NoStrandedSender
<1>2. MsgInv /\ NoStrandedSender /\ [Next]_vars => NoStrandedSender'
  BY SendersStep
<1> QED
  BY <1>1, <1>2, MsgInvInit, MsgInvStep, PTL DEF Spec
=============================================================================
