--------------------------- MODULE PsaProc_proofs --------------------------
(***************************************************************************)
(* For every size of the process table and of the sleep hash. Whatever has *)
(* become of the linked lists, one process runs and the dead stay so: both *)
(* rest on the transition table of proc_set_state. While no signal is sent *)
(* to a sleeper, the lists are exact and the layer implements PsaSched.    *)
(***************************************************************************)
EXTENDS PsaProc, ListLemmas, TLAPS

(* What every step preserves. No code makes a process USER_RUNNING: the    *)
(* switch is left to the arch layer. From USER_RUNNING the transition to   *)
(* ZOMBIE would be refused, and a dead process would keep the CPU.         *)
StatesTyped == /\ pstate \in [Slot -> PState]
               /\ pid \in [Slot -> Int]
               /\ nextPid \in Int

StateInv == /\ StatesTyped
            /\ \A p \in Slot : pstate[p] # "USER_RUNNING"
            /\ RunnerHasCpu

(* One step never revives a dead entry and changes the PID of none that is *)
(* in use otherwise: the body of DeadStayDead.                             *)
DeadStep ==
    \A p \in Slot :
        /\ pstate[p] = "ZOMBIE" => pstate'[p] \in {"ZOMBIE", "UNUSED"}
        /\ pid'[p] # pid[p] => pstate[p] \in {"ZOMBIE", "UNUSED"}

----------------------------------------------------------------------------
(* What proc_set_state accepts.                                            *)
LEMMA SetStateFacts ==
    /\ \A old, new \in PState : SetState(old, new) \in {old, new}
    /\ \A new : SetState("ZOMBIE", new) = "ZOMBIE"
    /\ SetState("KERNEL_RUNNING", "ZOMBIE") = "ZOMBIE"
    /\ SetState("KERNEL_RUNNING", "SLEEP_MEM") = "SLEEP_MEM"
    /\ SetState(SetState("UNUSED", "CREATED"), "READY") = "READY"
BY DEF SetState, Successors, PState

(* A wakeup moves a sleeper only, and never revives the dead. *)
LEMMA WakeStateFacts ==
    ASSUME NEW s \in PState
    PROVE  /\ WakeState(s) \in {s, "READY", "READY_SWAPPED"}
           /\ s = "ZOMBIE" => WakeState(s) = s
BY DEF WakeState, SetState, Successors, PState

(* The way out of a system call, given the states ps the call leaves.      *)
LEMMA SignalRunKeeps ==
    ASSUME NEW ps \in [Slot -> PState], NEW sg, NEW mk, SignalRun(ps, sg, mk),
           \A p \in Slot : /\ ps[p] # "USER_RUNNING"
                           /\ ps[p] \in Running => p = current,
           current' = current
    PROVE  /\ pstate' \in [Slot -> PState]
           /\ \A p \in Slot : /\ pstate'[p] # "USER_RUNNING"
                              /\ ps[p] # "KERNEL_RUNNING" => pstate'[p] \in {ps[p], "ZOMBIE"}
           /\ RunnerHasCpu'
<1>1. CASE pstate' = ps /\ idle' = FALSE
  BY <1>1 DEF RunnerHasCpu
<1>2. CASE /\ pstate' = [ps EXCEPT ![current] = SetState(@, "ZOMBIE")]
           /\ idle' = TRUE
  <2>1. ASSUME NEW p \in Slot
        PROVE  /\ pstate'[p] \in {ps[p], "ZOMBIE"}
               /\ pstate'[p] \notin Running
    <3>1. ps[p] \in PState \ {"USER_RUNNING"}
      OBVIOUS
    <3>2. CASE p = current
      BY <1>2, <3>1, <3>2, SetStateFacts DEF Running, PState
    <3>3. CASE p # current
      BY <1>2, <3>1, <3>3
    <3> QED
      BY <3>2, <3>3
  <2>2. pstate' \in [Slot -> PState]
    BY <1>2, <2>1 DEF PState
  <2> QED
    BY <2>1, <2>2 DEF RunnerHasCpu, Running
<1> QED
  BY <1>1, <1>2 DEF SignalRun

(* A system call that leaves the states alone.                             *)
LEMMA QuietCall ==
    ASSUME StateInv, NEW sg, NEW mk, SignalRun(pstate, sg, mk),
           UNCHANGED <<pid, nextPid, current>>
    PROVE  StateInv' /\ DeadStep
<1>1. \A p \in Slot : pstate[p] \in Running => p = current
  BY DEF StateInv, RunnerHasCpu
<1>2. /\ pstate' \in [Slot -> PState]
      /\ \A p \in Slot : /\ pstate'[p] # "USER_RUNNING"
                         /\ pstate[p] # "KERNEL_RUNNING" => pstate'[p] \in {pstate[p], "ZOMBIE"}
      /\ RunnerHasCpu'
  BY <1>1, SignalRunKeeps DEF StateInv, StatesTyped
<1> QED
  BY <1>2 DEF StateInv, StatesTyped, DeadStep

----------------------------------------------------------------------------
(* One step of each handler keeps StateInv, and is a DeadStep: fork. *)
LEMMA ForkStep ==
    ASSUME StateInv, NEW child \in Slot, NEW d \in BOOLEAN, Fork(child, d)
    PROVE  StateInv' /\ DeadStep
<1>1. pstate[child] = "UNUSED" /\ nextPid' \in Int
  BY DEF Fork, First, WrapPid, StateInv, StatesTyped
<1>2. CASE d
  <2> DEFINE ps == [pstate EXCEPT ![child] =
                        SetState(SetState(@, "CREATED"), "READY")]
  <2>1. ps = [pstate EXCEPT ![child] = "READY"]
    BY <1>1, SetStateFacts DEF StateInv, StatesTyped
  <2>2. SignalRun(ps, sig, mask) /\ current' = current
    BY <1>2 DEF Fork
  <2>3. /\ ps \in [Slot -> PState]
        /\ \A p \in Slot : /\ ps[p] # "USER_RUNNING"
                           /\ ps[p] \in Running => p = current
        /\ \A p \in Slot : pstate[p] = "ZOMBIE" => ps[p] = "ZOMBIE"
    BY <1>1, <2>1 DEF StateInv, StatesTyped, RunnerHasCpu, PState, Running
  <2> HIDE DEF ps
  <2>4. /\ pstate' \in [Slot -> PState]
        /\ \A p \in Slot : /\ pstate'[p] # "USER_RUNNING"
                           /\ ps[p] # "KERNEL_RUNNING" => pstate'[p] \in {ps[p], "ZOMBIE"}
        /\ RunnerHasCpu'
    BY <2>2, <2>3, SignalRunKeeps
  <2>5. /\ pid' \in [Slot -> Int]
        /\ \A p \in Slot : pid'[p] # pid[p] => p = child
    BY <1>2 DEF Fork, StateInv, StatesTyped
  <2> QED
    BY <1>1, <2>3, <2>4, <2>5 DEF StateInv, StatesTyped, DeadStep
<1>3. CASE ~d
  <2>1. /\ SignalRun(pstate, sig, mask)
        /\ UNCHANGED <<pid, current>>
    BY <1>3 DEF Fork
  <2>2. \A p \in Slot : pstate[p] \in Running => p = current
    BY DEF StateInv, RunnerHasCpu
  <2>3. /\ pstate' \in [Slot -> PState]
        /\ \A p \in Slot : /\ pstate'[p] # "USER_RUNNING"
                           /\ pstate[p] # "KERNEL_RUNNING" => pstate'[p] \in {pstate[p], "ZOMBIE"}
        /\ RunnerHasCpu'
    BY <2>1, <2>2, SignalRunKeeps DEF StateInv, StatesTyped
  <2> QED
    BY <1>1, <2>1, <2>3 DEF StateInv, StatesTyped, DeadStep
<1> QED
  BY <1>2, <1>3

(* exit. *)
LEMMA ExitStep ==
    ASSUME StateInv, Exit
    PROVE  StateInv' /\ DeadStep
<1>1. ASSUME NEW p \in Slot
      PROVE  /\ pstate'[p] \in {pstate[p], "ZOMBIE"}
             /\ pstate'[p] \notin Running
  <2>1. pstate[p] \in PState \ {"USER_RUNNING"}
    BY DEF StateInv, StatesTyped
  <2>2. CASE p = current
    BY <2>1, <2>2, SetStateFacts DEF Exit, StateInv, StatesTyped, Running, PState
  <2>3. CASE p # current
    BY <2>1, <2>3 DEF Exit, StateInv, StatesTyped, RunnerHasCpu
  <2> QED
    BY <2>2, <2>3
<1>2. pstate' \in [Slot -> PState]
  BY <1>1 DEF Exit, StateInv, StatesTyped, PState
<1> QED
  BY <1>1, <1>2 DEF Exit, entries, StateInv, StatesTyped, RunnerHasCpu,
                    Running, DeadStep

(* wait_pid, the only handler that clears an entry. *)
LEMMA WaitPidStep ==
    ASSUME StateInv, NEW child \in Slot, WaitPid(child)
    PROVE  StateInv' /\ DeadStep
<1> DEFINE ps == [pstate EXCEPT ![child] = "UNUSED"]
           sg == [sig EXCEPT ![child] = {}]
           mk == [mask EXCEPT ![child] = {}]
<1>1. /\ SignalRun(ps, sg, mk)
      /\ pstate[child] = "ZOMBIE" /\ UNCHANGED <<current, nextPid>>
  BY DEF WaitPid, DeadChild
<1>2. /\ ps \in [Slot -> PState]
      /\ \A p \in Slot : /\ ps[p] # "USER_RUNNING"
                         /\ ps[p] \in Running => p = current
      /\ \A p \in Slot : pstate[p] = "ZOMBIE" => ps[p] \in {"ZOMBIE", "UNUSED"}
  BY DEF StateInv, StatesTyped, RunnerHasCpu, PState, Running
<1> HIDE DEF ps, sg, mk
<1>3. /\ pstate' \in [Slot -> PState]
      /\ \A p \in Slot : /\ pstate'[p] # "USER_RUNNING"
                         /\ ps[p] # "KERNEL_RUNNING" => pstate'[p] \in {ps[p], "ZOMBIE"}
      /\ RunnerHasCpu'
  BY <1>1, <1>2, SignalRunKeeps
<1>4. /\ pid' \in [Slot -> Int]
      /\ \A p \in Slot : pid'[p] # pid[p] => p = child
  BY DEF WaitPid, StateInv, StatesTyped
<1> QED
  BY <1>1, <1>2, <1>3, <1>4 DEF StateInv, StatesTyped, DeadStep

(* sleep. *)
LEMMA SleepStep ==
    ASSUME StateInv, NEW c \in Chans, NEW i \in BOOLEAN, Sleep(c, i)
    PROVE  StateInv' /\ DeadStep
<1> DEFINE asleep == [pstate EXCEPT ![current] = SetState(@, "SLEEP_MEM")]
           next == SleepEnqueue(links, current, c).runq
<1>1. ASSUME NEW p \in Slot
      PROVE  /\ asleep[p] \in {pstate[p], "SLEEP_MEM"}
             /\ asleep[p] \notin Running
             /\ pstate[p] = "ZOMBIE" => asleep[p] = "ZOMBIE"
  <2>1. pstate[p] \in PState \ {"USER_RUNNING"}
    BY DEF StateInv, StatesTyped
  <2>2. CASE p = current
    BY <2>1, <2>2, SetStateFacts DEF StateInv, StatesTyped, Running, PState
  <2>3. CASE p # current
    BY <2>1, <2>3 DEF StateInv, StatesTyped, RunnerHasCpu
  <2> QED
    BY <2>2, <2>3
<1>2. asleep \in [Slot -> PState]
  BY <1>1 DEF StateInv, StatesTyped, PState
<1>3. UNCHANGED <<pid, nextPid>>
  BY DEF Sleep, entries
<1>4. CASE pstate' = asleep /\ idle' = TRUE
  BY <1>1, <1>2, <1>3, <1>4 DEF StateInv, StatesTyped, RunnerHasCpu, Running,
                                DeadStep
<1>5. CASE /\ pstate' = [asleep EXCEPT ![next] = SetState(@, "KERNEL_RUNNING")]
           /\ current' = next /\ idle' = FALSE
  <2> HIDE DEF asleep, next
  <2>1. ASSUME NEW p \in Slot
        PROVE  /\ pstate'[p] \in {asleep[p], "KERNEL_RUNNING"}
               /\ p # next => pstate'[p] = asleep[p]
               /\ asleep[p] = "ZOMBIE" => pstate'[p] = "ZOMBIE"
    <3>1. asleep[p] \in PState
      BY <1>2
    <3> QED
      BY <1>2, <1>5, <3>1, SetStateFacts DEF PState
  <2>2. pstate' \in [Slot -> PState]
    BY <1>2, <1>5, <2>1 DEF PState
  <2> QED
    BY <1>1, <1>3, <1>5, <2>1, <2>2 DEF StateInv, StatesTyped, RunnerHasCpu,
                                        Running, DeadStep
<1> QED
  BY <1>4, <1>5 DEF Sleep

(* wakeup. *)
LEMMA WakeupStep ==
    ASSUME StateInv, NEW c \in Chans, Wakeup(c)
    PROVE  StateInv' /\ DeadStep
<1>1. ASSUME NEW p \in Slot
      PROVE  /\ pstate'[p] \in {pstate[p], "READY", "READY_SWAPPED"}
             /\ pstate[p] = "ZOMBIE" => pstate'[p] = "ZOMBIE"
  <2>1. pstate[p] \in PState
    BY DEF StateInv, StatesTyped
  <2>2. pstate'[p] \in {pstate[p], WakeState(pstate[p])}
    BY DEF Wakeup
  <2> QED
    BY <2>1, <2>2, WakeStateFacts
<1>2. pstate' \in [Slot -> PState]
  <2>1. \A p \in Slot : pstate'[p] \in PState
    BY <1>1 DEF StateInv, StatesTyped, PState
  <2> QED
    BY <2>1 DEF Wakeup
<1> QED
  BY <1>1, <1>2 DEF Wakeup, entries, StateInv, StatesTyped, RunnerHasCpu,
                    Running, DeadStep

(* The idle CPU takes a process. *)
LEMMA DispatchStep ==
    ASSUME StateInv, Dispatch
    PROVE  StateInv' /\ DeadStep
<1>1. ASSUME NEW p \in Slot
      PROVE  /\ pstate'[p] \in {pstate[p], "KERNEL_RUNNING"}
             /\ p # current' => pstate'[p] = pstate[p]
             /\ pstate[p] \notin Running
             /\ pstate[p] = "ZOMBIE" => pstate'[p] = "ZOMBIE"
  <2>1. pstate[p] \in PState
    BY DEF StateInv, StatesTyped
  <2> QED
    BY <2>1, SetStateFacts DEF Dispatch, StateInv, StatesTyped, RunnerHasCpu,
                               PState
<1>2. pstate' \in [Slot -> PState]
  BY <1>1 DEF Dispatch, StateInv, StatesTyped, PState
<1> QED
  BY <1>1, <1>2 DEF Dispatch, entries, StateInv, StatesTyped, RunnerHasCpu,
                    Running, DeadStep

----------------------------------------------------------------------------
(* The first process. *)
LEMMA StateInit == Init => StateInv
BY DEF Init, StateInv, StatesTyped, RunnerHasCpu, PState, Running

(* All steps together. *)
LEMMA StateStep == StateInv /\ [Next]_vars => StateInv' /\ (DeadStep \/ UNCHANGED vars)
<1> SUFFICES ASSUME StateInv, [Next]_vars
             PROVE  StateInv' /\ (DeadStep \/ UNCHANGED vars)
  OBVIOUS
<1>1. ASSUME NEW t \in Slot, NEW s \in Sigs, SendSignal(t, s)
      PROVE  StateInv' /\ DeadStep
  BY <1>1, QuietCall DEF SendSignal
<1>2. ASSUME NEW set \in SUBSET Sigs, SigProcMask(set)
      PROVE  StateInv' /\ DeadStep
  BY <1>2, QuietCall DEF SigProcMask
<1>3. CASE SyscallReturn
  BY <1>3, QuietCall DEF SyscallReturn
<1>4. ASSUME NEW v \in Pris, Reprioritise(v)
      PROVE  StateInv' /\ DeadStep
  BY <1>4 DEF Reprioritise, entries, StateInv, StatesTyped, RunnerHasCpu,
              DeadStep
<1>5. CASE UNCHANGED vars
  BY <1>5 DEF vars, StateInv, StatesTyped, RunnerHasCpu
<1> QED
  BY <1>1, <1>2, <1>3, <1>4, <1>5, ForkStep, ExitStep, WaitPidStep, SleepStep,
     WakeupStep, DispatchStep DEF Next

(* process.c:127-240: whatever the lists hold, a process in a running state*)
(* has the CPU, so no two are running.                                     *)
THEOREM OneRunner == Spec => []RunnerHasCpu
<1>1. StateInv => RunnerHasCpu
  BY DEF StateInv
<1> QED
  BY <1>1, StateInit, StateStep, PTL DEF Spec

(* process.c:216: only proc_free ends ZOMBIE, and no entry changes its PID *)
(* but through it.                                                         *)
THEOREM TheDeadStayDead == Spec => DeadStayDead
<1>1. StateInv /\ [Next]_vars => [DeadStep]_vars
  BY StateStep
<1> QED
  BY <1>1, StateInit, StateStep, PTL DEF Spec, DeadStayDead, DeadStep

----------------------------------------------------------------------------
(* The lists. Everything below supposes that no signal goes to a sleeper:  *)
(* send_signal queues a sleeper on the ready queue while its bucket still  *)
(* holds it, which is the finding of the run psa_signal_sleeper.           *)

LinkType == [next : [Slot -> Ptr], prev : [Slot -> Ptr], runq : Ptr,
             head : [Bucket -> Ptr], tail : [Bucket -> Ptr]]

(* The list from h holds the entries of S, in the order s. *)
Queue(l, h, S, n, s) == /\ Listed(l.next, h, NPROC, n, s)
                        /\ Backed(l.prev, n, s)
                        /\ S = Members(n, s)

(* It is in priority order. *)
Ordered(pr, n, s) == \A i, j \in 1..n : i <= j => pr[s[i]] <= pr[s[j]]

(* The bucket b holds the entries of S, in some order, and ends at its tail. *)
Bucketed(l, b, S) == \E n, s : /\ Queue(l, l.head[b], S, n, s)
                               /\ l.tail[b] = IF n = 0 THEN 0 ELSE s[n]

(* The ready queue holds R, in the order s, and each bucket b holds Q[b]. *)
Queues(l, pr, R, Q, n, s) ==
    /\ l \in LinkType
    /\ Queue(l, l.runq, R, n, s)
    /\ Ordered(pr, n, s)
    /\ \A b \in Bucket : Bucketed(l, b, Q[b])

(* No entry is asked to be in two places. *)
Apart(R, Q) ==
    \A b \in Bucket : /\ R \cap Q[b] = {}
                      /\ \A d \in Bucket : b # d => Q[b] \cap Q[d] = {}

(* What the constants are. *)
LEMMA BasicTypes == /\ NPROC \in Nat \ {0} /\ Slot = 1..NPROC
                    /\ Ptr = 0..NPROC /\ Nil = 0
                    /\ \A c \in Nat : HashSlot(c) \in Bucket
                    /\ \A c \in Chans : c \in Nat \ {0}
                    /\ Pris \subseteq Int
<1>1. HashSz \in Nat \ {0}
  BY ParamAssumption
<1>2. \A c \in Nat : c % HashSz \in 0..(HashSz - 1)
  BY <1>1
<1> QED
  BY <1>1, <1>2, ParamAssumption DEF Slot, Ptr, Nil, HashSlot, Bucket

(* The function that Walk denotes.                                         *)
LEMMA WalkFacts ==
    ASSUME NEW l \in LinkType, NEW h \in Ptr
    PROVE  Walks(Walk(l, h), l.next, h, NPROC)
<1> DEFINE Body(f) == [i \in 0..NPROC |-> IF i = 0 THEN h
                                          ELSE IF f[i - 1] = Nil THEN Nil
                                          ELSE l.next[f[i - 1]]]
<1>1. l.next \in [1..NPROC -> 0..NPROC] /\ h \in 0..NPROC /\ NPROC \in Nat
  BY BasicTypes DEF LinkType
<1>2. PICK w \in [0..NPROC -> 0..NPROC] : Walks(w, l.next, h, NPROC)
  BY <1>1, WalkExists
<1>3. w = Body(w)
  <2>1. /\ w[0] = h
        /\ \A i \in 1..NPROC : w[i] = IF w[i - 1] = 0 THEN 0 ELSE l.next[w[i - 1]]
    BY <1>2 DEF Walks
  <2>2. \A i \in 0..NPROC : i # 0 => i \in 1..NPROC
    BY <1>1
  <2>3. \A i \in 0..NPROC : w[i] = Body(w)[i]
    BY <2>1, <2>2 DEF Nil
  <2> QED
    BY <1>2, <2>3
<1>4. Walk(l, h) = Body(Walk(l, h))
  <2>1. Walk(l, h) = CHOOSE f : f = Body(f)
    BY DEF Walk
  <2> HIDE DEF Body
  <2> QED
    BY <1>3, <2>1
<1> DEFINE v == Walk(l, h)
<1> HIDE DEF v
<1>5. v = Body(v)
  BY <1>4 DEF v
<1>6. v = [i \in 0..NPROC |-> v[i]]
  BY <1>5
<1>7. v[0] = h
  BY <1>1, <1>5
<1>8. ASSUME NEW i \in 1..NPROC
      PROVE  v[i] = IF v[i - 1] = 0 THEN 0 ELSE l.next[v[i - 1]]
  <2>1. i \in 0..NPROC /\ i # 0
    BY <1>1
  <2>2. v[i] = Body(v)[i]
    BY <1>5
  <2> QED
    BY <2>1, <2>2 DEF Nil
<1> QED
  BY <1>6, <1>7, <1>8 DEF Walks, v

(* What the walk along a queue meets.                                      *)
LEMMA QueueWalk ==
    ASSUME NEW l \in LinkType, NEW h, NEW S, NEW n, NEW s, Queue(l, h, S, n, s)
    PROVE  /\ n \in 0..NPROC /\ s \in [1..n -> Slot] /\ S \subseteq Slot
           /\ Cardinality(S) = n
           /\ h \in Ptr
           /\ \A i \in 0..NPROC : Walk(l, h)[i] = IF i < n THEN s[i + 1] ELSE 0
<1>1. Listed(l.next, h, NPROC, n, s) /\ S = Members(n, s) /\ NPROC \in Nat
  BY BasicTypes DEF Queue
<1>2. /\ n \in 0..NPROC /\ Cardinality(S) = n /\ S \subseteq 1..NPROC
  BY <1>1, ListSize
<1>3. s \in [1..n -> Slot] /\ h \in Ptr
  BY <1>1, BasicTypes DEF Listed
<1>4. Walks(Walk(l, h), l.next, h, NPROC)
  BY <1>3, WalkFacts
<1>5. \A i \in 0..NPROC : Walk(l, h)[i] = IF i < n THEN s[i + 1] ELSE 0
  BY <1>1, <1>4, WalkIs
<1> QED
  BY <1>2, <1>3, <1>5, BasicTypes

(* The list that ListOf describes.                                         *)
LEMMA QueueListOf ==
    ASSUME links \in LinkType, NEW h, NEW S, NEW n, NEW s,
           Queue(links, h, S, n, s)
    PROVE  ListOf(S, h)
<1> DEFINE w == Walk(links, h)
<1>1. /\ n \in 0..NPROC /\ s \in [1..n -> Slot] /\ S \subseteq Slot
      /\ Cardinality(S) = n /\ h \in Ptr
      /\ \A i \in 0..NPROC : w[i] = IF i < n THEN s[i + 1] ELSE 0
  BY QueueWalk
<1>2. /\ NPROC \in Nat /\ n \in Nat /\ S = Members(n, s)
      /\ h = IF n = 0 THEN 0 ELSE s[1]
      /\ \A i \in 1..n : links.next[s[i]] = IF i = n THEN 0 ELSE s[i + 1]
      /\ \A i \in 1..n : links.prev[s[i]] = IF i = 1 THEN 0 ELSE s[i - 1]
  BY BasicTypes DEF Queue, Listed, Backed
<1> HIDE DEF w
<1>3. {w[i] : i \in 0..(n - 1)} = S
  <2>1. \A i \in 0..(n - 1) : i \in 0..NPROC /\ i < n /\ i + 1 \in 1..n
    BY <1>1, <1>2
  <2>2. \A i \in 1..n : i - 1 \in 0..(n - 1) /\ (i - 1) + 1 = i
    BY <1>2
  <2>3. \A i \in 0..(n - 1) : w[i] \in S
    BY <1>1, <1>2, <2>1 DEF Members
  <2>4. \A i \in 1..n : s[i] = w[i - 1]
    BY <1>1, <2>1, <2>2
  <2> QED
    BY <1>2, <2>2, <2>3, <2>4 DEF Members
<1>4. w[n] = Nil
  BY <1>1, <1>2 DEF Nil
<1>5. h # Nil => links.prev[h] = Nil
  <2>1. CASE n = 0
    BY <1>2, <2>1 DEF Nil
  <2>2. CASE n # 0
    BY <1>2, <2>2 DEF Nil
  <2> QED
    BY <2>1, <2>2
<1>6. ASSUME NEW p \in S, links.next[p] # Nil
      PROVE  links.prev[links.next[p]] = p
  <2>1. PICK i \in 1..n : p = s[i]
    BY <1>2 DEF Members
  <2>2. i # n /\ links.next[p] = s[i + 1]
    BY <1>2, <1>6, <2>1 DEF Nil
  <2>3. i + 1 \in 1..n /\ i + 1 # 1 /\ (i + 1) - 1 = i
    BY <1>2, <2>2
  <2> QED
    BY <1>2, <2>1, <2>2, <2>3
<1> QED
  BY <1>1, <1>3, <1>4, <1>5, <1>6 DEF ListOf, w

----------------------------------------------------------------------------
(* Links written outside a queue leave it as it is.                        *)
LEMMA QueueKept ==
    ASSUME NEW l, NEW h, NEW S, NEW n, NEW s, Queue(l, h, S, n, s), NEW l2,
           \A q \in S : l2.next[q] = l.next[q] /\ l2.prev[q] = l.prev[q]
    PROVE  Queue(l2, h, S, n, s)
<1>1. /\ Listed(l.next, h, NPROC, n, s) /\ Backed(l.prev, n, s)
      /\ S = Members(n, s) /\ NPROC \in Nat
  BY BasicTypes DEF Queue
<1>2. Listed(l2.next, h, NPROC, n, s)
  BY <1>1, ListKept
<1>3. Backed(l2.prev, n, s)
  BY <1>1, BackKept
<1> QED
  BY <1>1, <1>2, <1>3 DEF Queue

(* A bucket whose ends and links no write touches. *)
LEMMA BucketKept ==
    ASSUME NEW l, NEW b, NEW S, Bucketed(l, b, S), NEW l2,
           l2.head[b] = l.head[b], l2.tail[b] = l.tail[b],
           \A q \in S : l2.next[q] = l.next[q] /\ l2.prev[q] = l.prev[q]
    PROVE  Bucketed(l2, b, S)
<1>1. PICK n, s : /\ Queue(l, l.head[b], S, n, s)
                  /\ l.tail[b] = IF n = 0 THEN 0 ELSE s[n]
  BY DEF Bucketed
<1>2. Queue(l2, l.head[b], S, n, s)
  BY <1>1, QueueKept
<1> QED
  BY <1>1, <1>2 DEF Bucketed

(* p is linked into the ready queue between b and f, which may be null.    *)
LinkedIn(l, l2, p, b, f) ==
    /\ l2 \in LinkType
    /\ l2.next = Put([l.next EXCEPT ![p] = f], b, p)
    /\ l2.prev = Put([l.prev EXCEPT ![p] = b], f, p)
    /\ l2.runq = IF b = Nil THEN p ELSE l.runq
    /\ l2.head = l.head /\ l2.tail = l.tail

(* Where the scan of sched_enqueue stops, and what is linked there.        *)
LEMMA EnqueueWrites ==
    ASSUME NEW l \in LinkType, NEW pr \in [Slot -> Int], NEW p \in Slot,
           NEW R, NEW n, NEW s, Queue(l, l.runq, R, n, s), Ordered(pr, n, s),
           NEW l2, l2 = SchedEnqueue(l, pr, p)
    PROVE  \E k \in 0..n :
              /\ \A i \in 1..n : pr[s[i]] <= pr[p] <=> i <= k
              /\ LinkedIn(l, l2, p, IF k = 0 THEN 0 ELSE s[k],
                                    IF k = n THEN 0 ELSE s[k + 1])
<1> DEFINE w == Walk(l, l.runq)
           Stops(m) == /\ \A i \in 0..(m - 1) : w[i] # Nil /\ pr[w[i]] <= pr[p]
                       /\ w[m] = Nil \/ pr[w[m]] > pr[p]
           k == CHOOSE m \in 0..NPROC : Stops(m)
           b == IF k = 0 THEN Nil ELSE w[k - 1]
           f == w[k]
<1>1. /\ n \in 0..NPROC /\ s \in [1..n -> Slot]
      /\ \A i \in 0..NPROC : w[i] = IF i < n THEN s[i + 1] ELSE 0
  BY QueueWalk
<1>2. NPROC \in Nat /\ Slot = 1..NPROC /\ Nil = 0
  BY BasicTypes
<1>3. l2 = [l EXCEPT !.next = Put([l.next EXCEPT ![p] = f], b, p),
                     !.prev = Put([l.prev EXCEPT ![p] = b], f, p),
                     !.runq = IF b = Nil THEN p ELSE l.runq]
  BY Zenon DEF SchedEnqueue
<1> HIDE DEF w
<1>4. \E m \in 0..NPROC : Stops(m)
  <2> DEFINE K == {m \in 0..n : w[m] = Nil \/ pr[w[m]] > pr[p]}
  <2>1. K \in SUBSET Nat /\ n \in K
    BY <1>1, <1>2
  <2>2. PICK m \in K : \A j \in K : m <= j
    <3> HIDE DEF K
    <3> QED
      BY <2>1, LeastNatural
  <2>3. ASSUME NEW i \in 0..(m - 1)
        PROVE  w[i] # Nil /\ pr[w[i]] <= pr[p]
    <3>1. i \notin K /\ i \in 0..n /\ i < n
      BY <1>1, <2>2
    <3>2. w[i] # Nil /\ ~(pr[w[i]] > pr[p])
      BY <3>1
    <3>3. w[i] \in Slot
      <4>1. i + 1 \in 1..n /\ i \in 0..NPROC
        BY <1>1, <1>2, <3>1
      <4> QED
        BY <1>1, <3>1, <4>1
    <3> QED
      BY <3>2, <3>3
  <2>4. m \in 0..NPROC
    BY <1>1, <1>2, <2>2
  <2>5. Stops(m)
    BY <2>2, <2>3
  <2> QED
    BY <2>4, <2>5
<1>5. k \in 0..NPROC /\ Stops(k)
  BY <1>4
<1> HIDE DEF k
<1>6. k \in 0..n
  <2>1. n \in 0..NPROC /\ w[n] = Nil
    BY <1>1, <1>2
  <2>2. n \notin 0..(k - 1)
    BY <1>5, <2>1
  <2>3. k \in 0..NPROC
    BY <1>5
  <2> QED
    BY <1>2, <2>1, <2>2, <2>3
<1>7. /\ b = IF k = 0 THEN 0 ELSE s[k]
      /\ f = IF k = n THEN 0 ELSE s[k + 1]
      /\ b # Nil <=> k # 0
  <2>1. f = IF k = n THEN 0 ELSE s[k + 1]
    BY <1>1, <1>2, <1>6
  <2>2. k # 0 => k - 1 \in 0..NPROC /\ k - 1 < n /\ (k - 1) + 1 = k /\ k \in 1..n
    BY <1>1, <1>2, <1>6
  <2>3. k # 0 => w[k - 1] = s[k] /\ s[k] # 0
    BY <1>1, <1>2, <2>2
  <2> QED
    BY <1>2, <2>1, <2>3
<1>8. ASSUME NEW i \in 1..n
      PROVE  pr[s[i]] <= pr[p] <=> i <= k
  <2>1. CASE i <= k
    <3>1. i - 1 \in 0..(k - 1) /\ i - 1 \in 0..NPROC /\ i - 1 < n /\ (i - 1) + 1 = i
      BY <1>1, <1>2, <1>5, <2>1
    <3> QED
      BY <1>1, <1>5, <2>1, <3>1
  <2>2. CASE i > k
    <3>0. k < n /\ k + 1 \in 1..n /\ k + 1 <= i
      BY <1>1, <1>2, <1>6, <2>2
    <3>1. k < n /\ k + 1 \in 1..n /\ k + 1 <= i /\ w[k] = s[k + 1]
      BY <1>1, <1>5, <3>0
    <3>2. s[k + 1] \in Slot /\ s[i] \in Slot
      BY <1>1, <3>1
    <3>3. pr[s[k + 1]] > pr[p]
      BY <1>2, <1>5, <3>1, <3>2
    <3>4. pr[s[k + 1]] <= pr[s[i]]
      BY <3>1 DEF Ordered
    <3>5. pr[s[k + 1]] \in Int /\ pr[s[i]] \in Int /\ pr[p] \in Int
      BY <3>2
    <3>6. ~(pr[s[i]] <= pr[p])
      BY <3>3, <3>4, <3>5
    <3> QED
      BY <1>6, <2>2, <3>6
  <2> QED
    BY <1>6, <2>1, <2>2
<1>9. b \in Ptr /\ f \in Ptr /\ p \in Ptr
  <2>1. Slot \subseteq Ptr /\ 0 \in Ptr
    BY BasicTypes
  <2>2. /\ k # 0 => k \in 1..n
        /\ k # n => k + 1 \in 1..n
    BY <1>1, <1>2, <1>6
  <2>3. /\ k # 0 => s[k] \in Slot
        /\ k # n => s[k + 1] \in Slot
    BY <1>1, <2>2
  <2> HIDE DEF b, f
  <2> QED
    BY <1>7, <2>1, <2>3
<1> HIDE DEF b, f
<1>10. /\ Put([l.next EXCEPT ![p] = f], b, p) \in [Slot -> Ptr]
       /\ Put([l.prev EXCEPT ![p] = b], f, p) \in [Slot -> Ptr]
  BY <1>2, <1>9 DEF Put, LinkType
<1>11. /\ l2 \in LinkType
       /\ l2.next = Put([l.next EXCEPT ![p] = f], b, p)
       /\ l2.prev = Put([l.prev EXCEPT ![p] = b], f, p)
       /\ l2.runq = IF b = Nil THEN p ELSE l.runq
       /\ l2.head = l.head /\ l2.tail = l.tail
  <2> DEFINE nx == Put([l.next EXCEPT ![p] = f], b, p)
             pv == Put([l.prev EXCEPT ![p] = b], f, p)
             rq == IF b = Nil THEN p ELSE l.runq
  <2>1. l2 = [l EXCEPT !.next = nx, !.prev = pv, !.runq = rq]
    BY <1>3
  <2>2. nx \in [Slot -> Ptr] /\ pv \in [Slot -> Ptr] /\ rq \in Ptr
    BY <1>9, <1>10 DEF LinkType
  <2> HIDE DEF nx, pv, rq
  <2>3. /\ l2 \in LinkType
        /\ l2.next = nx /\ l2.prev = pv /\ l2.runq = rq
        /\ l2.head = l.head /\ l2.tail = l.tail
    BY <2>1, <2>2 DEF LinkType
  <2> QED
    BY <2>3 DEF nx, pv, rq
<1>12. LinkedIn(l, l2, p, b, f)
  BY <1>11 DEF LinkedIn
<1> QED
  BY <1>6, <1>7, <1>8, <1>12

(* A write through a pointer that may be null.                             *)
LEMMA PutAt ==
    ASSUME NEW f \in [Slot -> Ptr], NEW q \in Ptr, NEW v, NEW x \in Slot
    PROVE  Put(f, q, v)[x] = IF x = q THEN v ELSE f[x]
BY BasicTypes DEF Put

(* p is on no list. *)
OnNone(R, Q, p) == p \notin R /\ \A b \in Bucket : p \notin Q[b]

(* l2 has p on the ready queue besides, behind the k that it ranks with or *)
(* below, and no other link of an entry that is not there has changed.     *)
Enqueued(l, pr, R, Q, n, s, p, l2) ==
    \E k \in 0..n :
       /\ \A i \in 1..n : pr[s[i]] <= pr[p] <=> i <= k
       /\ Queues(l2, pr, R \cup {p}, Q, n + 1, Added(s, n, k, p))
       /\ \A q \in Slot : q \notin R \cup {p} => l2.next[q] = l.next[q]

(* sched_enqueue adds its argument to the ready queue, behind all that it  *)
(* does not outrank, and leaves the other lists as they are.               *)
LEMMA EnqueueExact ==
    ASSUME NEW l, NEW pr \in [Slot -> Int], NEW R, NEW Q, NEW n, NEW s,
           Queues(l, pr, R, Q, n, s), Apart(R, Q),
           NEW p \in Slot, OnNone(R, Q, p),
           NEW l2, l2 = SchedEnqueue(l, pr, p)
    PROVE  Enqueued(l, pr, R, Q, n, s, p, l2)
<1>1. /\ l \in LinkType /\ Queue(l, l.runq, R, n, s) /\ Ordered(pr, n, s)
      /\ \A b \in Bucket : Bucketed(l, b, Q[b])
      /\ p \notin R /\ \A b \in Bucket : p \notin Q[b]
  BY DEF Queues, OnNone
<1>2. PICK k \in 0..n :
             /\ \A i \in 1..n : pr[s[i]] <= pr[p] <=> i <= k
             /\ LinkedIn(l, l2, p, IF k = 0 THEN 0 ELSE s[k],
                                   IF k = n THEN 0 ELSE s[k + 1])
  BY <1>1, EnqueueWrites
<1> DEFINE b == IF k = 0 THEN 0 ELSE s[k]
           f == IF k = n THEN 0 ELSE s[k + 1]
           t == Added(s, n, k, p)
<1>3. /\ n \in 0..NPROC /\ s \in [1..n -> Slot] /\ R \subseteq Slot
      /\ NPROC \in Nat /\ Slot = 1..NPROC /\ Slot \subseteq Ptr /\ 0 \in Ptr
      /\ 0 \notin Slot
  BY <1>1, QueueWalk, BasicTypes
<1>4. /\ Listed(l.next, l.runq, NPROC, n, s) /\ Backed(l.prev, n, s)
      /\ R = Members(n, s)
      /\ \A i, j \in 1..n : s[i] = s[j] => i = j
      /\ \A i \in 1..n : s[i] \in R
  BY <1>1 DEF Queue, Listed, Members
<1>5. /\ k > 0 => b = s[k] /\ k \in 1..n /\ b \in R
      /\ k = 0 => b = 0
      /\ k < n => f = s[k + 1] /\ k + 1 \in 1..n /\ f \in R
      /\ k = n => f = 0
      /\ b \in Ptr /\ f \in Ptr
  <2>1. k > 0 => b = s[k] /\ k \in 1..n /\ b \in R
    BY <1>3, <1>4
  <2>2. k < n => f = s[k + 1] /\ k + 1 \in 1..n /\ f \in R
    BY <1>3, <1>4
  <2> HIDE DEF b, f
  <2>3. (k = 0 => b = 0) /\ (k = n => f = 0)
    BY DEF b, f
  <2>4. (k = 0 \/ k > 0) /\ (k = n \/ k < n)
    BY <1>3
  <2> QED
    BY <1>3, <2>1, <2>2, <2>3, <2>4
<1>6. /\ l2 \in LinkType
      /\ l2.next = Put([l.next EXCEPT ![p] = f], b, p)
      /\ l2.prev = Put([l.prev EXCEPT ![p] = b], f, p)
      /\ l2.runq = IF k = 0 THEN p ELSE l.runq
      /\ l2.head = l.head /\ l2.tail = l.tail
  <2>1. b = Nil <=> k = 0
    BY <1>3, <1>4, <1>5 DEF Nil
  <2>2. LinkedIn(l, l2, p, b, f)
    BY <1>2
  <2> HIDE DEF b, f
  <2> QED
    BY <2>1, <2>2 DEF LinkedIn
<1> HIDE DEF b, f
<1>7. /\ \A x \in Slot : l2.next[x] = IF x = b THEN p ELSE IF x = p THEN f ELSE l.next[x]
      /\ \A x \in Slot : l2.prev[x] = IF x = f THEN p ELSE IF x = p THEN b ELSE l.prev[x]
  <2>1. /\ l.next \in [Slot -> Ptr] /\ l.prev \in [Slot -> Ptr] /\ p \in Ptr
    BY <1>1, <1>3 DEF LinkType
  <2>2. /\ [l.next EXCEPT ![p] = f] \in [Slot -> Ptr]
        /\ [l.prev EXCEPT ![p] = b] \in [Slot -> Ptr]
        /\ \A x \in Slot : [l.next EXCEPT ![p] = f][x] = IF x = p THEN f ELSE l.next[x]
        /\ \A x \in Slot : [l.prev EXCEPT ![p] = b][x] = IF x = p THEN b ELSE l.prev[x]
    BY <1>5, <2>1
  <2> DEFINE nx == [l.next EXCEPT ![p] = f]
             pv == [l.prev EXCEPT ![p] = b]
  <2> HIDE DEF nx, pv
  <2>0. /\ nx \in [Slot -> Ptr] /\ pv \in [Slot -> Ptr]
        /\ b \in Ptr /\ f \in Ptr /\ p \in Ptr
    BY <1>5, <2>1, <2>2 DEF nx, pv
  <2>3. \A x \in Slot : Put(nx, b, p)[x] = IF x = b THEN p ELSE nx[x]
    BY <2>0, PutAt
  <2>4. \A x \in Slot : Put(pv, f, p)[x] = IF x = f THEN p ELSE pv[x]
    BY <2>0, PutAt
  <2> QED
    BY <1>6, <2>2, <2>3, <2>4 DEF nx, pv
<1>8. p # b /\ p # f
  BY <1>1, <1>3, <1>5
<1>9. Listed(l2.next, l2.runq, NPROC, n + 1, t)
  <2>1. l2.next[p] = IF k = n THEN 0 ELSE s[k + 1]
    BY <1>7, <1>8 DEF f
  <2>2. k > 0 => l2.next[s[k]] = p
    BY <1>3, <1>4, <1>5, <1>7
  <2>3. ASSUME NEW i \in 1..n, i # k PROVE l2.next[s[i]] = l.next[s[i]]
    <3>0. s[i] \in Slot /\ s[i] \in R
      BY <1>3, <1>4
    <3>1. s[i] # b /\ s[i] # p /\ s[i] \in Slot
      BY <1>1, <1>3, <1>4, <1>5, <2>3, <3>0
    <3> QED
      BY <1>7, <3>1
  <2>4. l2.runq = IF k = 0 THEN p ELSE l.runq
    BY <1>6
  <2>5. p \in 1..NPROC /\ p \notin Members(n, s)
    BY <1>1, <1>3, <1>4
  <2>6. /\ NPROC \in Nat /\ Listed(l.next, l.runq, NPROC, n, s) /\ k \in 0..n
        /\ p \in 1..NPROC /\ p \notin Members(n, s)
    BY <1>3, <1>4, <2>5
  <2>7. \A i \in 1..n : i # k => l2.next[s[i]] = l.next[s[i]]
    BY <2>3
  <2> QED
    BY <2>1, <2>2, <2>4, <2>6, <2>7, ListAdd
<1>10. Backed(l2.prev, n + 1, t)
  <2>1. l2.prev[p] = IF k = 0 THEN 0 ELSE s[k]
    BY <1>7, <1>8 DEF b
  <2>2. k < n => l2.prev[s[k + 1]] = p
    BY <1>3, <1>4, <1>5, <1>7
  <2>3. ASSUME NEW i \in 1..n, i # k + 1 PROVE l2.prev[s[i]] = l.prev[s[i]]
    <3>0. s[i] \in Slot /\ s[i] \in R
      BY <1>3, <1>4
    <3>1. s[i] # f /\ s[i] # p /\ s[i] \in Slot
      <4>1. CASE k < n
        BY <1>1, <1>4, <1>5, <2>3, <3>0, <4>1
      <4>2. CASE k = n
        BY <1>1, <1>3, <1>5, <3>0, <4>2
      <4> QED
        BY <1>3, <4>1, <4>2
    <3> QED
      BY <1>7, <3>1
  <2>4. /\ p \in 1..NPROC /\ p \notin Members(n, s) /\ NPROC \in Nat
        /\ Listed(l.next, l.runq, NPROC, n, s) /\ Backed(l.prev, n, s)
        /\ k \in 0..n
    BY <1>1, <1>3, <1>4
  <2>5. \A i \in 1..n : i # k + 1 => l2.prev[s[i]] = l.prev[s[i]]
    BY <2>3
  <2> QED
    BY <2>1, <2>2, <2>4, <2>5, BackAdd
<1>11. R \cup {p} = Members(n + 1, t)
  BY <1>3, <1>4, AddedMembers
<1>12. Ordered(pr, n + 1, t)
  <2>1. \A i \in 1..(n + 1) : t[i] = IF i <= k THEN s[i]
                                     ELSE IF i = k + 1 THEN p ELSE s[i - 1]
    BY DEF Added
  <2>2. /\ \A i \in 1..n : pr[s[i]] \in Int /\ (pr[s[i]] <= pr[p] <=> i <= k)
        /\ pr[p] \in Int
    BY <1>2, <1>3
  <2>3. ASSUME NEW i \in 1..(n + 1), NEW j \in 1..(n + 1), i <= j
        PROVE  pr[t[i]] <= pr[t[j]]
    <3> HIDE DEF t
    <3>1. CASE i = k + 1
      <4>1. t[i] = p
        BY <1>3, <2>1, <3>1
      <4>2. CASE j = k + 1
        BY <2>2, <3>1, <4>1, <4>2
      <4>3. CASE j > k + 1
        <5>1. t[j] = s[j - 1] /\ j - 1 \in 1..n /\ ~(j - 1 <= k)
          BY <1>3, <2>1, <4>3
        <5> QED
          BY <2>2, <4>1, <5>1
      <4> QED
        BY <2>3, <3>1, <4>2, <4>3
    <3>2. CASE i <= k
      <4>1. t[i] = s[i] /\ i \in 1..n
        BY <1>3, <2>1, <3>2
      <4>2. CASE j <= k
        <5>1. t[j] = s[j] /\ j \in 1..n
          BY <1>3, <2>1, <4>2
        <5> QED
          BY <1>1, <2>3, <4>1, <5>1 DEF Ordered
      <4>3. CASE j = k + 1
        <5>1. t[j] = p
          BY <1>3, <2>1, <4>3
        <5> QED
          BY <2>2, <3>2, <4>1, <5>1
      <4>4. CASE j > k + 1
        <5>1. t[j] = s[j - 1] /\ j - 1 \in 1..n /\ i <= j - 1
          BY <1>3, <2>1, <3>2, <4>4
        <5> QED
          BY <1>1, <4>1, <5>1 DEF Ordered
      <4> QED
        BY <1>3, <4>2, <4>3, <4>4
    <3>3. CASE i > k + 1
      <4>1. t[i] = s[i - 1] /\ i - 1 \in 1..n
        BY <1>3, <2>1, <3>3
      <4>0. j > k + 1
        BY <1>3, <2>3, <3>3
      <4>2. t[j] = s[j - 1] /\ j - 1 \in 1..n /\ i - 1 <= j - 1
        BY <1>3, <2>1, <2>3, <4>0
      <4> QED
        BY <1>1, <4>1, <4>2 DEF Ordered
    <3>4. i <= k \/ i = k + 1 \/ i > k + 1
      BY <1>3
    <3> QED
      BY <3>1, <3>2, <3>3, <3>4
  <2> QED
    BY <2>3 DEF Ordered
<1> HIDE DEF t
<1>13. ASSUME NEW d \in Bucket PROVE Bucketed(l2, d, Q[d])
  <2>1. Bucketed(l, d, Q[d])
    BY <1>1
  <2>2. Q[d] \subseteq Slot
    BY <1>1, <2>1, QueueWalk DEF Bucketed
  <2>3. b \notin Q[d] /\ f \notin Q[d] /\ p \notin Q[d]
    <3>1. R \cap Q[d] = {} /\ 0 \notin Q[d]
      BY <1>3, <2>2 DEF Apart
    <3> QED
      BY <1>1, <1>3, <1>5, <3>1
  <2>4. \A q \in Q[d] : l2.next[q] = l.next[q] /\ l2.prev[q] = l.prev[q]
    BY <1>7, <2>2, <2>3
  <2> QED
    BY <1>6, <2>1, <2>4, BucketKept
<1>14. ASSUME NEW q \in Slot, q \notin R \cup {p}
       PROVE  l2.next[q] = l.next[q]
  <2>1. b = 0 \/ b \in R
    BY <1>3, <1>5
  <2>2. f = 0 \/ f \in R
    BY <1>3, <1>5
  <2>3. q # b /\ q # p
    BY <1>3, <1>14, <2>1
  <2> QED
    BY <1>7, <2>3
<1>15. Queues(l2, pr, R \cup {p}, Q, n + 1, t)
  BY <1>6, <1>9, <1>10, <1>11, <1>12, <1>13 DEF Queues, Queue
<1> QED
  BY <1>2, <1>14, <1>15 DEF t, Enqueued

(* What both dequeues do to the links of their argument.                   *)
Unlinked(l, l2, p) ==
    /\ l2 \in LinkType
    /\ l2.next = [Put(l.next, l.prev[p], l.next[p]) EXCEPT ![p] = Nil]
    /\ l2.prev = [Put(l.prev, l.next[p], l.prev[p]) EXCEPT ![p] = Nil]

(* The entry leaves its queue, from whatever place in it.                  *)
LEMMA UnlinkExact ==
    ASSUME NEW l \in LinkType, NEW h, NEW S, NEW n, NEW s, Queue(l, h, S, n, s),
           NEW k \in 1..n, NEW p, p = s[k], NEW l2, Unlinked(l, l2, p)
    PROVE  /\ Queue(l2, IF l.prev[p] = Nil THEN l.next[p] ELSE h, S \ {p},
                    n - 1, Dropped(s, n, k))
           /\ p \in S
           /\ l.prev[p] = IF k = 1 THEN 0 ELSE s[k - 1]
           /\ l.next[p] = IF k = n THEN 0 ELSE s[k + 1]
           /\ \A q \in Slot : q \notin S => /\ l2.next[q] = l.next[q]
                                            /\ l2.prev[q] = l.prev[q]
           /\ \A q \in Slot : q # p /\ l.next[q] # p => l2.next[q] = l.next[q]
<1> DEFINE b == l.prev[p]
           f == l.next[p]
<1>1. /\ n \in 0..NPROC /\ s \in [1..n -> Slot] /\ S \subseteq Slot
      /\ NPROC \in Nat /\ Slot = 1..NPROC /\ Slot \subseteq Ptr /\ 0 \in Ptr
      /\ 0 \notin Slot /\ Nil = 0
  BY QueueWalk, BasicTypes
<1>2. /\ Listed(l.next, h, NPROC, n, s) /\ Backed(l.prev, n, s)
      /\ S = Members(n, s)
      /\ \A i, j \in 1..n : s[i] = s[j] => i = j
      /\ \A i \in 1..n : s[i] \in S
      /\ \A i \in 1..n : l.next[s[i]] = IF i = n THEN 0 ELSE s[i + 1]
      /\ \A i \in 1..n : l.prev[s[i]] = IF i = 1 THEN 0 ELSE s[i - 1]
  BY DEF Queue, Listed, Backed, Members
<1>3. /\ p \in S /\ p \in Slot
      /\ b = IF k = 1 THEN 0 ELSE s[k - 1]
      /\ f = IF k = n THEN 0 ELSE s[k + 1]
  BY <1>1, <1>2
<1>4. /\ l.next \in [Slot -> Ptr] /\ l.prev \in [Slot -> Ptr]
      /\ b \in Ptr /\ f \in Ptr
  BY <1>3 DEF LinkType
<1> HIDE DEF b, f
<1>5. ASSUME NEW x \in Slot
      PROVE  /\ l2.next[x] = IF x = p THEN 0 ELSE IF x = b THEN f ELSE l.next[x]
             /\ l2.prev[x] = IF x = p THEN 0 ELSE IF x = f THEN b ELSE l.prev[x]
  <2> DEFINE nx == Put(l.next, b, f)
             pv == Put(l.prev, f, b)
  <2>1. /\ nx \in [Slot -> Ptr] /\ pv \in [Slot -> Ptr]
    BY <1>1, <1>4 DEF Put
  <2>2. /\ nx[x] = IF x = b THEN f ELSE l.next[x]
        /\ pv[x] = IF x = f THEN b ELSE l.prev[x]
    BY <1>4, PutAt
  <2>3. l2.next = [nx EXCEPT ![p] = 0] /\ l2.prev = [pv EXCEPT ![p] = 0]
    BY <1>1 DEF Unlinked, b, f
  <2> HIDE DEF nx, pv
  <2> QED
    BY <1>3, <2>1, <2>2, <2>3
<1>6. /\ k > 1 => b = s[k - 1] /\ b \in S /\ b # 0
      /\ k = 1 => b = 0
      /\ k < n => f = s[k + 1] /\ f \in S /\ f # 0
      /\ k = n => f = 0
  <2>1. k > 1 => k - 1 \in 1..n
    BY <1>1
  <2>2. k < n => k + 1 \in 1..n
    BY <1>1
  <2> QED
    BY <1>1, <1>2, <1>3, <2>1, <2>2
<1>7. (k = 1 \/ k > 1) /\ (k = n \/ k < n) /\ k \in Int /\ n \in Int
  BY <1>1
<1>8. p # b /\ p # f
  <2>1. k > 1 => s[k - 1] # s[k]
    BY <1>1, <1>2
  <2>2. k < n => s[k + 1] # s[k]
    BY <1>1, <1>2
  <2> QED
    BY <1>1, <1>3, <1>6, <1>7, <2>1, <2>2
<1>9. Listed(l2.next, IF b = Nil THEN f ELSE h, NPROC, n - 1, Dropped(s, n, k))
  <2>1. k > 1 => l2.next[s[k - 1]] = l.next[s[k]]
    BY <1>1, <1>5, <1>6, <1>8 DEF f
  <2>2. ASSUME NEW i \in 1..n, i # k, i # k - 1
        PROVE  l2.next[s[i]] = l.next[s[i]]
    <3>1. s[i] \in Slot /\ s[i] # p
      BY <1>1, <1>2, <2>2
    <3>2. s[i] # b
      <4>1. k > 1 => k - 1 \in 1..n
        BY <1>1
      <4> QED
        BY <1>1, <1>2, <1>6, <1>7, <2>2, <3>1, <4>1
    <3> QED
      BY <1>5, <3>1, <3>2
  <2>3. \A i \in 1..n : i # k /\ i # k - 1 => l2.next[s[i]] = l.next[s[i]]
    BY <2>2
  <2> DEFINE h2 == IF b = Nil THEN f ELSE h
  <2>4. h2 = IF k = 1 THEN l.next[s[k]] ELSE h
    BY <1>1, <1>6, <1>7 DEF f
  <2> HIDE DEF h2
  <2>5. NPROC \in Nat /\ Listed(l.next, h, NPROC, n, s)
    BY <1>1, <1>2
  <2>6. Listed(l2.next, h2, NPROC, n - 1, Dropped(s, n, k))
    BY <2>1, <2>3, <2>4, <2>5, ListDrop
  <2> QED
    BY <2>6 DEF h2
<1>10. Backed(l2.prev, n - 1, Dropped(s, n, k))
  <2>1. k < n => l2.prev[s[k + 1]] = l.prev[s[k]]
    BY <1>1, <1>5, <1>6, <1>8 DEF b
  <2>2. ASSUME NEW i \in 1..n, i # k, i # k + 1
        PROVE  l2.prev[s[i]] = l.prev[s[i]]
    <3>1. s[i] \in Slot /\ s[i] # p
      BY <1>1, <1>2, <2>2
    <3>2. s[i] # f
      <4>1. k < n => k + 1 \in 1..n
        BY <1>1
      <4> QED
        BY <1>1, <1>2, <1>6, <1>7, <2>2, <3>1, <4>1
    <3> QED
      BY <1>5, <3>1, <3>2
  <2>3. \A i \in 1..n : i # k /\ i # k + 1 => l2.prev[s[i]] = l.prev[s[i]]
    BY <2>2
  <2>4. NPROC \in Nat /\ Listed(l.next, h, NPROC, n, s) /\ Backed(l.prev, n, s)
    BY <1>1, <1>2
  <2> QED
    BY <2>1, <2>3, <2>4, BackDrop
<1>11. S \ {p} = Members(n - 1, Dropped(s, n, k))
  <2>1. n \in Nat /\ k \in 1..n
    BY <1>1
  <2> QED
    BY <1>2, <2>1, DroppedMembers
<1>12. Queue(l2, IF b = Nil THEN f ELSE h, S \ {p}, n - 1, Dropped(s, n, k))
  BY <1>9, <1>10, <1>11 DEF Queue
<1>13. ASSUME NEW q \in Slot, q \notin S
       PROVE  l2.next[q] = l.next[q] /\ l2.prev[q] = l.prev[q]
  BY <1>1, <1>3, <1>5, <1>6, <1>7, <1>13
<1>14. ASSUME NEW q \in Slot, q # p, l.next[q] # p
       PROVE  l2.next[q] = l.next[q]
  <2>1. k > 1 => l.next[s[k - 1]] = s[k]
    <3>1. k > 1 => k - 1 \in 1..n /\ k - 1 # n /\ (k - 1) + 1 = k
      BY <1>1
    <3> QED
      BY <1>2, <3>1
  <2>2. q # b
    BY <1>1, <1>6, <1>7, <1>14, <2>1
  <2> QED
    BY <1>5, <1>14, <2>2
<1>15. /\ l.prev[p] = IF k = 1 THEN 0 ELSE s[k - 1]
       /\ l.next[p] = IF k = n THEN 0 ELSE s[k + 1]
  BY <1>3 DEF b, f
<1> QED
  BY <1>3, <1>12, <1>13, <1>14, <1>15 DEF b, f

(* sched_dequeue of the head of the ready queue.                           *)
LEMMA DequeueExact ==
    ASSUME NEW l, NEW pr, NEW R, NEW Q, NEW n, NEW s,
           Queues(l, pr, R, Q, n, s), Apart(R, Q), NEW p, p = l.runq, p # Nil,
           NEW l2, l2 = SchedDequeue(l, p)
    PROVE  /\ n > 0 /\ p = s[1] /\ p \in R
           /\ Queues(l2, pr, R \ {p}, Q, n - 1, Dropped(s, n, 1))
<1>1. /\ l \in LinkType /\ Queue(l, l.runq, R, n, s) /\ Ordered(pr, n, s)
      /\ \A b \in Bucket : Bucketed(l, b, Q[b])
  BY DEF Queues
<1>2. /\ n \in 0..NPROC /\ s \in [1..n -> Slot] /\ R \subseteq Slot
      /\ NPROC \in Nat /\ Slot \subseteq Ptr /\ 0 \in Ptr /\ Nil = 0
  BY <1>1, QueueWalk, BasicTypes
<1>3. n > 0 /\ p = s[1] /\ 1 \in 1..n /\ p \in Slot
  <2>1. p = IF n = 0 THEN 0 ELSE s[1]
    BY <1>1 DEF Queue, Listed
  <2> QED
    BY <1>2, <2>1
<1> DEFINE b == l.prev[p]
           f == l.next[p]
           nx == [Put(l.next, b, f) EXCEPT ![p] = Nil]
           pv == [Put(l.prev, f, b) EXCEPT ![p] = Nil]
           rq == IF b = Nil THEN f ELSE l.runq
<1>4. l2 = [l EXCEPT !.next = nx, !.prev = pv, !.runq = rq]
  BY Zenon DEF SchedDequeue
<1>5. b \in Ptr /\ f \in Ptr /\ l.runq \in Ptr
  BY <1>1, <1>3 DEF LinkType
<1>6. nx \in [Slot -> Ptr] /\ pv \in [Slot -> Ptr] /\ rq \in Ptr
  BY <1>1, <1>2, <1>5 DEF Put, LinkType
<1>7. /\ l2 \in LinkType
      /\ l2.next = nx /\ l2.prev = pv /\ l2.runq = rq
      /\ l2.head = l.head /\ l2.tail = l.tail
  <2> HIDE DEF nx, pv, rq
  <2> QED
    BY <1>1, <1>4, <1>6 DEF LinkType
<1>8. Unlinked(l, l2, p)
  <2> HIDE DEF b, f
  <2> QED
    BY <1>7 DEF Unlinked, b, f
<1>9. /\ Queue(l2, rq, R \ {p}, n - 1, Dropped(s, n, 1))
      /\ p \in R
      /\ \A q \in Slot : q \notin R => /\ l2.next[q] = l.next[q]
                                       /\ l2.prev[q] = l.prev[q]
  <2> HIDE DEF b, f, nx, pv, rq
  <2>1. PICK k \in 1..n : k = 1
    BY <1>3
  <2>2. p = s[k]
    BY <1>3, <2>1
  <2>3. /\ Queue(l2, IF l.prev[p] = Nil THEN l.next[p] ELSE l.runq, R \ {p},
                 n - 1, Dropped(s, n, k))
        /\ p \in R
        /\ \A q \in Slot : q \notin R => /\ l2.next[q] = l.next[q]
                                         /\ l2.prev[q] = l.prev[q]
    <3>1. /\ l \in LinkType /\ Queue(l, l.runq, R, n, s)
          /\ k \in 1..n /\ p = s[k] /\ Unlinked(l, l2, p)
      BY <1>1, <1>8, <2>2
    <3> QED
      BY <3>1, UnlinkExact
  <2> QED
    BY <2>1, <2>3 DEF b, f, rq
<1> HIDE DEF b, f, nx, pv, rq
<1>10. Ordered(pr, n - 1, Dropped(s, n, 1))
  <2>1. \A i \in 1..(n - 1) : i + 1 \in 1..n /\ Dropped(s, n, 1)[i] = s[i + 1]
    BY <1>2 DEF Dropped
  <2>2. \A i, j \in 1..(n - 1) : i <= j => i + 1 <= j + 1
    BY <1>2
  <2> QED
    BY <1>1, <2>1, <2>2 DEF Ordered
<1>11. ASSUME NEW d \in Bucket PROVE Bucketed(l2, d, Q[d])
  <2>1. Bucketed(l, d, Q[d])
    BY <1>1
  <2>2. Q[d] \subseteq Slot
    BY <1>1, <2>1, QueueWalk DEF Bucketed
  <2>3. \A q \in Q[d] : l2.next[q] = l.next[q] /\ l2.prev[q] = l.prev[q]
    BY <1>9, <2>2 DEF Apart
  <2> QED
    BY <1>7, <2>1, <2>3, BucketKept
<1>12. Queues(l2, pr, R \ {p}, Q, n - 1, Dropped(s, n, 1))
  BY <1>7, <1>9, <1>10, <1>11 DEF Queues
<1> QED
  BY <1>3, <1>9, <1>12

(* Q2 is Q but for p, which has left, or entered, the bucket d. *)
LeavesBucket(Q, Q2, d, p) == \A b \in Bucket : Q2[b] = IF b = d THEN Q[b] \ {p} ELSE Q[b]
EntersBucket(Q, Q2, d, p) == \A b \in Bucket : Q2[b] = IF b = d THEN Q[b] \cup {p} ELSE Q[b]

(* sleep_dequeue takes its argument out of its bucket and only there.      *)
LEMMA SleepDequeueExact ==
    ASSUME NEW l, NEW pr, NEW R, NEW Q, NEW n, NEW s,
           Queues(l, pr, R, Q, n, s), Apart(R, Q), NEW c \in Chans,
           NEW p \in Q[HashSlot(c)], NEW l2, l2 = SleepDequeue(l, p, c),
           NEW Q2, LeavesBucket(Q, Q2, HashSlot(c), p)
    PROVE  /\ Queues(l2, pr, R, Q2, n, s)
           /\ p \in Slot
           /\ \A q \in Slot : q # p /\ l.next[q] # p => l2.next[q] = l.next[q]
<1> DEFINE d == HashSlot(c)
<1>1. /\ l \in LinkType /\ Queue(l, l.runq, R, n, s) /\ Ordered(pr, n, s)
      /\ \A b \in Bucket : Bucketed(l, b, Q[b])
  BY DEF Queues
<1>2. d \in Bucket /\ NPROC \in Nat /\ Slot \subseteq Ptr /\ Nil = 0 /\ 0 \in Ptr
      /\ 0 \notin Slot
  BY BasicTypes
<1> HIDE DEF d
<1>3. PICK m, t : /\ Queue(l, l.head[d], Q[d], m, t)
                  /\ l.tail[d] = IF m = 0 THEN 0 ELSE t[m]
  BY <1>1, <1>2 DEF Bucketed
<1>4. m \in 0..NPROC /\ t \in [1..m -> Slot] /\ Q[d] \subseteq Slot
  BY <1>1, <1>3, QueueWalk
<1>5. PICK k \in 1..m : p = t[k]
  <2>1. p \in Members(m, t)
    BY <1>3 DEF Queue, d
  <2> QED
    BY <2>1 DEF Members
<1>6. p \in Slot
  BY <1>4 DEF d
<1> DEFINE b == l.prev[p]
           f == l.next[p]
           nx == [Put(l.next, b, f) EXCEPT ![p] = Nil]
           pv == [Put(l.prev, f, b) EXCEPT ![p] = Nil]
           hd == [l.head EXCEPT ![d] = IF b = Nil THEN f ELSE l.head[d]]
           tl == [l.tail EXCEPT ![d] = IF f = Nil THEN b ELSE l.tail[d]]
<1>7. l2 = [l EXCEPT !.next = nx, !.prev = pv, !.head = hd, !.tail = tl]
  BY Zenon DEF SleepDequeue, d
<1>8. b \in Ptr /\ f \in Ptr /\ l.head[d] \in Ptr /\ l.tail[d] \in Ptr
  BY <1>1, <1>2, <1>6 DEF LinkType
<1>9. /\ nx \in [Slot -> Ptr] /\ pv \in [Slot -> Ptr]
      /\ hd \in [Bucket -> Ptr] /\ tl \in [Bucket -> Ptr]
  BY <1>1, <1>2, <1>8 DEF Put, LinkType
<1>10. /\ l2 \in LinkType
       /\ l2.next = nx /\ l2.prev = pv /\ l2.runq = l.runq
       /\ l2.head = hd /\ l2.tail = tl
  <2> HIDE DEF nx, pv, hd, tl
  <2> QED
    BY <1>1, <1>7, <1>9 DEF LinkType
<1>11. Unlinked(l, l2, p)
  <2> HIDE DEF b, f
  <2> QED
    BY <1>10 DEF Unlinked, b, f
<1>12. /\ hd[d] = IF b = Nil THEN f ELSE l.head[d]
       /\ tl[d] = IF f = Nil THEN b ELSE l.tail[d]
       /\ \A e \in Bucket : e # d => hd[e] = l.head[e] /\ tl[e] = l.tail[e]
  BY <1>1, <1>2 DEF LinkType
<1> HIDE DEF nx, pv, hd, tl
<1>13. /\ Queue(l2, IF b = Nil THEN f ELSE l.head[d], Q[d] \ {p}, m - 1, Dropped(t, m, k))
       /\ b = IF k = 1 THEN 0 ELSE t[k - 1]
       /\ f = IF k = m THEN 0 ELSE t[k + 1]
       /\ \A q \in Slot : q \notin Q[d] => /\ l2.next[q] = l.next[q]
                                           /\ l2.prev[q] = l.prev[q]
       /\ \A q \in Slot : q # p /\ l.next[q] # p => l2.next[q] = l.next[q]
  BY <1>1, <1>3, <1>5, <1>11, UnlinkExact
<1> HIDE DEF b, f
<1>14. tl[d] = IF m - 1 = 0 THEN 0 ELSE Dropped(t, m, k)[m - 1]
  <2>1. m # 1 => Dropped(t, m, k)[m - 1] = IF m - 1 < k THEN t[m - 1] ELSE t[m]
    BY <1>4 DEF Dropped
  <2>2. CASE k = m
    BY <1>2, <1>4, <1>12, <1>13, <2>1, <2>2
  <2>3. CASE k # m
    <3>1. k + 1 \in 1..m /\ m # 1 /\ ~(m - 1 < k) /\ m # 0
      BY <1>4, <2>3
    <3>2. f # Nil
      BY <1>2, <1>4, <1>13, <2>3, <3>1
    <3> QED
      BY <1>3, <1>12, <2>1, <3>1, <3>2
  <2> QED
    BY <2>2, <2>3
<1>15. Bucketed(l2, d, Q2[d])
  <2>1. Q2[d] = Q[d] \ {p}
    BY <1>2 DEF d, LeavesBucket
  <2>2. l2.head[d] = IF b = Nil THEN f ELSE l.head[d]
    BY <1>10, <1>12
  <2>3. Queue(l2, l2.head[d], Q2[d], m - 1, Dropped(t, m, k))
    BY <1>13, <2>1, <2>2
  <2> QED
    BY <1>10, <1>14, <2>3 DEF Bucketed
<1>16. ASSUME NEW e \in Bucket, e # d PROVE Bucketed(l2, e, Q2[e])
  <2>1. Bucketed(l, e, Q[e]) /\ Q2[e] = Q[e]
    BY <1>1, <1>16 DEF d, LeavesBucket
  <2>2. Q[e] \subseteq Slot
    BY <1>1, <2>1, QueueWalk DEF Bucketed
  <2>3. Q[e] \cap Q[d] = {}
    BY <1>2, <1>16 DEF Apart
  <2>4. \A q \in Q[e] : l2.next[q] = l.next[q] /\ l2.prev[q] = l.prev[q]
    BY <1>13, <2>2, <2>3
  <2> QED
    BY <1>10, <1>12, <1>16, <2>1, <2>4, BucketKept
<1>17. Queue(l2, l2.runq, R, n, s)
  <2>1. R \cap Q[d] = {} /\ R \subseteq Slot
    BY <1>1, <1>2, QueueWalk DEF Apart
  <2>2. \A q \in R : l2.next[q] = l.next[q] /\ l2.prev[q] = l.prev[q]
    BY <1>13, <2>1
  <2> QED
    BY <1>1, <1>10, <2>2, QueueKept
<1>18. Queues(l2, pr, R, Q2, n, s)
  <2>1. \A e \in Bucket : Bucketed(l2, e, Q2[e])
    BY <1>15, <1>16
  <2> QED
    BY <1>1, <1>10, <1>17, <2>1 DEF Queues
<1> QED
  BY <1>6, <1>13, <1>18

(* sleep_enqueue puts its argument at the head of its bucket.              *)
LEMMA SleepEnqueueExact ==
    ASSUME NEW l, NEW pr, NEW R, NEW Q, NEW n, NEW s,
           Queues(l, pr, R, Q, n, s), Apart(R, Q), NEW c \in Chans,
           NEW p \in Slot, OnNone(R, Q, p),
           NEW l2, l2 = SleepEnqueue(l, p, c),
           NEW Q2, EntersBucket(Q, Q2, HashSlot(c), p)
    PROVE  Queues(l2, pr, R, Q2, n, s) /\ l2.runq = l.runq
<1> DEFINE d == HashSlot(c)
<1>1. /\ l \in LinkType /\ Queue(l, l.runq, R, n, s) /\ Ordered(pr, n, s)
      /\ \A b \in Bucket : Bucketed(l, b, Q[b])
      /\ p \notin R /\ \A b \in Bucket : p \notin Q[b]
  BY DEF Queues, OnNone
<1>2. d \in Bucket /\ NPROC \in Nat /\ Slot = 1..NPROC /\ Slot \subseteq Ptr
      /\ Nil = 0 /\ 0 \in Ptr /\ 0 \notin Slot
  BY BasicTypes
<1> HIDE DEF d
<1>3. PICK m, t : /\ Queue(l, l.head[d], Q[d], m, t)
                  /\ l.tail[d] = IF m = 0 THEN 0 ELSE t[m]
  BY <1>1, <1>2 DEF Bucketed
<1>4. m \in 0..NPROC /\ t \in [1..m -> Slot] /\ Q[d] \subseteq Slot
  BY <1>1, <1>3, QueueWalk
<1>5. /\ Listed(l.next, l.head[d], NPROC, m, t) /\ Backed(l.prev, m, t)
      /\ Q[d] = Members(m, t)
      /\ \A i, j \in 1..m : t[i] = t[j] => i = j
      /\ \A i \in 1..m : t[i] \in Q[d]
      /\ l.head[d] = IF m = 0 THEN 0 ELSE t[1]
  BY <1>3 DEF Queue, Listed, Members
<1> DEFINE h == l.head[d]
           nx == [l.next EXCEPT ![p] = h]
           pv == Put([l.prev EXCEPT ![p] = Nil], h, p)
           hd == [l.head EXCEPT ![d] = p]
           tl == [l.tail EXCEPT ![d] = IF h = Nil THEN p ELSE l.tail[d]]
           u  == Added(t, m, 0, p)
<1>6. l2 = [l EXCEPT !.next = nx, !.prev = pv, !.head = hd, !.tail = tl]
  <2>1. l2 = [l EXCEPT !.next[p] = h, !.prev = pv, !.head[d] = p, !.tail = tl]
    BY Zenon DEF SleepEnqueue, d
  <2> QED
    BY <2>1, Zenon
<1>7. h \in Ptr /\ l.tail[d] \in Ptr /\ p \in Ptr
  BY <1>1, <1>2 DEF LinkType
<1>8. /\ nx \in [Slot -> Ptr] /\ pv \in [Slot -> Ptr]
      /\ hd \in [Bucket -> Ptr] /\ tl \in [Bucket -> Ptr]
  BY <1>1, <1>2, <1>7 DEF Put, LinkType
<1>9. /\ l2 \in LinkType
      /\ l2.next = nx /\ l2.prev = pv /\ l2.runq = l.runq
      /\ l2.head = hd /\ l2.tail = tl
  <2> HIDE DEF nx, pv, hd, tl
  <2> QED
    BY <1>1, <1>6, <1>8 DEF LinkType
<1>10. /\ hd[d] = p
       /\ tl[d] = IF h = Nil THEN p ELSE l.tail[d]
       /\ \A e \in Bucket : e # d => hd[e] = l.head[e] /\ tl[e] = l.tail[e]
  BY <1>1, <1>2 DEF LinkType
<1>11. ASSUME NEW x \in Slot
       PROVE  /\ nx[x] = IF x = p THEN h ELSE l.next[x]
              /\ pv[x] = IF x = h THEN p ELSE IF x = p THEN 0 ELSE l.prev[x]
  <2> DEFINE g == [l.prev EXCEPT ![p] = Nil]
  <2>1. g \in [Slot -> Ptr] /\ g[x] = IF x = p THEN 0 ELSE l.prev[x]
    BY <1>1, <1>2 DEF LinkType
  <2> HIDE DEF g
  <2>2. Put(g, h, p)[x] = IF x = h THEN p ELSE g[x]
    BY <1>7, <2>1, PutAt
  <2>3. pv[x] = IF x = h THEN p ELSE IF x = p THEN 0 ELSE l.prev[x]
    BY <2>1, <2>2 DEF g
  <2>4. nx[x] = IF x = p THEN h ELSE l.next[x]
    BY <1>1 DEF LinkType
  <2> QED
    BY <2>3, <2>4
<1> HIDE DEF nx, pv, hd, tl
<1>12. /\ h = IF m = 0 THEN 0 ELSE t[1]
       /\ m > 0 => h \in Q[d] /\ h # 0
       /\ p \notin Q[d] /\ h # p
       /\ (m = 0 \/ m > 0)
       /\ h \notin R
  <2>1. m > 0 => t[1] \in Q[d]
    BY <1>4, <1>5
  <2>2. p \notin Q[d] /\ R \cap Q[d] = {} /\ R \subseteq Slot
    BY <1>1, <1>2, QueueWalk DEF Apart
  <2>3. m = 0 \/ m > 0
    BY <1>4
  <2> QED
    BY <1>2, <1>4, <1>5, <2>1, <2>2, <2>3
<1> HIDE DEF h, u
<1>13. Listed(l2.next, p, NPROC, m + 1, u)
  <2>1. l2.next[p] = IF 0 = m THEN 0 ELSE t[0 + 1]
    BY <1>9, <1>11, <1>12
  <2>2. \A i \in 1..m : i # 0 => l2.next[t[i]] = l.next[t[i]]
    <3>1. \A i \in 1..m : t[i] \in Slot /\ t[i] # p
      BY <1>4, <1>5, <1>12
    <3> QED
      BY <1>9, <1>11, <3>1
  <2>3. p \notin Members(m, t) /\ 0 \in 0..m /\ p \in 1..NPROC /\ NPROC \in Nat
    BY <1>2, <1>4, <1>5, <1>12
  <2>4. Listed(l.next, h, NPROC, m, t)
    BY <1>5 DEF h
  <2>5. p = IF 0 = 0 THEN p ELSE h
    OBVIOUS
  <2>6. ~(0 > 0)
    OBVIOUS
  <2> QED
    BY <2>1, <2>2, <2>3, <2>4, <2>5, <2>6, ListAdd DEF u
<1>14. Backed(l2.prev, m + 1, u)
  <2>1. l2.prev[p] = IF 0 = 0 THEN 0 ELSE t[0]
    BY <1>9, <1>11, <1>12
  <2>2. 0 < m => l2.prev[t[0 + 1]] = p
    BY <1>4, <1>9, <1>11, <1>12
  <2>3. \A i \in 1..m : i # 0 + 1 => l2.prev[t[i]] = l.prev[t[i]]
    <3>1. \A i \in 1..m : t[i] \in Slot /\ t[i] # p /\ (i # 1 => t[i] # t[1])
      BY <1>4, <1>5, <1>12
    <3>2. \A i \in 1..m : i # 1 => t[i] # h
      BY <1>2, <1>12, <3>1
    <3> QED
      BY <1>9, <1>11, <3>1, <3>2
  <2>4. p \notin Members(m, t) /\ 0 \in 0..m /\ p \in 1..NPROC /\ NPROC \in Nat
    BY <1>2, <1>4, <1>5, <1>12
  <2>5. Listed(l.next, h, NPROC, m, t) /\ Backed(l.prev, m, t)
    BY <1>5 DEF h
  <2> QED
    BY <2>1, <2>2, <2>3, <2>4, <2>5, BackAdd DEF u
<1>15. Q2[d] = Members(m + 1, u)
  <2>1. m \in Nat /\ 0 \in 0..m
    BY <1>2, <1>4
  <2>4. PICK k \in 0..m : k = 0
    BY <2>1
  <2>2. Q[d] \cup {p} = Members(m + 1, Added(t, m, k, p))
    BY <1>5, <2>1, AddedMembers
  <2>3. Q2[d] = Q[d] \cup {p}
    BY <1>2 DEF d, EntersBucket
  <2> QED
    BY <1>5, <2>2, <2>3, <2>4 DEF u
<1>16. Bucketed(l2, d, Q2[d])
  <2>1. tl[d] = IF m + 1 = 0 THEN 0 ELSE u[m + 1]
    <3>1. u[m + 1] = IF m = 0 THEN p ELSE t[m]
      BY <1>4 DEF Added, u
    <3>2. m + 1 # 0 /\ (h = Nil <=> m = 0)
      BY <1>2, <1>4, <1>12
    <3> QED
      BY <1>3, <1>10, <3>1, <3>2
  <2>2. Queue(l2, l2.head[d], Q2[d], m + 1, u)
    BY <1>9, <1>10, <1>13, <1>14, <1>15 DEF Queue
  <2> QED
    BY <1>9, <2>1, <2>2 DEF Bucketed
<1>17. ASSUME NEW e \in Bucket, e # d PROVE Bucketed(l2, e, Q2[e])
  <2>1. Bucketed(l, e, Q[e]) /\ Q2[e] = Q[e]
    BY <1>1, <1>17 DEF d, EntersBucket
  <2>2. Q[e] \subseteq Slot
    BY <1>1, <2>1, QueueWalk DEF Bucketed
  <2>3. Q[e] \cap Q[d] = {} /\ p \notin Q[e]
    BY <1>1, <1>2, <1>17 DEF Apart
  <2>4. h \notin Q[e]
    BY <1>2, <1>12, <2>2, <2>3
  <2>5. \A q \in Q[e] : l2.next[q] = l.next[q] /\ l2.prev[q] = l.prev[q]
    BY <1>9, <1>11, <2>2, <2>3, <2>4
  <2> QED
    BY <1>9, <1>10, <1>17, <2>1, <2>5, BucketKept
<1>18. Queue(l2, l2.runq, R, n, s)
  <2>1. R \subseteq Slot
    BY <1>1, QueueWalk
  <2>2. \A q \in R : l2.next[q] = l.next[q] /\ l2.prev[q] = l.prev[q]
    BY <1>1, <1>9, <1>11, <1>12, <2>1
  <2> QED
    BY <1>1, <1>9, <2>2, QueueKept
<1>19. \A e \in Bucket : Bucketed(l2, e, Q2[e])
  BY <1>16, <1>17
<1> QED
  BY <1>1, <1>9, <1>18, <1>19 DEF Queues

----------------------------------------------------------------------------
(* The abstract module counts with the same operator.                      *)
LEMMA SchedCardinality == \A S : Sched!Cardinality(S) = Cardinality(S)
BY DEF Sched!Cardinality, Cardinality

(* PsaSched inserts a process where sched_enqueue links it in.             *)
LEMMA InsertIs ==
    ASSUME NEW n \in Nat, NEW s \in [1..n -> Slot], NEW pr,
           NEW p \in Slot, NEW k \in 0..n,
           \A i \in 1..n : pr[s[i]] <= pr[p] <=> i <= k
    PROVE  Sched!Insert(s, pr, p) = Added(s, n, k, p)
<1>1. s \in Seq(Slot) /\ Len(s) = n
  BY SeqOfOrder
<1>2. Cardinality({i \in 1..Len(s) : pr[s[i]] <= pr[p]}) = k
  <2>1. {i \in 1..Len(s) : pr[s[i]] <= pr[p]} = 1..k
    BY <1>1
  <2>2. Cardinality(1..k) = k
    BY FS_Interval
  <2> QED
    BY <2>1, <2>2
<1>3. SubSeq(s, 1, k) \o <<p>> \o SubSeq(s, k + 1, n) = Added(s, n, k, p)
  BY AddedIsJoin
<1> DEFINE c == Cardinality({i \in 1..Len(s) : pr[s[i]] <= pr[p]})
<1>4. Sched!Insert(s, pr, p)
         = SubSeq(s, 1, c) \o <<p>> \o SubSeq(s, c + 1, Len(s))
  BY SchedCardinality DEF Sched!Insert
<1>5. c = k
  BY <1>2
<1> HIDE DEF c
<1> QED
  BY <1>1, <1>3, <1>4, <1>5

----------------------------------------------------------------------------
(* The ready processes, and those asleep in each bucket. *)
ReadySet(ps) == {p \in Slot : ps[p] = "READY"}

Sleepers(ps, wc) ==
    [b \in Bucket |-> {p \in Slot : ps[p] = "SLEEP_MEM" /\ HashSlot(wc[p]) = b}]

(* READY and asleep exclude each other, and a sleeper has one bucket. *)
LEMMA SetsApart ==
    ASSUME NEW ps, NEW wc
    PROVE  /\ Apart(ReadySet(ps), Sleepers(ps, wc))
           /\ Sleepers(ps, wc) \in [Bucket -> SUBSET Slot]
           /\ \A p \in Slot, b \in Bucket :
                 p \in Sleepers(ps, wc)[b] <=> ps[p] = "SLEEP_MEM" /\ HashSlot(wc[p]) = b
<1>1. \A b \in Bucket : Sleepers(ps, wc)[b] =
                            {p \in Slot : ps[p] = "SLEEP_MEM" /\ HashSlot(wc[p]) = b}
  BY DEF Sleepers
<1>2. Sleepers(ps, wc) \in [Bucket -> SUBSET Slot]
  BY DEF Sleepers
<1> QED
  BY <1>1, <1>2 DEF Apart, ReadySet

(* The order f in which woken was put on the ready queue s0, through the   *)
(* queues q, the last of which is s: what Wakeup of PsaSched chooses.      *)
Requeued(woken, s0, j, f, q, s) ==
    /\ j \in Nat
    /\ f \in [1..j -> woken]
    /\ \A x, y \in 1..j : f[x] = f[y] => x = y
    /\ woken = Members(j, f)
    /\ q = [i \in 0..j |-> q[i]]
    /\ q[0] = s0
    /\ \A i \in 1..j : q[i] = Sched!Insert(q[i - 1], pri, f[i])
    /\ q[j] = s

(* The scan of proc_wakeup after k rounds, from the ready queue s0 and the *)
(* list t of m entries in the bucket of c.                                 *)
ScanState == [at : Ptr, woken : SUBSET Slot, l : LinkType]

WokenUpTo(c, m, t, k) == {t[i] : i \in {i \in 1..m : i <= k /\ wchan[t[i]] = c}}

StillAsleep(Q, woken) == [b \in Bucket |-> Q[b] \ woken]

Scanned(c, m, t, s0, k) ==
    {r \in ScanState :
        /\ r.at = IF k < m THEN t[k + 1] ELSE 0
        /\ r.woken = WokenUpTo(c, m, t, k)
        /\ \A i \in 1..m : i > k => r.l.next[t[i]] = IF i = m THEN 0 ELSE t[i + 1]
        /\ \E n, s : /\ Queues(r.l, pri, ReadySet(pstate) \cup r.woken,
                               StillAsleep(Sleepers(pstate, wchan), r.woken), n, s)
                     /\ \E j, f, q : Requeued(r.woken, s0, j, f, q, s)}

(* One more process is woken. *)
LEMMA RequeuedMore ==
    ASSUME NEW woken, NEW s0, NEW j, NEW f, NEW q, NEW s,
           Requeued(woken, s0, j, f, q, s), NEW p, p \notin woken,
           NEW s2, s2 = Sched!Insert(s, pri, p)
    PROVE  \E j2, f2, q2 : Requeued(woken \cup {p}, s0, j2, f2, q2, s2)
<1> DEFINE f2 == [i \in 1..(j + 1) |-> IF i <= j THEN f[i] ELSE p]
           q2 == [i \in 0..(j + 1) |-> IF i <= j THEN q[i] ELSE s2]
<1>1. /\ j \in Nat /\ f \in [1..j -> woken]
      /\ \A x, y \in 1..j : f[x] = f[y] => x = y
      /\ woken = Members(j, f)
      /\ q[0] = s0 /\ q[j] = s
      /\ \A i \in 1..j : q[i] = Sched!Insert(q[i - 1], pri, f[i])
  BY DEF Requeued
<1>2. /\ j + 1 \in Nat
      /\ f2 \in [1..(j + 1) -> woken \cup {p}]
      /\ \A i \in 1..j : i \in 1..(j + 1) /\ f2[i] = f[i] /\ f[i] \in woken
      /\ f2[j + 1] = p
  BY <1>1
<1>3. q2 = [i \in 0..(j + 1) |-> q2[i]] /\ q2[0] = s0 /\ q2[j + 1] = s2
  BY <1>1
<1>4. ASSUME NEW i \in 1..(j + 1)
      PROVE  q2[i] = Sched!Insert(q2[i - 1], pri, f2[i])
  <2>1. CASE i \in 1..j
    <3>1. q2[i] = q[i] /\ q2[i - 1] = q[i - 1] /\ f2[i] = f[i]
      BY <1>1, <2>1
    <3> QED
      BY <1>1, <2>1, <3>1
  <2>2. CASE i = j + 1
    <3>1. q2[i] = s2 /\ q2[i - 1] = s /\ f2[i] = p
      BY <1>1, <2>2
    <3> QED
      BY <3>1
  <2> QED
    BY <1>1, <2>1, <2>2
<1> HIDE DEF f2, q2
<1>5. \A i \in 1..(j + 1) : i \in 1..j \/ i = j + 1
  BY <1>1
<1>6. ASSUME NEW x \in 1..(j + 1), NEW y \in 1..(j + 1), f2[x] = f2[y]
      PROVE  x = y
  BY <1>1, <1>2, <1>5, <1>6
<1>7. woken \cup {p} = Members(j + 1, f2)
  <2>1. \A i \in 1..(j + 1) : f2[i] \in woken \cup {p}
    BY <1>2
  <2>2. \A i \in 1..j : f[i] = f2[i] /\ i \in 1..(j + 1)
    BY <1>2
  <2>3. j + 1 \in 1..(j + 1)
    BY <1>1
  <2> QED
    BY <1>1, <1>2, <2>1, <2>2, <2>3 DEF Members
<1>8. Requeued(woken \cup {p}, s0, j + 1, f2, q2, s2)
  BY <1>2, <1>3, <1>4, <1>6, <1>7 DEF Requeued
<1> QED
  BY <1>8

(* Before the first round.                                                 *)
LEMMA ScanStarts ==
    ASSUME NEW c \in Chans, NEW n0, NEW s0,
           Queues(links, pri, ReadySet(pstate), Sleepers(pstate, wchan), n0, s0),
           NEW m, NEW t, Queue(links, links.head[HashSlot(c)],
                               Sleepers(pstate, wchan)[HashSlot(c)], m, t)
    PROVE  [at |-> links.head[HashSlot(c)], woken |-> {}, l |-> links]
               \in Scanned(c, m, t, s0, 0)
<1> DEFINE r == [at |-> links.head[HashSlot(c)], woken |-> {}, l |-> links]
           Q == Sleepers(pstate, wchan)
<1>1. r.at = links.head[HashSlot(c)] /\ r.woken = {} /\ r.l = links
  OBVIOUS
<1>2. HashSlot(c) \in Bucket /\ NPROC \in Nat
  BY BasicTypes
<1>3. links \in LinkType /\ links.head[HashSlot(c)] \in Ptr
  BY <1>2 DEF Queues, LinkType
<1>4. r \in ScanState
  BY <1>3 DEF ScanState
<1> HIDE DEF r
<1>5. /\ m \in Nat
      /\ links.head[HashSlot(c)] = IF m = 0 THEN 0 ELSE t[1]
      /\ \A i \in 1..m : links.next[t[i]] = IF i = m THEN 0 ELSE t[i + 1]
  BY DEF Queue, Listed
<1>6. r.at = IF 0 < m THEN t[0 + 1] ELSE 0
  BY <1>1, <1>5
<1>7. r.woken = WokenUpTo(c, m, t, 0)
  BY <1>1, <1>5 DEF WokenUpTo
<1>8. Queues(r.l, pri, ReadySet(pstate) \cup r.woken, StillAsleep(Q, r.woken), n0, s0)
  <2>1. Q \in [Bucket -> SUBSET Slot]
    BY SetsApart
  <2> HIDE DEF Q
  <2>2. StillAsleep(Q, {}) = Q
    BY <2>1 DEF StillAsleep
  <2>3. ReadySet(pstate) \cup {} = ReadySet(pstate)
    OBVIOUS
  <2> QED
    BY <1>1, <2>2, <2>3 DEF Q
<1>9. \E j, f, q : Requeued(r.woken, s0, j, f, q, s0)
  <2> DEFINE f == [i \in 1..0 |-> 0]
             q == [i \in 0..0 |-> s0]
  <2>1. Requeued({}, s0, 0, f, q, s0)
    BY DEF Requeued, Members
  <2> QED
    BY <1>1, <2>1
<1> QED
  BY <1>1, <1>4, <1>5, <1>6, <1>7, <1>8, <1>9 DEF Scanned, r

(* One round of the loop, as WakeScan writes it. *)
Visit(c, r) ==
    LET p == r.at
        off == SleepDequeue(r.l, p, c)
    IN  IF wchan[p] # c \/ p \in r.woken
        THEN [r EXCEPT !.at = r.l.next[p]]
        ELSE [at    |-> r.l.next[p],
              woken |-> r.woken \cup {p},
              l     |-> IF WakeState(pstate[p]) = "READY"
                        THEN SchedEnqueue(off, pri, p)
                        ELSE off]

Round(c, r) == IF r.at = Nil THEN r ELSE Visit(c, r)

(* A round keeps what the scan has established: the entry it visits is the *)
(* next of the original list, because what it unlinks and queues before    *)
(* leaves the links of the entries to come as they were.                   *)
LEMMA ScanRound ==
    ASSUME pri \in [Slot -> Int], NEW c \in Chans, NEW n0, NEW s0,
           Queues(links, pri, ReadySet(pstate), Sleepers(pstate, wchan), n0, s0),
           NEW m, NEW t, Queue(links, links.head[HashSlot(c)],
                               Sleepers(pstate, wchan)[HashSlot(c)], m, t),
           NEW k \in 0..(NPROC - 1), NEW r \in Scanned(c, m, t, s0, k)
    PROVE  Round(c, r) \in Scanned(c, m, t, s0, k + 1)
<1> DEFINE d == HashSlot(c)
           R == ReadySet(pstate)
           Q == Sleepers(pstate, wchan)
<1>1. /\ d \in Bucket /\ NPROC \in Nat /\ Nil = 0 /\ 0 \notin Slot /\ 0 \in Ptr
      /\ Slot \subseteq Ptr
  BY BasicTypes
<1>2. /\ Apart(R, Q) /\ Q \in [Bucket -> SUBSET Slot]
      /\ \A p \in Slot, b \in Bucket :
            p \in Q[b] <=> pstate[p] = "SLEEP_MEM" /\ HashSlot(wchan[p]) = b
  BY SetsApart
<1>3. /\ links \in LinkType /\ Queue(links, links.head[d], Q[d], m, t)
  BY DEF Queues
<1>4. /\ r \in ScanState
      /\ r.at = IF k < m THEN t[k + 1] ELSE 0
      /\ r.woken = WokenUpTo(c, m, t, k)
      /\ \A i \in 1..m : i > k => r.l.next[t[i]] = IF i = m THEN 0 ELSE t[i + 1]
      /\ \E n, s : /\ Queues(r.l, pri, R \cup r.woken, StillAsleep(Q, r.woken), n, s)
                   /\ \E j, f, q : Requeued(r.woken, s0, j, f, q, s)
  BY DEF Scanned
<1>5. /\ m \in 0..NPROC /\ t \in [1..m -> Slot] /\ Q[d] \subseteq Slot
      /\ \A i \in 1..m : t[i] \in Q[d]
      /\ \A i, j \in 1..m : t[i] = t[j] => i = j
  <2>1. m \in 0..NPROC /\ t \in [1..m -> Slot] /\ Q[d] \subseteq Slot
    BY <1>3, QueueWalk
  <2> QED
    BY <1>3, <2>1 DEF Queue, Listed, Members
<1> HIDE DEF d, R, Q
<1>6. m \in Nat /\ k \in Nat /\ k + 1 \in Nat
  BY <1>1, <1>5
<1>7. CASE k >= m
  <2>1. r.at = 0 /\ Round(c, r) = r
    BY <1>1, <1>4, <1>6, <1>7 DEF Round
  <2>2. ~(k + 1 < m)
    BY <1>6, <1>7
  <2>3. WokenUpTo(c, m, t, k + 1) = WokenUpTo(c, m, t, k)
    <3>1. \A i \in 1..m : i <= k /\ i <= k + 1
      BY <1>6, <1>7
    <3>2. {i \in 1..m : i <= k /\ wchan[t[i]] = c}
             = {i \in 1..m : i <= k + 1 /\ wchan[t[i]] = c}
      BY <3>1
    <3> QED
      BY <3>2 DEF WokenUpTo
  <2>4. \A i \in 1..m : i > k + 1 => i > k
    BY <1>6
  <2> QED
    BY <1>4, <2>1, <2>2, <2>3, <2>4 DEF Scanned, R, Q
<1>8. CASE k < m
  <2> DEFINE p == t[k + 1]
             l == r.l
             off == SleepDequeue(l, p, c)
             l2 == SchedEnqueue(off, pri, p)
  <2>1. /\ k + 1 \in 1..m /\ p \in Slot /\ p \in Q[d] /\ p # 0
        /\ pstate[p] = "SLEEP_MEM" /\ HashSlot(wchan[p]) = d
        /\ r.at = p
        /\ k + 1 > k
    <3>1. k + 1 \in 1..m /\ k + 1 > k
      BY <1>6, <1>8
    <3> QED
      BY <1>1, <1>2, <1>4, <1>5, <1>8, <3>1
  <2>2. r.l.next[p] = IF k + 1 < m THEN t[(k + 1) + 1] ELSE 0
    <3>1. r.l.next[p] = IF k + 1 = m THEN 0 ELSE t[(k + 1) + 1]
      BY <1>4, <2>1
    <3>2. k + 1 = m <=> ~(k + 1 < m)
      BY <1>6, <1>8
    <3> QED
      BY <3>1, <3>2
  <2>3. p \notin r.woken
    <3>1. \A i \in 1..m : i <= k => i # k + 1
      BY <1>6
    <3> QED
      BY <1>4, <1>5, <2>1, <3>1 DEF WokenUpTo
  <2>4. WokenUpTo(c, m, t, k + 1) = IF wchan[p] = c THEN r.woken \cup {p} ELSE r.woken
    <3>1. \A i \in 1..m : i <= k + 1 <=> i <= k \/ i = k + 1
      BY <1>6
    <3>2. WokenUpTo(c, m, t, k + 1) = {t[i] : i \in {i \in 1..m : (i <= k \/ i = k + 1) /\ wchan[t[i]] = c}}
      BY <3>1 DEF WokenUpTo
    <3>3. r.woken = {t[i] : i \in {i \in 1..m : i <= k /\ wchan[t[i]] = c}}
      BY <1>4 DEF WokenUpTo
    <3> QED
      BY <2>1, <3>2, <3>3
  <2>5. Round(c, r) = Visit(c, r)
    BY <1>1, <2>1 DEF Round
  <2>6. r.l.next[p] \in Ptr /\ r.l \in LinkType /\ r.woken \in SUBSET Slot
    BY <1>4, <2>1 DEF ScanState, LinkType
  <2>7. ASSUME NEW i \in 1..m, i > k + 1
        PROVE  /\ i > k /\ t[i] # p /\ t[i] \in Slot /\ t[i] \in Q[d]
               /\ t[i] \notin r.woken
               /\ r.l.next[t[i]] # p
               /\ r.l.next[t[i]] = IF i = m THEN 0 ELSE t[i + 1]
    <3>1. i > k /\ i # k + 1 /\ (i # m => i + 1 \in 1..m /\ i + 1 # k + 1)
      BY <1>6, <2>7
    <3>2. t[i] # p /\ t[i] \in Slot /\ t[i] \in Q[d]
      BY <1>5, <2>1, <3>1
    <3>3. r.l.next[t[i]] = IF i = m THEN 0 ELSE t[i + 1]
      BY <1>4, <3>1
    <3>4. r.l.next[t[i]] # p
      BY <1>5, <2>1, <3>1, <3>3
    <3>5. \A j \in 1..m : j <= k => j # i
      BY <1>6, <3>1
    <3>6. t[i] \notin r.woken
      BY <1>4, <1>5, <3>5 DEF WokenUpTo
    <3> QED
      BY <3>1, <3>2, <3>3, <3>4, <3>6
  <2>8. CASE wchan[p] # c
    <3> DEFINE v == [r EXCEPT !.at = r.l.next[p]]
    <3>1. Round(c, r) = v
      BY <2>1, <2>5, <2>8 DEF Visit
    <3>2. /\ v \in ScanState
          /\ v.at = r.l.next[p] /\ v.woken = r.woken /\ v.l = r.l
      BY <1>4, <2>6 DEF ScanState
    <3> HIDE DEF v
    <3>3. v.woken = WokenUpTo(c, m, t, k + 1)
      BY <2>4, <2>8, <3>2
    <3>4. \A i \in 1..m : i > k + 1 => v.l.next[t[i]] = IF i = m THEN 0 ELSE t[i + 1]
      BY <2>7, <3>2
    <3>5. v.at = IF k + 1 < m THEN t[(k + 1) + 1] ELSE 0
      BY <2>2, <3>2
    <3>6. \E n, s : /\ Queues(v.l, pri, R \cup v.woken, StillAsleep(Q, v.woken), n, s)
                    /\ \E j, f, q : Requeued(v.woken, s0, j, f, q, s)
      BY <1>4, <3>2
    <3>7. v \in Scanned(c, m, t, s0, k + 1)
      BY <3>2, <3>3, <3>4, <3>5, <3>6 DEF Scanned, R, Q
    <3> QED
      BY <3>1, <3>7
  <2>9. CASE wchan[p] = c
    <3> DEFINE v == [at |-> r.l.next[p], woken |-> r.woken \cup {p}, l |-> l2]
    <3>1. Round(c, r) = v
      <4>1. WakeState(pstate[p]) = "READY"
        BY <2>1 DEF WakeState, SetState, Successors
      <4>2. Visit(c, r) = [at    |-> r.l.next[p],
                           woken |-> r.woken \cup {p},
                           l     |-> IF WakeState(pstate[p]) = "READY"
                                     THEN SchedEnqueue(SleepDequeue(r.l, p, c), pri, p)
                                     ELSE SleepDequeue(r.l, p, c)]
        BY <2>1, <2>3, <2>9 DEF Visit
      <4> QED
        BY <2>5, <4>1, <4>2
    <3>2. /\ v.at = r.l.next[p] /\ v.woken = r.woken \cup {p} /\ v.l = l2
      OBVIOUS
    <3> HIDE DEF v, off, l2
    <3>3. PICK n, s : /\ Queues(r.l, pri, R \cup r.woken, StillAsleep(Q, r.woken), n, s)
                      /\ \E j, f, q : Requeued(r.woken, s0, j, f, q, s)
      BY <1>4
    <3> DEFINE R1 == R \cup r.woken
               Q1 == StillAsleep(Q, r.woken)
               Q2 == StillAsleep(Q, r.woken \cup {p})
    <3>4. \A b \in Bucket : Q1[b] = Q[b] \ r.woken /\ Q2[b] = Q[b] \ (r.woken \cup {p})
      BY DEF StillAsleep
    <3>5. \A x \in r.woken : x \in Q[d]
      BY <1>4, <1>5 DEF WokenUpTo
    <3> HIDE DEF R1, Q1, Q2
    <3>6. /\ Apart(R1, Q1) /\ Apart(R1, Q2)
          /\ p \in Q1[d] /\ p \notin R1 /\ \A b \in Bucket : p \notin Q2[b]
          /\ \A b \in Bucket : Q2[b] = IF b = d THEN Q1[b] \ {p} ELSE Q1[b]
      <4>1. R \cap Q[d] = {}
        BY <1>1, <1>2 DEF Apart
      <4>2. \A b \in Bucket : b # d => Q[b] \cap Q[d] = {}
        BY <1>1, <1>2 DEF Apart
      <4>3. Apart(R1, Q1)
        BY <1>2, <3>4, <3>5, <4>2 DEF Apart, R1
      <4>4. Apart(R1, Q2)
        BY <1>2, <3>4, <3>5, <4>2 DEF Apart, R1
      <4>5. p \in Q1[d] /\ p \notin R1 /\ \A b \in Bucket : p \notin Q2[b]
        BY <1>1, <2>1, <2>3, <3>4, <4>1 DEF R1
      <4>6. ASSUME NEW b \in Bucket
            PROVE  Q2[b] = IF b = d THEN Q1[b] \ {p} ELSE Q1[b]
        <5>1. Q1[b] = Q[b] \ r.woken /\ Q2[b] = Q[b] \ (r.woken \cup {p})
          BY <3>4
        <5>2. CASE b = d
          BY <5>1, <5>2
        <5>3. CASE b # d
          <6>1. p \in Q[d] /\ Q[b] \cap Q[d] = {}
            BY <2>1, <4>2, <5>3
          <6>2. p \notin Q[b]
            BY <6>1
          <6> HIDE DEF p
          <6>3. Q2[b] = Q1[b]
            BY <5>1, <6>2
          <6> QED
            BY <5>3, <6>3
        <5> QED
          BY <5>2, <5>3
      <4> QED
        BY <4>3, <4>4, <4>5, <4>6
    <3>7. Queues(l, pri, R1, Q1, n, s) /\ off = SleepDequeue(l, p, c)
      BY <3>3 DEF R1, Q1, off
    <3> HIDE DEF l, p
    <3>8. /\ Queues(off, pri, R1, Q2, n, s)
          /\ \A q \in Slot : q # p /\ l.next[q] # p => off.next[q] = l.next[q]
      <4>1. /\ Queues(l, pri, R1, Q1, n, s) /\ Apart(R1, Q1)
            /\ p \in Q1[HashSlot(c)] /\ off = SleepDequeue(l, p, c)
            /\ LeavesBucket(Q1, Q2, HashSlot(c), p)
        BY <3>6, <3>7 DEF d, LeavesBucket
      <4> QED
        BY <4>1, SleepDequeueExact
    <3>9. PICK j \in 0..n :
             /\ \A i \in 1..n : pri[s[i]] <= pri[p] <=> i <= j
             /\ Queues(l2, pri, R1 \cup {p}, Q2, n + 1, Added(s, n, j, p))
             /\ \A q \in Slot : q \notin R1 \cup {p} => l2.next[q] = off.next[q]
      <4>1. /\ Queues(off, pri, R1, Q2, n, s) /\ Apart(R1, Q2)
            /\ OnNone(R1, Q2, p) /\ p \in Slot
        BY <2>1, <3>6, <3>8 DEF OnNone
      <4>2. Enqueued(off, pri, R1, Q2, n, s, p, l2)
        BY <4>1, EnqueueExact DEF l2
      <4> QED
        BY <4>2 DEF Enqueued
    <3>10. ASSUME NEW i \in 1..m, i > k + 1
           PROVE  l2.next[t[i]] = IF i = m THEN 0 ELSE t[i + 1]
      <4>1. /\ t[i] # p /\ t[i] \in Slot /\ t[i] \in Q[d] /\ t[i] \notin r.woken
            /\ l.next[t[i]] # p
            /\ l.next[t[i]] = IF i = m THEN 0 ELSE t[i + 1]
        BY <2>7, <3>10 DEF l, p
      <4>2. t[i] \notin R1 \cup {p}
        BY <1>1, <1>2, <4>1 DEF Apart, R1
      <4> QED
        BY <3>8, <3>9, <4>1, <4>2
    <3>11. Sched!Insert(s, pri, p) = Added(s, n, j, p)
      <4>1. n \in Nat /\ s \in [1..n -> Slot]
        <5>1. Queue(l, l.runq, R1, n, s) /\ l \in LinkType
          BY <3>7 DEF Queues
        <5> QED
          BY <1>1, <5>1, QueueWalk
      <4>2. p \in Slot
        BY <2>1
      <4> QED
        BY <3>9, <4>1, <4>2, InsertIs
    <3>12. \E j2, f2, q2 : Requeued(r.woken \cup {p}, s0, j2, f2, q2, Added(s, n, j, p))
      <4>1. PICK j1, f1, q1 : Requeued(r.woken, s0, j1, f1, q1, s)
        BY <3>3
      <4>2. p \notin r.woken
        BY <2>3
      <4> QED
        BY <3>11, <4>1, <4>2, RequeuedMore
    <3>13. R1 \cup {p} = R \cup (r.woken \cup {p})
      BY DEF R1
    <3>14. \E x, y : /\ Queues(v.l, pri, R \cup v.woken, StillAsleep(Q, v.woken), x, y)
                     /\ \E j2, f2, q2 : Requeued(v.woken, s0, j2, f2, q2, y)
      BY <3>2, <3>9, <3>12, <3>13 DEF Q2
    <3>15. v \in ScanState
      <4>1. l2 \in LinkType
        BY <3>9 DEF Queues
      <4>2. r.l.next[p] \in Ptr /\ r.woken \cup {p} \in SUBSET Slot
        BY <2>1, <2>6
      <4> QED
        BY <4>1, <4>2 DEF ScanState, v
    <3>16. v.woken = WokenUpTo(c, m, t, k + 1)
      BY <2>4, <2>9, <3>2
    <3>17. v.at = IF k + 1 < m THEN t[(k + 1) + 1] ELSE 0
      BY <2>2, <3>2
    <3>18. v \in Scanned(c, m, t, s0, k + 1)
      BY <3>2, <3>10, <3>14, <3>15, <3>16, <3>17 DEF Scanned, R, Q
    <3> QED
      BY <3>1, <3>18
  <2> QED
    BY <2>8, <2>9
<1> QED
  BY <1>6, <1>7, <1>8

(* The sleepers of one channel, all of them and nobody else. *)
AsleepOn(c) == {p \in Slot : pstate[p] = "SLEEP_MEM" /\ wchan[p] = c}

(* The scan in its own words: a function that its rounds determine.        *)
LEMMA WakeScanLoop ==
    ASSUME NEW c, NEW I, NEW f,
           Loop(f, NPROC, I,
                [at |-> links.head[HashSlot(c)], woken |-> {}, l |-> links],
                [i \in 1..NPROC |-> [x \in ScanState |-> Round(c, x)]]),
           \A i \in 0..NPROC : I[i] \subseteq ScanState
    PROVE  WakeScan(c) = f[NPROC]
<1> DEFINE base == [at |-> links.head[HashSlot(c)], woken |-> {}, l |-> links]
           Body(g) == [i \in 0..NPROC |->
                          IF i = 0 THEN base
                          ELSE IF g[i - 1].at = Nil THEN g[i - 1]
                          ELSE Visit(c, g[i - 1])]
           F == CHOOSE g : g = Body(g)
<1>1. WakeScan(c) = F[NPROC]
  BY Zenon DEF WakeScan, Visit
<1>2. NPROC \in Nat
  BY BasicTypes
<1>3. ASSUME NEW i \in 1..NPROC, NEW g, g[i - 1] = f[i - 1]
      PROVE  f[i] = IF g[i - 1].at = Nil THEN g[i - 1] ELSE Visit(c, g[i - 1])
  <2>1. i - 1 \in 0..NPROC
    BY <1>2
  <2>2. f[i - 1] \in ScanState
    BY <2>1 DEF Loop
  <2>3. f[i] = [j \in 1..NPROC |-> [x \in ScanState |-> Round(c, x)]][i][f[i - 1]]
    BY DEF Loop
  <2>4. f[i] = Round(c, f[i - 1])
    BY <2>2, <2>3
  <2> QED
    BY <1>3, <2>4 DEF Round
<1>4. f = Body(f)
  <2>1. f = [i \in 0..NPROC |-> f[i]] /\ f[0] = base
    BY DEF Loop
  <2>2. ASSUME NEW i \in 0..NPROC PROVE f[i] = Body(f)[i]
    <3>1. CASE i = 0
      BY <2>1, <3>1
    <3>2. CASE i # 0
      <4>1. i \in 1..NPROC
        BY <1>2, <3>2
      <4> HIDE DEF base
      <4>2. f[i] = IF f[i - 1].at = Nil THEN f[i - 1] ELSE Visit(c, f[i - 1])
        BY <1>3, <4>1
      <4> QED
        BY <3>2, <4>2
    <3> QED
      BY <3>1, <3>2
  <2> HIDE DEF base
  <2>3. Body(f) = [i \in 0..NPROC |-> Body(f)[i]]
    OBVIOUS
  <2> HIDE DEF Body
  <2> QED
    BY <2>1, <2>2, <2>3
<1>5. F = Body(F)
  <2> HIDE DEF Body
  <2> QED
    BY <1>4
<1> HIDE DEF F
<1>6. F[0] = f[0]
  <2>1. f[0] = base
    BY DEF Loop
  <2>2. 0 \in 0..NPROC
    BY <1>2
  <2>3. Body(F)[0] = base
    BY <2>2
  <2> HIDE DEF Body
  <2> QED
    BY <1>5, <2>1, <2>3
<1>7. ASSUME NEW i \in 1..NPROC, F[i - 1] = f[i - 1]
      PROVE  F[i] = f[i]
  <2>1. f[i] = IF F[i - 1].at = Nil THEN F[i - 1] ELSE Visit(c, F[i - 1])
    BY <1>3, <1>7
  <2>2. i \in 0..NPROC /\ i # 0
    BY <1>2
  <2> HIDE DEF base
  <2>3. Body(F)[i] = IF F[i - 1].at = Nil THEN F[i - 1] ELSE Visit(c, F[i - 1])
    BY <2>2
  <2> HIDE DEF Body
  <2> QED
    BY <1>5, <2>1, <2>3
<1>8. F[NPROC] = f[NPROC]
  <2> DEFINE S == {i \in 0..NPROC : F[i] = f[i]}
  <2>1. 0 \in S
    BY <1>2, <1>6
  <2>2. ASSUME NEW i \in 0..(NPROC - 1), i \in S
        PROVE  i + 1 \in S
    <3>1. i + 1 \in 1..NPROC /\ (i + 1) - 1 = i /\ i + 1 \in 0..NPROC
      BY <1>2
    <3>2. F[(i + 1) - 1] = f[(i + 1) - 1]
      BY <2>2, <3>1
    <3> QED
      BY <1>7, <3>1, <3>2
  <2>3. \A i \in 0..NPROC : i \in S
    <3> HIDE DEF S
    <3>1. \A i \in 0..(NPROC - 1) : i \in S => i + 1 \in S
      BY <2>2
    <3> QED
      BY <1>2, <2>1, <3>1, InductionUpTo
  <2> QED
    BY <1>2, <2>3
<1> QED
  BY <1>1, <1>8

(* proc_wakeup wakes the sleepers of the channel and disturbs no other: it *)
(* moves them from the bucket to the ready queue, in some order.           *)
LEMMA WakeScanExact ==
    ASSUME pri \in [Slot -> Int], NEW c \in Chans, NEW n0, NEW s0,
           Queues(links, pri, ReadySet(pstate), Sleepers(pstate, wchan), n0, s0)
    PROVE  /\ WakeScan(c).woken = AsleepOn(c)
           /\ \E n, s : /\ Queues(WakeScan(c).l, pri, ReadySet(pstate) \cup AsleepOn(c),
                                  StillAsleep(Sleepers(pstate, wchan), AsleepOn(c)), n, s)
                        /\ \E j, f, q : Requeued(AsleepOn(c), s0, j, f, q, s)
<1> DEFINE d == HashSlot(c)
           base == [at |-> links.head[d], woken |-> {}, l |-> links]
           step == [i \in 1..NPROC |-> [x \in ScanState |-> Round(c, x)]]
<1>1. d \in Bucket /\ NPROC \in Nat
  BY BasicTypes
<1>2. \A b \in Bucket : Bucketed(links, b, Sleepers(pstate, wchan)[b])
  BY DEF Queues
<1>3. PICK m, t : Queue(links, links.head[d], Sleepers(pstate, wchan)[d], m, t)
  BY <1>1, <1>2 DEF Bucketed
<1> DEFINE I == [k \in 0..NPROC |-> Scanned(c, m, t, s0, k)]
<1>4. \A k \in 0..NPROC : I[k] = Scanned(c, m, t, s0, k) /\ I[k] \subseteq ScanState
  BY DEF Scanned
<1>5. I \in [0..NPROC -> SUBSET ScanState]
  BY <1>4
<1>6. base \in I[0]
  <2>1. base \in Scanned(c, m, t, s0, 0)
    BY <1>3, ScanStarts
  <2>2. I[0] = Scanned(c, m, t, s0, 0)
    BY <1>1, <1>4
  <2> QED
    BY <2>1, <2>2
<1>7. ASSUME NEW i \in 1..NPROC, NEW x \in I[i - 1]
      PROVE  step[i][x] \in I[i]
  <2>1. /\ i - 1 \in 0..(NPROC - 1) /\ i - 1 \in 0..NPROC /\ i \in 0..NPROC
        /\ (i - 1) + 1 = i
    BY <1>1
  <2>2. x \in Scanned(c, m, t, s0, i - 1) /\ x \in ScanState
    BY <1>4, <1>7, <2>1
  <2>3. step[i][x] = Round(c, x)
    BY <2>2
  <2> HIDE DEF step, I
  <2>4. Round(c, x) \in Scanned(c, m, t, s0, (i - 1) + 1)
    BY <1>3, <2>1, <2>2, ScanRound
  <2>5. Scanned(c, m, t, s0, (i - 1) + 1) = Scanned(c, m, t, s0, i)
    BY <2>1
  <2> QED
    BY <1>4, <2>1, <2>3, <2>4, <2>5
<1>8. PICK f : Loop(f, NPROC, I, base, step)
  <2> HIDE DEF I, base, step
  <2> QED
    BY <1>1, <1>5, <1>6, <1>7, LoopExists
<1>9. WakeScan(c) = f[NPROC]
  <2> HIDE DEF I
  <2> QED
    BY <1>4, <1>8, WakeScanLoop
<1>10. f[NPROC] \in Scanned(c, m, t, s0, NPROC)
  BY <1>1, <1>4, <1>8 DEF Loop
<1> DEFINE r == WakeScan(c)
<1> HIDE DEF r
<1>11. /\ r.woken = WokenUpTo(c, m, t, NPROC)
       /\ \E n, s : /\ Queues(r.l, pri, ReadySet(pstate) \cup r.woken,
                              StillAsleep(Sleepers(pstate, wchan), r.woken), n, s)
                    /\ \E j, g, q : Requeued(r.woken, s0, j, g, q, s)
  BY <1>9, <1>10 DEF Scanned, r
<1>12. WokenUpTo(c, m, t, NPROC) = AsleepOn(c)
  <2>1. /\ links \in LinkType
    BY DEF Queues
  <2>2. m \in 0..NPROC /\ t \in [1..m -> Slot]
    BY <1>3, <2>1, QueueWalk
  <2>3. Members(m, t) = Sleepers(pstate, wchan)[d]
    BY <1>3 DEF Queue
  <2>4. \A p \in Slot : p \in Members(m, t) <=> pstate[p] = "SLEEP_MEM" /\ HashSlot(wchan[p]) = d
    BY <1>1, <2>3, SetsApart
  <2>5. \A i \in 1..m : i <= NPROC
    BY <1>1, <2>2
  <2>6. WokenUpTo(c, m, t, NPROC) = {p \in Members(m, t) : wchan[p] = c}
    BY <2>5 DEF WokenUpTo, Members
  <2>7. Members(m, t) \subseteq Slot
    BY <2>2 DEF Members
  <2> QED
    BY <2>4, <2>6, <2>7 DEF AsleepOn
<1> QED
  BY <1>11, <1>12 DEF r

----------------------------------------------------------------------------
(* The inductive invariant of the lists: what every entry and the CPU are  *)
(* in besides, and an order in which the ready queue holds the READY       *)
(* entries while each bucket holds its sleepers.                           *)
Live == {"UNUSED", "KERNEL_RUNNING", "READY", "SLEEP_MEM", "ZOMBIE"}

PsaTyped == /\ pstate \in [Slot -> Live]
            /\ pri \in [Slot -> Pris \cup {0}]
            /\ wchan \in [Slot -> Chans \cup {0}]
            /\ sig \in [Slot -> SUBSET Sigs]
            /\ mask \in [Slot -> SUBSET Sigs]
            /\ current \in Ptr
            /\ resched \in BOOLEAN
            /\ idle \in BOOLEAN

CpuInv ==
    /\ ~idle => current \in Slot /\ pstate[current] = "KERNEL_RUNNING"
    /\ \A p \in Slot : pstate[p] = "KERNEL_RUNNING" => ~idle /\ p = current

FreeFresh == \A p \in Slot : pstate[p] = "UNUSED" => pri[p] = 0

PsaInv == PsaTyped /\ CpuInv /\ FreeFresh

Lists(n, s) ==
    Queues(links, pri, ReadySet(pstate), Sleepers(pstate, wchan), n, s)

(* Priorities are integers. *)
LEMMA PriTyped == ASSUME PsaTyped PROVE pri \in [Slot -> Int]
<1>1. Pris \cup {0} \subseteq Int
  BY BasicTypes
<1> QED
  BY <1>1 DEF PsaTyped

(* What decides who is on which list. *)
LEMMA SameSets ==
    ASSUME NEW ps, NEW ps2, NEW wc, NEW wc2,
           \A p \in Slot : /\ ps2[p] = "READY" <=> ps[p] = "READY"
                           /\ ps2[p] = "SLEEP_MEM" <=> ps[p] = "SLEEP_MEM"
                           /\ ps[p] = "SLEEP_MEM" => wc2[p] = wc[p]
    PROVE  /\ ReadySet(ps2) = ReadySet(ps)
           /\ Sleepers(ps2, wc2) = Sleepers(ps, wc)
<1>1. ReadySet(ps2) = ReadySet(ps)
  BY DEF ReadySet
<1>2. ASSUME NEW b \in Bucket
      PROVE  {p \in Slot : ps2[p] = "SLEEP_MEM" /\ HashSlot(wc2[p]) = b}
                = {p \in Slot : ps[p] = "SLEEP_MEM" /\ HashSlot(wc[p]) = b}
  OBVIOUS
<1>3. Sleepers(ps2, wc2) = Sleepers(ps, wc)
  BY <1>2 DEF Sleepers
<1> QED
  BY <1>1, <1>3

(* Entries that are on no list may have their priority and links changed.  *)
LEMMA QueuesKept ==
    ASSUME NEW l, NEW pr, NEW R, NEW Q, NEW n, NEW s,
           Queues(l, pr, R, Q, n, s), NEW pr2, NEW l2 \in LinkType,
           l2.runq = l.runq, l2.head = l.head, l2.tail = l.tail,
           NEW p, OnNone(R, Q, p),
           \A q \in Slot : q # p => /\ pr2[q] = pr[q]
                                    /\ l2.next[q] = l.next[q]
                                    /\ l2.prev[q] = l.prev[q]
    PROVE  Queues(l2, pr2, R, Q, n, s)
<1>1. /\ l \in LinkType /\ Queue(l, l.runq, R, n, s) /\ Ordered(pr, n, s)
      /\ \A b \in Bucket : Bucketed(l, b, Q[b])
      /\ p \notin R /\ \A b \in Bucket : p \notin Q[b]
  BY DEF Queues, OnNone
<1>2. R \subseteq Slot
  BY <1>1, QueueWalk
<1>3. Queue(l2, l2.runq, R, n, s)
  <2>1. \A q \in R : l2.next[q] = l.next[q] /\ l2.prev[q] = l.prev[q]
    BY <1>1, <1>2
  <2> QED
    BY <1>1, <2>1, QueueKept
<1>4. Ordered(pr2, n, s)
  <2>1. \A i \in 1..n : s[i] \in R
    BY <1>1 DEF Queue, Members
  <2>2. \A i \in 1..n : pr2[s[i]] = pr[s[i]]
    BY <1>1, <1>2, <2>1
  <2> QED
    BY <1>1, <2>2 DEF Ordered
<1>5. ASSUME NEW b \in Bucket PROVE Bucketed(l2, b, Q[b])
  <2>1. Bucketed(l, b, Q[b])
    BY <1>1
  <2>2. Q[b] \subseteq Slot
    BY <1>1, <2>1, QueueWalk DEF Bucketed
  <2>3. \A q \in Q[b] : l2.next[q] = l.next[q] /\ l2.prev[q] = l.prev[q]
    BY <1>1, <2>2
  <2> QED
    BY <2>1, <2>3, BucketKept
<1> QED
  BY <1>3, <1>4, <1>5 DEF Queues

(* A step after which the same processes are asleep. *)
SameSleepers ==
    \A p \in Slot : pstate'[p] = "SLEEP_MEM" <=> pstate[p] = "SLEEP_MEM"

(* A process on no list, the running one or a dead one. *)
LEMMA OnNoList ==
    ASSUME NEW ps, NEW wc, NEW p, ps[p] # "READY", ps[p] # "SLEEP_MEM"
    PROVE  OnNone(ReadySet(ps), Sleepers(ps, wc), p)
BY DEF ReadySet, Sleepers, OnNone

(* The way out of a system call changes no list: at most the running       *)
(* process dies.                                                           *)
LEMMA SignalRunLists ==
    ASSUME NEW ps \in [Slot -> Live], current \in Slot, current' = current,
           \A p \in Slot : ps[p] = "KERNEL_RUNNING" <=> p = current,
           NEW sg \in [Slot -> SUBSET Sigs], NEW mk, SignalRun(ps, sg, mk)
    PROVE  /\ pstate' \in [Slot -> Live] /\ sig' \in [Slot -> SUBSET Sigs]
           /\ idle' \in BOOLEAN
           /\ CpuInv'
           /\ \A p \in Slot : pstate'[p] = ps[p] \/ (p = current /\ pstate'[p] = "ZOMBIE")
           /\ ReadySet(pstate') = ReadySet(ps)
           /\ \A wc : Sleepers(pstate', wc) = Sleepers(ps, wc)
<1>1. sig' \in [Slot -> SUBSET Sigs]
  BY DEF SignalRun
<1>2. \/ pstate' = ps /\ idle' = FALSE
      \/ pstate' = [ps EXCEPT ![current] = "ZOMBIE"] /\ idle' = TRUE
  BY SetStateFacts DEF SignalRun
<1>3. /\ pstate' \in [Slot -> Live] /\ idle' \in BOOLEAN
      /\ \A p \in Slot : pstate'[p] = ps[p] \/ (p = current /\ pstate'[p] = "ZOMBIE")
  <2>1. "ZOMBIE" \in Live
    BY DEF Live
  <2>2. idle' \in BOOLEAN
    BY <1>2
  <2>3. pstate' \in [Slot -> Live]
    BY <1>2, <2>1
  <2>4. ASSUME NEW p \in Slot
        PROVE  pstate'[p] = ps[p] \/ (p = current /\ pstate'[p] = "ZOMBIE")
    <3>1. CASE p = current /\ pstate' = [ps EXCEPT ![current] = "ZOMBIE"]
      BY <3>1
    <3>2. CASE p # current /\ pstate' = [ps EXCEPT ![current] = "ZOMBIE"]
      BY <3>2
    <3> QED
      BY <1>2, <3>1, <3>2
  <2> QED
    BY <2>2, <2>3, <2>4
<1>4. CpuInv'
  <2>1. CASE pstate' = ps /\ idle' = FALSE
    BY <2>1 DEF CpuInv
  <2>2. CASE pstate' = [ps EXCEPT ![current] = "ZOMBIE"] /\ idle' = TRUE
    BY <2>2 DEF CpuInv
  <2> QED
    BY <1>2, <2>1, <2>2
<1>5. \A p \in Slot : /\ pstate'[p] = "READY" <=> ps[p] = "READY"
                      /\ pstate'[p] = "SLEEP_MEM" <=> ps[p] = "SLEEP_MEM"
  BY <1>3
<1>6. ReadySet(pstate') = ReadySet(ps) /\ \A wc : Sleepers(pstate', wc) = Sleepers(ps, wc)
  BY <1>5, SameSets
<1> QED
  BY <1>1, <1>3, <1>4, <1>6

----------------------------------------------------------------------------
(* What each handler does to the lists, from a state with the order s of   *)
(* the ready queue: it keeps the invariant and leaves the order that       *)
(* PsaSched asks for.                                                      *)

(* What an unloaded process table looks like. *)
LEMMA ListsInit == Init => PsaInv /\ \E n, s : Lists(n, s) /\ n = 1 /\ s = <<1>>
<1> SUFFICES ASSUME Init
             PROVE  PsaInv /\ \E n, s : Lists(n, s) /\ n = 1 /\ s = <<1>>
  OBVIOUS
<1> DEFINE zero == [p \in Slot |-> 0]
           s0 == [i \in 1..0 |-> 0]
           none == [b \in Bucket |-> {}]
<1>1. /\ NPROC \in Nat \ {0} /\ 1 \in Slot /\ 0 \in Ptr /\ Nil = 0
      /\ 0 \in Pris \cup {0} /\ 0 \in Chans \cup {0}
  BY BasicTypes
<1>2. /\ pstate = [p \in Slot |-> IF p = 1 THEN "READY" ELSE "UNUSED"]
      /\ pri = zero /\ wchan = zero
      /\ sig = [p \in Slot |-> {}] /\ mask = [p \in Slot |-> {}]
      /\ links = SchedEnqueue(NoLinks, zero, 1)
      /\ current = 0 /\ resched = FALSE /\ idle = TRUE
  BY <1>1 DEF Init
<1>3. \A p \in Slot : pstate[p] = IF p = 1 THEN "READY" ELSE "UNUSED"
  BY <1>2
<1>4. PsaInv
  <2>1. "READY" \in Live /\ "UNUSED" \in Live
    BY DEF Live
  <2>2. pstate \in [Slot -> Live]
    BY <1>2, <2>1
  <2>3. PsaTyped
    BY <1>1, <1>2, <2>2 DEF PsaTyped
  <2>4. CpuInv /\ FreeFresh
    BY <1>2, <1>3 DEF CpuInv, FreeFresh
  <2> QED
    BY <2>3, <2>4 DEF PsaInv
<1>5. ReadySet(pstate) = {} \cup {1} /\ Sleepers(pstate, wchan) = none
  BY <1>1, <1>3 DEF ReadySet, Sleepers
<1>6. Queues(NoLinks, zero, {}, none, 0, s0)
  <2>1. /\ NoLinks \in LinkType
        /\ NoLinks.runq = 0
        /\ \A b \in Bucket : NoLinks.head[b] = 0 /\ NoLinks.tail[b] = 0
    BY <1>1 DEF NoLinks, LinkType
  <2> HIDE DEF NoLinks
  <2>2. Queue(NoLinks, 0, {}, 0, s0) /\ Ordered(zero, 0, s0)
    BY DEF Queue, Listed, Backed, Members, Ordered
  <2>3. \A b \in Bucket : Bucketed(NoLinks, b, {})
    <3> HIDE DEF s0
    <3> QED
      BY <2>1, <2>2 DEF Bucketed
  <2> QED
    BY <2>1, <2>2, <2>3 DEF Queues
<1>7. /\ zero \in [Slot -> Int] /\ Apart({}, none)
      /\ 1 \notin {} /\ \A b \in Bucket : 1 \notin none[b]
  BY DEF Apart
<1> HIDE DEF zero, s0, none
<1>8. PICK p \in Slot : p = 1
  BY <1>1
<1>9. \E k \in 0..0 : Queues(links, zero, {} \cup {p}, none, 0 + 1, Added(s0, 0, k, p))
  <2>1. links = SchedEnqueue(NoLinks, zero, p) /\ p \notin {} /\ \A b \in Bucket : p \notin none[b]
    BY <1>2, <1>7, <1>8
  <2>2. PICK n : n = 0
    OBVIOUS
  <2>3. /\ Queues(NoLinks, zero, {}, none, n, s0) /\ Apart({}, none)
        /\ zero \in [Slot -> Int]
    BY <1>6, <1>7, <2>2
  <2>4. Enqueued(NoLinks, zero, {}, none, n, s0, p, links)
    BY <2>1, <2>3, EnqueueExact DEF OnNone
  <2>5. \E k \in 0..n : Queues(links, zero, {} \cup {p}, none, n + 1, Added(s0, n, k, p))
    BY <2>4 DEF Enqueued
  <2> QED
    BY <2>2, <2>5
<1>10. \A k : k = 0 => Added(s0, 0, k, p) = <<1>>
  BY <1>8 DEF Added
<1>11. Queues(links, pri, ReadySet(pstate), Sleepers(pstate, wchan), 1, <<1>>)
  <2>1. \A k \in 0..0 : k = 0
    OBVIOUS
  <2>2. Queues(links, zero, {} \cup {p}, none, 0 + 1, <<1>>)
    BY <1>9, <1>10, <2>1
  <2>3. 0 + 1 = 1
    OBVIOUS
  <2> QED
    BY <1>2, <1>5, <1>8, <2>2, <2>3
<1> QED
  BY <1>4, <1>11 DEF Lists

(* fork: the child is put on the ready queue. *)
LEMMA ForkLists ==
    ASSUME PsaInv, NEW n, NEW s, Lists(n, s),
           NEW child \in Slot, NEW d \in BOOLEAN, Fork(child, d)
    PROVE  /\ PsaInv' /\ SameSleepers
           /\ \E n2, s2 :
                 /\ Lists(n2, s2)'
                 /\ \/ d /\ s2 = Sched!Insert(s, pri, child)
                    \/ ~d /\ s2 = s
<1> DEFINE ps == IF d THEN [pstate EXCEPT ![child] = "READY"] ELSE pstate
<1>1. /\ ~idle /\ pstate[child] = "UNUSED"
      /\ links' = IF d THEN SchedEnqueue(links, pri, child) ELSE links
      /\ SignalRun(ps, sig, mask)
      /\ UNCHANGED <<pri, wchan, mask, current, resched>>
  <2>1. pstate[child] = "UNUSED"
    BY DEF Fork, First
  <2>2. SetState(SetState(pstate[child], "CREATED"), "READY") = "READY"
    BY <2>1, SetStateFacts
  <2>3. [pstate EXCEPT ![child] = SetState(SetState(@, "CREATED"), "READY")]
           = [pstate EXCEPT ![child] = "READY"]
    BY <2>2
  <2> QED
    BY <2>1, <2>3 DEF Fork
<1>2. /\ pstate \in [Slot -> Live] /\ current \in Slot
      /\ sig \in [Slot -> SUBSET Sigs]
      /\ \A p \in Slot : pstate[p] = "KERNEL_RUNNING" <=> p = current
      /\ pri \in [Slot -> Int]
  BY <1>1, PriTyped DEF PsaInv, PsaTyped, CpuInv
<1>3. /\ ps \in [Slot -> Live]
      /\ \A p \in Slot : ps[p] = "KERNEL_RUNNING" <=> p = current
      /\ \A p \in Slot : ps[p] = "UNUSED" => pstate[p] = "UNUSED"
      /\ \A p \in Slot : ps[p] = "SLEEP_MEM" <=> pstate[p] = "SLEEP_MEM"
  <2>1. "READY" \in Live
    BY DEF Live
  <2> QED
    BY <1>1, <1>2, <2>1
<1>4. /\ ReadySet(ps) = IF d THEN ReadySet(pstate) \cup {child} ELSE ReadySet(pstate)
      /\ Sleepers(ps, wchan) = Sleepers(pstate, wchan)
  BY <1>1, <1>2 DEF ReadySet, Sleepers
<1> HIDE DEF ps
<1>5. /\ pstate' \in [Slot -> Live] /\ sig' \in [Slot -> SUBSET Sigs]
      /\ idle' \in BOOLEAN /\ CpuInv'
      /\ \A p \in Slot : pstate'[p] = ps[p] \/ (p = current /\ pstate'[p] = "ZOMBIE")
      /\ ReadySet(pstate') = ReadySet(ps)
      /\ \A wc : Sleepers(pstate', wc) = Sleepers(ps, wc)
  BY <1>1, <1>2, <1>3, SignalRunLists
<1>6. PsaInv' /\ SameSleepers
  <2>1. PsaTyped'
    BY <1>1, <1>5 DEF PsaInv, PsaTyped
  <2>2. FreeFresh'
    BY <1>1, <1>3, <1>5 DEF PsaInv, FreeFresh
  <2>3. SameSleepers
    BY <1>3, <1>5 DEF SameSleepers
  <2> QED
    BY <1>5, <2>1, <2>2, <2>3 DEF PsaInv
<1> DEFINE R == ReadySet(pstate)
           Q == Sleepers(pstate, wchan)
<1>7. Queues(links, pri, R, Q, n, s)
  BY DEF Lists
<1>8. CASE d
  <2>1. Apart(R, Q) /\ OnNone(R, Q, child)
    BY <1>1, SetsApart, OnNoList
  <2>2. links' = SchedEnqueue(links, pri, child)
    BY <1>1, <1>8
  <2>3. ReadySet(pstate') = R \cup {child} /\ Sleepers(pstate', wchan') = Q
    BY <1>1, <1>4, <1>5, <1>8
  <2> HIDE DEF R, Q
  <2>4. PICK k \in 0..n :
           /\ \A i \in 1..n : pri[s[i]] <= pri[child] <=> i <= k
           /\ Queues(links', pri, R \cup {child}, Q, n + 1, Added(s, n, k, child))
           /\ \A q \in Slot : q \notin R \cup {child} => links'.next[q] = links.next[q]
    <3>1. /\ Queues(links, pri, R, Q, n, s) /\ Apart(R, Q)
          /\ pri \in [Slot -> Int]
          /\ OnNone(R, Q, child)
          /\ links' = SchedEnqueue(links, pri, child)
      BY <1>2, <1>7, <2>1, <2>2
    <3>2. Enqueued(links, pri, R, Q, n, s, child, links')
      BY <3>1, EnqueueExact
    <3> QED
      BY <3>2 DEF Enqueued
  <2>5. Sched!Insert(s, pri, child) = Added(s, n, k, child)
    <3>1. links \in LinkType /\ Queue(links, links.runq, R, n, s)
      BY <1>7 DEF Queues
    <3>2. n \in Nat /\ s \in [1..n -> Slot]
      BY <3>1, QueueWalk, BasicTypes
    <3> QED
      BY <2>4, <3>2, InsertIs
  <2>6. Lists(n + 1, Added(s, n, k, child))'
    BY <1>1, <2>3, <2>4 DEF Lists
  <2> QED
    BY <1>6, <1>8, <2>5, <2>6
<1>9. CASE ~d
  <2>1. Lists(n, s)'
    BY <1>1, <1>4, <1>5, <1>7, <1>9 DEF Lists
  <2> QED
    BY <1>6, <1>9, <2>1
<1> QED
  BY <1>8, <1>9

(* exit: the running process is on no list. *)
LEMMA ExitLists ==
    ASSUME PsaInv, NEW n, NEW s, Lists(n, s), Exit
    PROVE  PsaInv' /\ Lists(n, s)' /\ SameSleepers
<1>1. /\ ~idle /\ idle' = TRUE
      /\ pstate' = [pstate EXCEPT ![current] = SetState(@, "ZOMBIE")]
      /\ UNCHANGED <<pri, wchan, sig, mask, links, current, resched>>
  BY DEF Exit, entries
<1>2. /\ pstate \in [Slot -> Live] /\ current \in Slot
      /\ \A p \in Slot : pstate[p] = "KERNEL_RUNNING" <=> p = current
  BY <1>1 DEF PsaInv, PsaTyped, CpuInv
<1>3. \A p \in Slot : pstate'[p] = IF p = current THEN "ZOMBIE" ELSE pstate[p]
  BY <1>1, <1>2, SetStateFacts
<1>4. PsaInv'
  <2>1. "ZOMBIE" \in Live
    BY DEF Live
  <2>2. pstate' \in [Slot -> Live]
    BY <1>1, <1>2, <2>1, SetStateFacts
  <2>3. PsaTyped'
    BY <1>1, <2>2 DEF PsaInv, PsaTyped
  <2>4. CpuInv' /\ FreeFresh'
    BY <1>1, <1>2, <1>3 DEF PsaInv, CpuInv, FreeFresh
  <2> QED
    BY <2>3, <2>4 DEF PsaInv
<1>5. /\ ReadySet(pstate') = ReadySet(pstate)
      /\ Sleepers(pstate', wchan) = Sleepers(pstate, wchan)
  <2>1. \A p \in Slot : /\ pstate'[p] = "READY" <=> pstate[p] = "READY"
                        /\ pstate'[p] = "SLEEP_MEM" <=> pstate[p] = "SLEEP_MEM"
    BY <1>2, <1>3
  <2> QED
    BY <2>1, SameSets
<1>6. Lists(n, s)'
  BY <1>1, <1>5 DEF Lists
<1>7. SameSleepers
  BY <1>2, <1>3 DEF SameSleepers
<1> QED
  BY <1>4, <1>6, <1>7

(* wait_pid: the entry it clears is dead, so on no list, although the      *)
(* clearing writes its links.                                              *)
LEMMA WaitPidLists ==
    ASSUME PsaInv, NEW n, NEW s, Lists(n, s), NEW child \in Slot, WaitPid(child)
    PROVE  PsaInv' /\ Lists(n, s)' /\ SameSleepers
<1> DEFINE ps == [pstate EXCEPT ![child] = "UNUSED"]
           sg == [sig EXCEPT ![child] = {}]
<1>1. /\ ~idle /\ pstate[child] = "ZOMBIE"
      /\ pri' = [pri EXCEPT ![child] = 0]
      /\ wchan' = [wchan EXCEPT ![child] = 0]
      /\ mask' = [mask EXCEPT ![child] = {}]
      /\ links' = [links EXCEPT !.next[child] = Nil, !.prev[child] = Nil]
      /\ SignalRun(ps, sg, mask')
      /\ UNCHANGED <<current, resched>>
  BY DEF WaitPid, DeadChild
<1>2. /\ pstate \in [Slot -> Live] /\ current \in Slot
      /\ pri \in [Slot -> Pris \cup {0}] /\ wchan \in [Slot -> Chans \cup {0}]
      /\ sig \in [Slot -> SUBSET Sigs] /\ mask \in [Slot -> SUBSET Sigs]
      /\ \A p \in Slot : pstate[p] = "KERNEL_RUNNING" <=> p = current
  BY <1>1 DEF PsaInv, PsaTyped, CpuInv
<1>3. /\ ps \in [Slot -> Live]
      /\ \A p \in Slot : ps[p] = "KERNEL_RUNNING" <=> p = current
      /\ \A p \in Slot : ps[p] = IF p = child THEN "UNUSED" ELSE pstate[p]
      /\ sg \in [Slot -> SUBSET Sigs]
  <2>1. "UNUSED" \in Live
    BY DEF Live
  <2> QED
    BY <1>1, <1>2, <2>1
<1> HIDE DEF ps, sg
<1>4. /\ pstate' \in [Slot -> Live] /\ sig' \in [Slot -> SUBSET Sigs]
      /\ idle' \in BOOLEAN /\ CpuInv'
      /\ \A p \in Slot : pstate'[p] = ps[p] \/ (p = current /\ pstate'[p] = "ZOMBIE")
      /\ ReadySet(pstate') = ReadySet(ps)
      /\ \A wc : Sleepers(pstate', wc) = Sleepers(ps, wc)
  BY <1>1, <1>2, <1>3, SignalRunLists
<1>5. PsaInv'
  <2>1. PsaTyped'
    <3>1. pri' \in [Slot -> Pris \cup {0}] /\ wchan' \in [Slot -> Chans \cup {0}]
      BY <1>1, <1>2
    <3>2. mask' \in [Slot -> SUBSET Sigs]
      BY <1>1, <1>2
    <3> QED
      BY <1>1, <1>4, <3>1, <3>2 DEF PsaInv, PsaTyped
  <2>2. FreeFresh'
    <3> SUFFICES ASSUME NEW p \in Slot, pstate'[p] = "UNUSED" PROVE pri'[p] = 0
      BY DEF FreeFresh
    <3>1. ps[p] = "UNUSED"
      BY <1>4
    <3> QED
      BY <1>1, <1>2, <1>3, <3>1 DEF PsaInv, FreeFresh
  <2> QED
    BY <1>4, <2>1, <2>2 DEF PsaInv
<1> DEFINE R == ReadySet(pstate)
           Q == Sleepers(pstate, wchan)
<1>6. ReadySet(pstate') = R /\ Sleepers(pstate', wchan') = Q
  <2>1. \A p \in Slot : /\ ps[p] = "READY" <=> pstate[p] = "READY"
                        /\ ps[p] = "SLEEP_MEM" <=> pstate[p] = "SLEEP_MEM"
                        /\ pstate[p] = "SLEEP_MEM" => wchan'[p] = wchan[p]
    BY <1>1, <1>2, <1>3
  <2>2. ReadySet(ps) = R /\ Sleepers(ps, wchan') = Q
    BY <2>1, SameSets
  <2> QED
    BY <1>4, <2>2
<1>7. OnNone(R, Q, child)
  BY <1>1, OnNoList
<1>8. Queues(links, pri, R, Q, n, s)
  BY DEF Lists
<1> HIDE DEF R, Q
<1>9. /\ links' \in LinkType
      /\ links'.runq = links.runq /\ links'.head = links.head
      /\ links'.tail = links.tail
      /\ links'.next = [links.next EXCEPT ![child] = Nil]
      /\ links'.prev = [links.prev EXCEPT ![child] = Nil]
  <2>1. links \in LinkType /\ Nil \in Ptr
    BY <1>8, BasicTypes DEF Queues
  <2> QED
    BY <1>1, <2>1 DEF LinkType
<1>10. \A q \in Slot : q # child => /\ pri'[q] = pri[q]
                                    /\ links'.next[q] = links.next[q]
                                    /\ links'.prev[q] = links.prev[q]
  <2>1. links.next \in [Slot -> Ptr] /\ links.prev \in [Slot -> Ptr]
    BY <1>8 DEF Queues, LinkType
  <2> QED
    BY <1>1, <1>2, <1>9, <2>1
<1>11. Queues(links', pri', R, Q, n, s)
  <2>1. PICK l2, pr2 : l2 = links' /\ pr2 = pri'
    OBVIOUS
  <2>2. /\ Queues(links, pri, R, Q, n, s) /\ OnNone(R, Q, child)
        /\ l2 \in LinkType
        /\ l2.runq = links.runq /\ l2.head = links.head /\ l2.tail = links.tail
        /\ \A q \in Slot : q # child => /\ pr2[q] = pri[q]
                                       /\ l2.next[q] = links.next[q]
                                       /\ l2.prev[q] = links.prev[q]
    BY <1>7, <1>8, <1>9, <1>10, <2>1
  <2>3. Queues(l2, pr2, R, Q, n, s)
    BY <2>2, QueuesKept
  <2> QED
    BY <2>1, <2>3
<1>12. SameSleepers
  BY <1>1, <1>3, <1>4 DEF SameSleepers
<1> QED
  BY <1>5, <1>6, <1>11, <1>12 DEF Lists

(* The calls that change signals only. *)
LEMMA QuietLists ==
    ASSUME PsaInv, NEW n, NEW s, Lists(n, s),
           NEW sg \in [Slot -> SUBSET Sigs], NEW mk \in [Slot -> SUBSET Sigs],
           ~idle, SignalRun(pstate, sg, mk), mask' = mk,
           UNCHANGED <<pri, wchan, links, current, resched>>
    PROVE  PsaInv' /\ Lists(n, s)' /\ SameSleepers
<1>1. /\ pstate \in [Slot -> Live] /\ current \in Slot
      /\ \A p \in Slot : pstate[p] = "KERNEL_RUNNING" <=> p = current
  BY DEF PsaInv, PsaTyped, CpuInv
<1>2. /\ pstate' \in [Slot -> Live] /\ sig' \in [Slot -> SUBSET Sigs]
      /\ idle' \in BOOLEAN /\ CpuInv'
      /\ \A p \in Slot : pstate'[p] = pstate[p] \/ (p = current /\ pstate'[p] = "ZOMBIE")
      /\ ReadySet(pstate') = ReadySet(pstate)
      /\ \A wc : Sleepers(pstate', wc) = Sleepers(pstate, wc)
  BY <1>1, SignalRunLists
<1>3. PsaTyped' /\ FreeFresh'
  BY <1>2 DEF PsaInv, PsaTyped, FreeFresh
<1>4. SameSleepers
  BY <1>1, <1>2 DEF SameSleepers
<1> QED
  BY <1>2, <1>3, <1>4 DEF PsaInv, Lists

(* Sending a signal to a process that does not sleep is such a call.       *)
LEMMA SignalLists ==
    ASSUME ~SignalSleepers, PsaInv, NEW n, NEW s, Lists(n, s),
           \/ \E t \in Slot, g \in Sigs : SendSignal(t, g)
           \/ \E set \in SUBSET Sigs : SigProcMask(set)
           \/ SyscallReturn
    PROVE  /\ PsaInv' /\ Lists(n, s)' /\ SameSleepers
           /\ ~idle /\ UNCHANGED <<pri, wchan, current>>
<1>1. ~idle => current \in Slot
  BY DEF PsaInv, CpuInv
<1>2. sig \in [Slot -> SUBSET Sigs] /\ mask \in [Slot -> SUBSET Sigs]
  BY DEF PsaInv, PsaTyped
<1>3. CASE \E t \in Slot, g \in Sigs : SendSignal(t, g)
  <2>1. PICK t \in Slot, g \in Sigs : SendSignal(t, g)
    BY <1>3
  <2> DEFINE sg == [sig EXCEPT ![t] = @ \cup {g}]
  <2>2. /\ ~idle /\ SignalRun(pstate, sg, mask)
        /\ UNCHANGED <<pri, wchan, links, mask, current, resched>>
    BY <2>1 DEF SendSignal
  <2>3. sg \in [Slot -> SUBSET Sigs]
    BY <1>2
  <2> HIDE DEF sg
  <2> QED
    BY <1>2, <2>2, <2>3, QuietLists
<1>4. CASE \E set \in SUBSET Sigs : SigProcMask(set)
  <2>1. PICK set \in SUBSET Sigs : SigProcMask(set)
    BY <1>4
  <2>2. /\ ~idle /\ SignalRun(pstate, sig, mask')
        /\ mask' = [mask EXCEPT ![current] = set]
        /\ UNCHANGED <<pri, wchan, links, current, resched>>
    BY <2>1 DEF SigProcMask
  <2>3. mask' \in [Slot -> SUBSET Sigs]
    BY <1>2, <2>2
  <2> QED
    BY <1>2, <2>2, <2>3, QuietLists
<1>5. CASE SyscallReturn
  <2>1. /\ ~idle /\ SignalRun(pstate, sig, mask)
        /\ UNCHANGED <<pri, wchan, links, mask, current, resched>>
    BY <1>5 DEF SyscallReturn
  <2> QED
    BY <1>2, <2>1, QuietLists
<1> QED
  BY <1>3, <1>4, <1>5

(* recalculate_priority: the running process is on no list.                *)
LEMMA ReprioritiseLists ==
    ASSUME PsaInv, NEW n, NEW s, Lists(n, s), NEW v \in Pris, Reprioritise(v)
    PROVE  PsaInv' /\ Lists(n, s)'
<1>1. /\ ~idle /\ pri' = [pri EXCEPT ![current] = v]
      /\ UNCHANGED <<pstate, sig, mask, wchan, links, current, resched, idle>>
  BY DEF Reprioritise, entries
<1>2. /\ current \in Slot /\ pstate[current] = "KERNEL_RUNNING"
      /\ pri \in [Slot -> Pris \cup {0}]
  BY <1>1 DEF PsaInv, PsaTyped, CpuInv
<1>3. PsaInv'
  <2>1. pri' \in [Slot -> Pris \cup {0}]
    BY <1>1, <1>2
  <2>2. PsaTyped' /\ CpuInv'
    BY <1>1, <2>1 DEF PsaInv, PsaTyped, CpuInv
  <2>3. FreeFresh'
    BY <1>1, <1>2 DEF PsaInv, FreeFresh
  <2> QED
    BY <2>2, <2>3 DEF PsaInv
<1> DEFINE R == ReadySet(pstate)
           Q == Sleepers(pstate, wchan)
<1>4. Queues(links, pri, R, Q, n, s) /\ OnNone(R, Q, current)
  BY <1>2, OnNoList DEF Lists
<1>5. \A q \in Slot : q # current => pri'[q] = pri[q]
  BY <1>1, <1>2
<1> HIDE DEF R, Q
<1>6. links \in LinkType
  BY <1>4 DEF Queues
<1>7. Queues(links, pri', R, Q, n, s)
  BY <1>4, <1>5, <1>6, QueuesKept
<1> QED
  BY <1>1, <1>3, <1>7 DEF Lists, R, Q

(* sleep: the running process enters its bucket, and the head of the ready *)
(* queue, if there is one, takes the CPU.                                  *)
LEMMA SleepLists ==
    ASSUME PsaInv, NEW n, NEW s, Lists(n, s),
           NEW c \in Chans, NEW i \in BOOLEAN, Sleep(c, i)
    PROVE  /\ PsaInv'
           /\ \A p \in Slot :
                 /\ pstate'[p] = "SLEEP_MEM" <=> pstate[p] = "SLEEP_MEM" \/ p = current
                 /\ wchan'[p] = IF p = current THEN c ELSE wchan[p]
           /\ \/ n = 0 /\ idle' = TRUE /\ current' = current /\ Lists(n, s)'
              \/ /\ n > 0 /\ idle' = FALSE /\ current' = s[1]
                 /\ Lists(n - 1, Dropped(s, n, 1))'
<1> DEFINE R == ReadySet(pstate)
           Q == Sleepers(pstate, wchan)
           Q2 == [b \in Bucket |-> IF b = HashSlot(c) THEN Q[b] \cup {current} ELSE Q[b]]
           asleep == [pstate EXCEPT ![current] = "SLEEP_MEM"]
           l == SleepEnqueue(links, current, c)
           next == l.runq
<1>1. /\ ~idle /\ wchan' = [wchan EXCEPT ![current] = c]
      /\ \/ /\ next # Nil /\ next # current
            /\ pstate' = [asleep EXCEPT ![next] = SetState(@, "KERNEL_RUNNING")]
            /\ links' = SchedDequeue(l, next)
            /\ current' = next /\ idle' = FALSE
         \/ /\ next = Nil \/ next = current
            /\ pstate' = asleep /\ links' = l /\ current' = current /\ idle' = TRUE
      /\ UNCHANGED <<pri, sig, mask, resched>>
  <2>1. /\ ~idle /\ current \in Slot /\ pstate[current] = "KERNEL_RUNNING"
        /\ pstate \in [Slot -> Live]
    BY DEF Sleep, PsaInv, PsaTyped, CpuInv
  <2>2. [pstate EXCEPT ![current] = SetState(@, "SLEEP_MEM")] = asleep
    BY <2>1, SetStateFacts
  <2> HIDE DEF asleep, l
  <2>3. CASE next # Nil /\ next # current
    BY <2>2, <2>3 DEF Sleep, entries, l
  <2>4. CASE ~(next # Nil /\ next # current)
    BY <2>2, <2>4 DEF Sleep, entries, l
  <2> QED
    BY <2>1, <2>3, <2>4
<1>2. /\ pstate \in [Slot -> Live] /\ wchan \in [Slot -> Chans \cup {0}]
      /\ current \in Slot /\ pstate[current] = "KERNEL_RUNNING"
      /\ \A p \in Slot : pstate[p] = "KERNEL_RUNNING" <=> p = current
  BY <1>1 DEF PsaInv, PsaTyped, CpuInv
<1>3. Queues(links, pri, R, Q, n, s) /\ Apart(R, Q) /\ OnNone(R, Q, current)
  BY <1>2, SetsApart, OnNoList DEF Lists
<1>4. EntersBucket(Q, Q2, HashSlot(c), current)
  BY DEF EntersBucket
<1>5. /\ \A p \in Slot : asleep[p] = IF p = current THEN "SLEEP_MEM" ELSE pstate[p]
      /\ \A p \in Slot : wchan'[p] = IF p = current THEN c ELSE wchan[p]
      /\ asleep \in [Slot -> Live]
  <2>1. "SLEEP_MEM" \in Live
    BY DEF Live
  <2> QED
    BY <1>1, <1>2, <2>1
<1>6. ReadySet(asleep) = R /\ Sleepers(asleep, wchan') = Q2
  <2>1. ReadySet(asleep) = R
    BY <1>2, <1>5 DEF ReadySet
  <2>2. ASSUME NEW b \in Bucket
        PROVE  {p \in Slot : asleep[p] = "SLEEP_MEM" /\ HashSlot(wchan'[p]) = b}
                 = IF b = HashSlot(c)
                   THEN {p \in Slot : pstate[p] = "SLEEP_MEM" /\ HashSlot(wchan[p]) = b}
                           \cup {current}
                   ELSE {p \in Slot : pstate[p] = "SLEEP_MEM" /\ HashSlot(wchan[p]) = b}
    BY <1>2, <1>5
  <2>3. \A b \in Bucket :
           Q[b] = {p \in Slot : pstate[p] = "SLEEP_MEM" /\ HashSlot(wchan[p]) = b}
    BY DEF Sleepers
  <2> HIDE DEF Q, asleep
  <2>4. Sleepers(asleep, wchan') = Q2
    BY <2>2, <2>3 DEF Sleepers
  <2> QED
    BY <2>1, <2>4
<1>7. \A b \in Bucket : Q2[b] = Sleepers(asleep, wchan')[b]
  BY <1>6
<1> HIDE DEF R, Q, Q2, l, asleep
<1>8. Queues(l, pri, R, Q2, n, s) /\ l.runq = links.runq
  BY <1>2, <1>3, <1>4, SleepEnqueueExact DEF l
<1>9. Apart(R, Q2)
  BY <1>6, SetsApart
<1>10. /\ n \in Nat
       /\ l.runq = IF n = 0 THEN 0 ELSE s[1]
       /\ \A j \in 1..n : s[j] \in R
  BY <1>8 DEF Queues, Queue, Listed, Members
<1>11. \A p \in R : p # 0 /\ p # current /\ p \in Slot /\ pstate[p] = "READY" /\ asleep[p] = "READY"
  BY <1>2, <1>5, BasicTypes DEF R, ReadySet
<1>12. CASE n = 0
  <2>1. /\ next = Nil /\ pstate' = asleep /\ links' = l /\ current' = current
        /\ idle' = TRUE
    BY <1>1, <1>10, <1>12 DEF Nil
  <2>2. PsaTyped'
    BY <1>1, <1>2, <1>5, <2>1 DEF PsaInv, PsaTyped
  <2>3. CpuInv' /\ FreeFresh'
    BY <1>1, <1>2, <1>5, <2>1 DEF PsaInv, CpuInv, FreeFresh
  <2>4. Lists(n, s)'
    BY <1>1, <1>6, <1>8, <2>1 DEF Lists
  <2>5. \A p \in Slot : pstate'[p] = "SLEEP_MEM" <=> pstate[p] = "SLEEP_MEM" \/ p = current
    BY <1>5, <2>1
  <2> QED
    BY <1>5, <1>12, <2>1, <2>2, <2>3, <2>4, <2>5 DEF PsaInv
<1>13. CASE n # 0
  <2>1. n > 0 /\ 1 \in 1..n /\ next = s[1] /\ next \in R
    BY <1>10, <1>13
  <2>2. next # 0 /\ next # current /\ next \in Slot /\ asleep[next] = "READY"
    BY <1>11, <2>1
  <2>3. /\ pstate' = [asleep EXCEPT ![next] = SetState(@, "KERNEL_RUNNING")]
        /\ links' = SchedDequeue(l, next) /\ current' = next /\ idle' = FALSE
    BY <1>1, <2>2 DEF Nil
  <2> HIDE DEF next
  <2>4. SetState("READY", "KERNEL_RUNNING") = "KERNEL_RUNNING" /\ "KERNEL_RUNNING" \in Live
    BY DEF SetState, Successors, Live
  <2>5. /\ pstate' \in [Slot -> Live]
        /\ \A p \in Slot : pstate'[p] = IF p = next THEN "KERNEL_RUNNING" ELSE asleep[p]
    BY <1>5, <2>2, <2>3, <2>4
  <2>6. PsaTyped'
    <3>1. wchan' \in [Slot -> Chans \cup {0}] /\ next \in Ptr
      BY <1>1, <1>2, <2>2, BasicTypes
    <3> QED
      BY <1>1, <2>3, <2>5, <3>1 DEF PsaInv, PsaTyped
  <2>7. CpuInv' /\ FreeFresh'
    BY <1>1, <1>2, <1>5, <2>2, <2>3, <2>5 DEF PsaInv, CpuInv, FreeFresh
  <2>8. next = l.runq /\ next # Nil
    BY <2>2 DEF next, Nil
  <2>9. PICK l2 : l2 = links'
    OBVIOUS
  <2>10. Queues(l2, pri, R \ {next}, Q2, n - 1, Dropped(s, n, 1))
    <3>1. /\ Queues(l, pri, R, Q2, n, s) /\ Apart(R, Q2)
          /\ next = l.runq /\ next # Nil /\ l2 = SchedDequeue(l, next)
      BY <1>8, <1>9, <2>3, <2>8, <2>9
    <3> QED
      BY <3>1, DequeueExact
  <2>11. ReadySet(pstate') = R \ {next} /\ Sleepers(pstate', wchan') = Q2
    <3>1. ReadySet(pstate') = ReadySet(asleep) \ {next}
      BY <2>5 DEF ReadySet
    <3>2. \A p \in Slot : pstate'[p] = "SLEEP_MEM" <=> asleep[p] = "SLEEP_MEM"
      BY <2>2, <2>5
    <3>3. Sleepers(pstate', wchan') = Sleepers(asleep, wchan')
      BY <3>2 DEF Sleepers
    <3> QED
      BY <1>6, <3>1, <3>3
  <2>12. Lists(n - 1, Dropped(s, n, 1))'
    BY <1>1, <2>9, <2>10, <2>11 DEF Lists
  <2>13. \A p \in Slot : pstate'[p] = "SLEEP_MEM" <=> pstate[p] = "SLEEP_MEM" \/ p = current
    BY <1>5, <2>2, <2>5
  <2> QED
    BY <1>5, <2>1, <2>3, <2>6, <2>7, <2>12, <2>13 DEF PsaInv
<1> QED
  BY <1>12, <1>13

(* wakeup: the sleepers of the channel join the ready queue.               *)
LEMMA WakeupLists ==
    ASSUME PsaInv, NEW n, NEW s, Lists(n, s), NEW c \in Chans, Wakeup(c)
    PROVE  /\ PsaInv'
           /\ \A p \in Slot : /\ pstate'[p] = IF p \in AsleepOn(c) THEN "READY"
                                              ELSE pstate[p]
                              /\ wchan'[p] = IF p \in AsleepOn(c) THEN 0 ELSE wchan[p]
           /\ AsleepOn(c) # {}
           /\ \E n2, s2 : /\ Lists(n2, s2)'
                          /\ \E j, f, q : Requeued(AsleepOn(c), s, j, f, q, s2)
<1> DEFINE W == AsleepOn(c)
           R == ReadySet(pstate)
           Q == Sleepers(pstate, wchan)
<1>1. /\ WakeScan(c).woken = W
      /\ \E n2, s2 : /\ Queues(WakeScan(c).l, pri, R \cup W, StillAsleep(Q, W), n2, s2)
                     /\ \E j, f, q : Requeued(W, s, j, f, q, s2)
  BY PriTyped, WakeScanExact DEF Lists, PsaInv
<1>2. /\ ~idle /\ W # {}
      /\ pstate' = [p \in Slot |-> IF p \in W THEN WakeState(pstate[p]) ELSE pstate[p]]
      /\ wchan' = [p \in Slot |-> IF p \in W THEN 0 ELSE wchan[p]]
      /\ links' = WakeScan(c).l
      /\ resched' \in BOOLEAN
      /\ UNCHANGED <<pri, sig, mask, current, idle>>
  <2>1. \A x, y : (x \/ y) \in BOOLEAN
    OBVIOUS
  <2> HIDE DEF W
  <2> QED
    BY <1>1, <2>1, Zenon DEF Wakeup, entries
<1>3. \A p \in W : p \in Slot /\ pstate[p] = "SLEEP_MEM" /\ wchan[p] = c
  BY DEF AsleepOn
<1>4. WakeState("SLEEP_MEM") = "READY" /\ "READY" \in Live
  BY DEF WakeState, SetState, Successors, Live
<1>5. /\ pstate \in [Slot -> Live] /\ wchan \in [Slot -> Chans \cup {0}]
      /\ pri \in [Slot -> Int]
  BY PriTyped DEF PsaInv, PsaTyped
<1>6. \A p \in Slot : /\ pstate'[p] = IF p \in W THEN "READY" ELSE pstate[p]
                      /\ wchan'[p] = IF p \in W THEN 0 ELSE wchan[p]
  BY <1>2, <1>3, <1>4
<1>7. PsaInv'
  <2>1. pstate' \in [Slot -> Live] /\ wchan' \in [Slot -> Chans \cup {0}]
    BY <1>2, <1>4, <1>5, <1>6
  <2>2. PsaTyped'
    BY <1>2, <2>1 DEF PsaInv, PsaTyped
  <2>3. CpuInv' /\ FreeFresh'
    BY <1>2, <1>3, <1>6 DEF PsaInv, CpuInv, FreeFresh
  <2> QED
    BY <2>2, <2>3 DEF PsaInv
<1>8. ReadySet(pstate') = R \cup W
  BY <1>3, <1>6 DEF ReadySet
<1>9. Sleepers(pstate', wchan') = StillAsleep(Q, W)
  <2>1. ASSUME NEW b \in Bucket
        PROVE  {p \in Slot : pstate'[p] = "SLEEP_MEM" /\ HashSlot(wchan'[p]) = b}
                 = {p \in Slot : pstate[p] = "SLEEP_MEM" /\ HashSlot(wchan[p]) = b} \ W
    <3> HIDE DEF W
    <3> QED
      BY <1>6
  <2>2. \A b \in Bucket :
           Q[b] = {p \in Slot : pstate[p] = "SLEEP_MEM" /\ HashSlot(wchan[p]) = b}
    BY DEF Sleepers
  <2> HIDE DEF Q, W
  <2> QED
    BY <2>1, <2>2 DEF Sleepers, StillAsleep
<1>10. \E n2, s2 : /\ Lists(n2, s2)'
                   /\ \E j, f, q : Requeued(W, s, j, f, q, s2)
  BY <1>1, <1>2, <1>8, <1>9 DEF Lists
<1> QED
  BY <1>2, <1>6, <1>7, <1>10

(* An idle CPU takes the head of the ready queue.                          *)
LEMMA DispatchLists ==
    ASSUME PsaInv, NEW n, NEW s, Lists(n, s), Dispatch
    PROVE  /\ PsaInv'
           /\ n > 0 /\ current' = s[1]
           /\ Lists(n - 1, Dropped(s, n, 1))'
           /\ SameSleepers
<1> DEFINE p == links.runq
           R == ReadySet(pstate)
           Q == Sleepers(pstate, wchan)
<1>1. /\ idle /\ p # Nil
      /\ pstate' = [pstate EXCEPT ![p] = SetState(@, "KERNEL_RUNNING")]
      /\ links' = SchedDequeue(links, p)
      /\ current' = p /\ idle' = FALSE
      /\ UNCHANGED <<pri, wchan, sig, mask, resched>>
  BY DEF Dispatch, entries
<1>2. Queues(links, pri, R, Q, n, s) /\ Apart(R, Q)
  BY SetsApart DEF Lists
<1> HIDE DEF p
<1>3. PICK l2 : l2 = links'
  OBVIOUS
<1>4. /\ n > 0 /\ p = s[1] /\ p \in R
      /\ Queues(l2, pri, R \ {p}, Q, n - 1, Dropped(s, n, 1))
  <2>1. /\ Queues(links, pri, R, Q, n, s) /\ Apart(R, Q)
        /\ p = links.runq /\ p # Nil /\ l2 = SchedDequeue(links, p)
    BY <1>1, <1>2, <1>3 DEF p
  <2> HIDE DEF R, Q
  <2> QED
    BY <2>1, DequeueExact
<1>5. SetState("READY", "KERNEL_RUNNING") = "KERNEL_RUNNING" /\ "KERNEL_RUNNING" \in Live
  BY DEF SetState, Successors, Live
<1>6. p \in Slot /\ pstate[p] = "READY" /\ pstate \in [Slot -> Live] /\ p \in Ptr
  BY <1>4, BasicTypes DEF ReadySet, PsaInv, PsaTyped
<1>7. /\ pstate' \in [Slot -> Live]
      /\ \A q \in Slot : pstate'[q] = IF q = p THEN "KERNEL_RUNNING" ELSE pstate[q]
  BY <1>1, <1>5, <1>6
<1>8. PsaInv'
  <2>1. PsaTyped'
    BY <1>1, <1>6, <1>7 DEF PsaInv, PsaTyped
  <2>2. CpuInv' /\ FreeFresh'
    BY <1>1, <1>6, <1>7 DEF PsaInv, CpuInv, FreeFresh
  <2> QED
    BY <2>1, <2>2 DEF PsaInv
<1>9. ReadySet(pstate') = R \ {p}
  BY <1>7 DEF ReadySet
<1>10. \A q \in Slot : pstate'[q] = "SLEEP_MEM" <=> pstate[q] = "SLEEP_MEM"
  BY <1>6, <1>7
<1>11. Sleepers(pstate', wchan') = Q
  BY <1>1, <1>10 DEF Sleepers
<1>12. Lists(n - 1, Dropped(s, n, 1))'
  BY <1>1, <1>3, <1>4, <1>9, <1>11 DEF Lists
<1> QED
  BY <1>1, <1>4, <1>8, <1>10, <1>12 DEF SameSleepers

----------------------------------------------------------------------------
ListInv == PsaInv /\ \E n, s : Lists(n, s)

(* Every handler keeps the lists. *)
LEMMA ListStep ==
    ASSUME ~SignalSleepers, ListInv, [Next]_vars
    PROVE  ListInv'
<1>1. PICK n, s : PsaInv /\ Lists(n, s)
  BY DEF ListInv
<1>2. ASSUME NEW child \in Slot, NEW d \in BOOLEAN, Fork(child, d)
      PROVE  ListInv'
  BY <1>1, <1>2, ForkLists DEF ListInv
<1>3. CASE Exit
  BY <1>1, <1>3, ExitLists DEF ListInv
<1>4. ASSUME NEW child \in Slot, WaitPid(child)
      PROVE  ListInv'
  BY <1>1, <1>4, WaitPidLists DEF ListInv
<1>5. CASE \/ \E t \in Slot, g \in Sigs : SendSignal(t, g)
           \/ \E set \in SUBSET Sigs : SigProcMask(set)
           \/ SyscallReturn
  BY <1>1, <1>5, SignalLists DEF ListInv
<1>6. ASSUME NEW c \in Chans, NEW i \in BOOLEAN, Sleep(c, i)
      PROVE  ListInv'
  BY <1>1, <1>6, SleepLists DEF ListInv
<1>7. ASSUME NEW c \in Chans, Wakeup(c)
      PROVE  ListInv'
  BY <1>1, <1>7, WakeupLists DEF ListInv
<1>8. ASSUME NEW v \in Pris, Reprioritise(v)
      PROVE  ListInv'
  BY <1>1, <1>8, ReprioritiseLists DEF ListInv
<1>9. CASE Dispatch
  BY <1>1, <1>9, DispatchLists DEF ListInv
<1>10. CASE UNCHANGED vars
  <2>1. PsaInv'
    BY <1>1, <1>10 DEF vars, PsaInv, PsaTyped, CpuInv, FreeFresh
  <2>2. Lists(n, s)'
    BY <1>1, <1>10 DEF vars, Lists
  <2> QED
    BY <2>1, <2>2 DEF ListInv
<1> QED
  BY <1>2, <1>3, <1>4, <1>5, <1>6, <1>7, <1>8, <1>9, <1>10 DEF Next

(* The invariant holds always, while no signal is sent to a sleeper. *)
LEMMA ListInvariant == ASSUME ~SignalSleepers PROVE Spec => []ListInv
<1>1. Init => ListInv
  BY ListsInit DEF ListInv
<1>2. ListInv /\ [Next]_vars => ListInv'
  BY ListStep
<1> QED
  BY <1>1, <1>2, PTL DEF Spec

(* process.c:258, for every table: while no signal is sent to a sleeper,   *)
(* the ready queue holds the READY processes, all of them, each once and   *)
(* in priority order, although the sleep hash uses the same two links.     *)
THEOREM QueueIsReady == ASSUME ~SignalSleepers PROVE Spec => []ReadyQueueExact
<1>1. ListInv => ReadyQueueExact
  <2> SUFFICES ASSUME ListInv PROVE ReadyQueueExact
    OBVIOUS
  <2> DEFINE R == ReadySet(pstate)
  <2>1. PICK n, s : /\ links \in LinkType /\ Queue(links, links.runq, R, n, s)
                    /\ Ordered(pri, n, s)
    BY DEF ListInv, Lists, Queues
  <2>2. ListOf(R, links.runq)
    BY <2>1, QueueListOf
  <2>3. ASSUME NEW p \in R, links.next[p] # Nil
        PROVE  pri[p] <= pri[links.next[p]]
    <3>1. /\ n \in Nat /\ Nil = 0
          /\ \A i \in 1..n : links.next[s[i]] = IF i = n THEN 0 ELSE s[i + 1]
          /\ R = Members(n, s)
      BY <2>1, BasicTypes DEF Queue, Listed
    <3>2. PICK i \in 1..n : p = s[i]
      BY <3>1 DEF Members
    <3>3. i # n /\ links.next[p] = s[i + 1]
      BY <2>3, <3>1, <3>2
    <3>4. i + 1 \in 1..n /\ i <= i + 1
      BY <3>1, <3>3
    <3> QED
      BY <2>1, <3>2, <3>3, <3>4 DEF Ordered
  <2> QED
    BY <2>2, <2>3 DEF ReadyQueueExact, ReadySet
<1> QED
  BY <1>1, ListInvariant, PTL

(* sleep_wakeup.c:21, for every table and every hash: the bucket of a      *)
(* channel holds exactly the processes asleep on a channel that hashes     *)
(* there, and its tail is its last entry.                                  *)
THEOREM BucketsAreSleepers == ASSUME ~SignalSleepers PROVE Spec => []SleepQueuesExact
<1>1. ListInv => SleepQueuesExact
  <2> SUFFICES ASSUME ListInv, NEW b \in Bucket
               PROVE  LET S == {p \in Slot : /\ pstate[p] = "SLEEP_MEM"
                                             /\ HashSlot(wchan[p]) = b}
                      IN  /\ ListOf(S, links.head[b])
                          /\ links.tail[b] = IF S = {} THEN Nil
                                             ELSE CHOOSE p \in S : links.next[p] = Nil
    BY DEF SleepQueuesExact
  <2> DEFINE S == {p \in Slot : pstate[p] = "SLEEP_MEM" /\ HashSlot(wchan[p]) = b}
  <2>1. Sleepers(pstate, wchan)[b] = S
    BY DEF Sleepers
  <2> HIDE DEF S
  <2>2. links \in LinkType /\ Bucketed(links, b, S)
    BY <2>1 DEF ListInv, Lists, Queues
  <2>3. PICK m, t : /\ Queue(links, links.head[b], S, m, t)
                    /\ links.tail[b] = IF m = 0 THEN 0 ELSE t[m]
    BY <2>2 DEF Bucketed
  <2>4. ListOf(S, links.head[b])
    BY <2>2, <2>3, QueueListOf
  <2>5. /\ m \in Nat /\ Nil = 0
        /\ \A i \in 1..m : t[i] # 0
        /\ \A i \in 1..m : links.next[t[i]] = IF i = m THEN 0 ELSE t[i + 1]
        /\ S = Members(m, t)
    BY <2>3, BasicTypes DEF Queue, Listed
  <2>6. CASE m = 0
    <3>1. S = {} /\ links.tail[b] = Nil
      BY <2>3, <2>5, <2>6 DEF Members
    <3> QED
      BY <2>4, <3>1 DEF S
  <2>7. CASE m # 0
    <3>1. m \in 1..m /\ t[m] \in S /\ links.tail[b] = t[m]
      BY <2>3, <2>5, <2>7 DEF Members
    <3>2. links.next[t[m]] = Nil
      BY <2>5, <3>1
    <3>3. ASSUME NEW p \in S, links.next[p] = Nil
          PROVE  p = t[m]
      <4>1. PICK i \in 1..m : p = t[i]
        BY <2>5 DEF Members
      <4>2. i # m => i + 1 \in 1..m
        BY <2>5
      <4> QED
        BY <2>5, <3>3, <4>1, <4>2
    <3>4. (CHOOSE p \in S : links.next[p] = Nil) = t[m]
      BY <3>1, <3>2, <3>3
    <3>5. S # {}
      BY <3>1
    <3> QED
      BY <2>4, <3>1, <3>4, <3>5 DEF S
  <2> QED
    BY <2>6, <2>7
<1> QED
  BY <1>1, ListInvariant, PTL

(* The process that is given the CPU was READY, so that proc_set_state     *)
(* never refuses the transition whose result the callers discard.          *)
THEOREM CpuRuns == ASSUME ~SignalSleepers PROVE Spec => []CpuHasRunner
<1>1. ListInv => CpuHasRunner
  BY DEF ListInv, PsaInv, CpuInv, CpuHasRunner, Running
<1> QED
  BY <1>1, ListInvariant, PTL

----------------------------------------------------------------------------
(* The PIDs that have been given out are those of the table, when it has   *)
(* room for a PID after the first: s_next_pid starts at 2 whatever its     *)
(* size.                                                                   *)
PidTyped == /\ pid \in [Slot -> 0..NPROC]
            /\ ppid \in [Slot -> 0..NPROC]
            /\ nextPid \in 2..(NPROC - 1)

(* The first PID and the next. *)
LEMMA PidInit == ASSUME NPROC >= 3 PROVE Init => PidTyped
BY BasicTypes DEF Init, PidTyped

(* fork gives out a PID within the bound, wait_pid clears one. *)
LEMMA PidStep ==
    ASSUME PidTyped, PsaInv, [Next]_vars
    PROVE  PidTyped'
<1>1. ASSUME NEW child \in Slot, NEW d \in BOOLEAN, Fork(child, d)
      PROVE  PidTyped'
  <2>1. current \in Slot
    BY <1>1 DEF Fork, PsaInv, CpuInv
  <2>2. NPROC \in Nat /\ nextPid \in 2..(NPROC - 1) /\ nextPid + 1 \in 0..NPROC
    BY BasicTypes DEF PidTyped
  <2>3. nextPid' \in 2..(NPROC - 1)
    BY <1>1, <2>2 DEF Fork, WrapPid
  <2>4. CASE /\ pid' = [pid EXCEPT ![child] = nextPid + 1]
             /\ ppid' = [ppid EXCEPT ![child] = pid[current]]
    BY <2>1, <2>2, <2>3, <2>4 DEF PidTyped
  <2>5. CASE UNCHANGED <<pid, ppid>>
    BY <2>3, <2>5 DEF PidTyped
  <2> QED
    BY <1>1, <2>4, <2>5 DEF Fork
<1>2. ASSUME NEW child \in Slot, WaitPid(child)
      PROVE  PidTyped'
  <2>1. 0 \in 0..NPROC
    BY BasicTypes
  <2> QED
    BY <1>2, <2>1 DEF WaitPid, PidTyped
<1>3. CASE UNCHANGED <<pid, ppid, nextPid>>
  BY <1>3 DEF PidTyped
<1>4. ASSUME NEW t \in Slot, NEW g \in Sigs, SendSignal(t, g)
      PROVE  UNCHANGED <<pid, ppid, nextPid>>
  BY <1>4 DEF SendSignal
<1>5. ASSUME NEW set \in SUBSET Sigs, SigProcMask(set)
      PROVE  UNCHANGED <<pid, ppid, nextPid>>
  BY <1>5 DEF SigProcMask
<1>6. ASSUME NEW c \in Chans, NEW i \in BOOLEAN, Sleep(c, i)
      PROVE  UNCHANGED <<pid, ppid, nextPid>>
  BY <1>6 DEF Sleep, entries
<1>7. ASSUME NEW c \in Chans, Wakeup(c)
      PROVE  UNCHANGED <<pid, ppid, nextPid>>
  BY <1>7 DEF Wakeup, entries
<1>8. ASSUME NEW v \in Pris, Reprioritise(v)
      PROVE  UNCHANGED <<pid, ppid, nextPid>>
  BY <1>8 DEF Reprioritise, entries
<1>9. Exit \/ SyscallReturn \/ Dispatch \/ UNCHANGED vars
         => UNCHANGED <<pid, ppid, nextPid>>
  BY DEF Exit, SyscallReturn, Dispatch, vars, entries
<1> QED
  BY <1>1, <1>2, <1>3, <1>4, <1>5, <1>6, <1>7, <1>8, <1>9 DEF Next

(* Every field keeps its range, the links among the entries of the table.  *)
THEOREM TypeCorrect ==
    ASSUME ~SignalSleepers, NPROC >= 3
    PROVE  Spec => []TypeOK
<1>1. Init => PidTyped
  BY PidInit
<1>2. ListInv /\ PidTyped /\ [Next]_vars => PidTyped'
  BY PidStep DEF ListInv
<1>3. ListInv /\ PidTyped => TypeOK
  <2> SUFFICES ASSUME ListInv, PidTyped PROVE TypeOK
    OBVIOUS
  <2>1. Live \subseteq PState
    BY DEF Live, PState
  <2>2. links \in LinkType
    BY DEF ListInv, Lists, Queues
  <2>3. nextPid \in 2..NPROC
    BY BasicTypes DEF PidTyped
  <2>4. pstate \in [Slot -> PState]
    BY <2>1 DEF ListInv, PsaInv, PsaTyped
  <2> QED
    BY <2>2, <2>3, <2>4 DEF ListInv, PsaInv, PsaTyped, PidTyped, LinkType, TypeOK
<1> QED
  BY <1>1, <1>2, <1>3, ListInvariant, PTL DEF Spec

----------------------------------------------------------------------------
(* The refinement of PsaSched: the order of the ready queue is its queue,  *)
(* and every handler is one of its steps, or none.                         *)
AsleepBy == [c \in Chans |-> {p \in Slot : pstate[p] = "SLEEP_MEM" /\ wchan[p] = c}]
Cpu == IF idle THEN Nil ELSE current

(* The order that the links spell is the queue that the mapping reads off. *)
LEMMA ReadySeqOf ==
    ASSUME NEW l \in LinkType, NEW S, NEW n, NEW s, Queue(l, l.runq, S, n, s)
    PROVE  /\ [i \in 1..Cardinality(S) |-> Walk(l, l.runq)[i - 1]] = s
           /\ n \in Nat /\ s \in [1..n -> Slot] /\ S = Members(n, s)
<1>1. /\ n \in 0..NPROC /\ s \in [1..n -> Slot] /\ Cardinality(S) = n
      /\ \A i \in 0..NPROC : Walk(l, l.runq)[i] = IF i < n THEN s[i + 1] ELSE 0
  BY QueueWalk
<1>2. NPROC \in Nat
  BY BasicTypes
<1>3. ASSUME NEW i \in 1..n PROVE Walk(l, l.runq)[i - 1] = s[i]
  <2>1. i - 1 \in 0..NPROC /\ i - 1 < n /\ (i - 1) + 1 = i
    BY <1>1, <1>2
  <2> QED
    BY <1>1, <2>1
<1> QED
  BY <1>1, <1>2, <1>3 DEF Queue

(* Before and after a step. *)
LEMMA ReadyIs ==
    ASSUME NEW n, NEW s
    PROVE  /\ Lists(n, s) => /\ ReadySeq = s /\ n \in Nat /\ s \in [1..n -> Slot]
                             /\ ReadySet(pstate) = Members(n, s)
           /\ Lists(n, s)' => ReadySeq' = s
<1>1. ASSUME Lists(n, s)
      PROVE  /\ ReadySeq = s /\ n \in Nat /\ s \in [1..n -> Slot]
             /\ ReadySet(pstate) = Members(n, s)
  <2>1. links \in LinkType /\ Queue(links, links.runq, ReadySet(pstate), n, s)
    BY <1>1 DEF Lists, Queues
  <2>2. ReadySeq = [i \in 1..Cardinality(ReadySet(pstate)) |-> Walk(links, links.runq)[i - 1]]
    BY DEF ReadySeq, ReadySet
  <2> QED
    BY <2>1, <2>2, ReadySeqOf
<1>2. ASSUME Lists(n, s)' PROVE ReadySeq' = s
  <2>1. PICK l, ps : l = links' /\ ps = pstate'
    OBVIOUS
  <2>2. l \in LinkType /\ Queue(l, l.runq, ReadySet(ps), n, s)
    BY <1>2, <2>1 DEF Lists, Queues
  <2>3. ReadySeq' = [i \in 1..Cardinality(ReadySet(ps)) |-> Walk(l, l.runq)[i - 1]]
    BY <2>1 DEF ReadySeq, ReadySet
  <2> QED
    BY <2>2, <2>3, ReadySeqOf
<1> QED
  BY <1>1, <1>2

(* Who is queued and who sleeps, in PsaSched's words. *)
LEMMA PlacesIs ==
    ASSUME NEW n, NEW s, Lists(n, s)
    PROVE  /\ Sched!Queued = ReadySet(pstate)
           /\ \A p \in Sched!Sleeping : pstate[p] = "SLEEP_MEM"
<1>1. /\ ReadySeq = s /\ n \in Nat /\ s \in [1..n -> Slot]
      /\ ReadySet(pstate) = Members(n, s)
  BY ReadyIs
<1>2. Len(s) = n
  BY <1>1, SeqOfOrder
<1>3. Sched!Queued = {s[i] : i \in 1..n}
  BY <1>1, <1>2 DEF Sched!Queued
<1>4. \A p \in Sched!Sleeping : pstate[p] = "SLEEP_MEM"
  BY DEF Sched!Sleeping
<1> QED
  BY <1>1, <1>3, <1>4 DEF Members

(* A step that neither wakes anybody nor puts anybody to sleep. *)
LEMMA AsleepSame ==
    ASSUME SameSleepers,
           \A p \in Slot : pstate[p] = "SLEEP_MEM" => wchan'[p] = wchan[p]
    PROVE  AsleepBy' = AsleepBy
<1>1. ASSUME NEW c \in Chans
      PROVE  {p \in Slot : pstate'[p] = "SLEEP_MEM" /\ wchan'[p] = c}
                = {p \in Slot : pstate[p] = "SLEEP_MEM" /\ wchan[p] = c}
  BY DEF SameSleepers
<1> QED
  BY <1>1 DEF AsleepBy

(* The actions of PsaSched, under the mapping. *)
LEMMA SchedActions ==
    /\ Sched!vars = <<ReadySeq, AsleepBy, pri, Cpu>>
    /\ \A p : Sched!Create(p)
                 <=> /\ p \notin Sched!Queued \cup Sched!Sleeping \cup {Cpu}
                     /\ pri' = [pri EXCEPT ![p] = 0]
                     /\ ReadySeq' = Sched!Insert(ReadySeq, pri', p)
                     /\ Cpu' \in {Cpu, Nil}
                     /\ AsleepBy' = AsleepBy
    /\ \A p : Sched!Reap(p)
                 <=> /\ p \notin Sched!Queued \cup Sched!Sleeping \cup {Cpu}
                     /\ pri' = [pri EXCEPT ![p] = 0]
                     /\ Cpu' \in {Cpu, Nil}
                     /\ ReadySeq' = ReadySeq /\ AsleepBy' = AsleepBy
    /\ \A v : Sched!Reprioritise(v)
                 <=> /\ Cpu # Nil
                     /\ pri' = [pri EXCEPT ![Cpu] = v]
                     /\ ReadySeq' = ReadySeq /\ AsleepBy' = AsleepBy /\ Cpu' = Cpu
    /\ Sched!Exit
          <=> /\ Cpu # Nil
              /\ Cpu' = Nil
              /\ ReadySeq' = ReadySeq /\ AsleepBy' = AsleepBy /\ pri' = pri
    /\ Sched!Dispatch
          <=> /\ Cpu = Nil
              /\ ReadySeq # <<>>
              /\ Sched!TakeHead(ReadySeq)
              /\ AsleepBy' = AsleepBy /\ pri' = pri
    /\ \A c : Sched!Sleep(c)
                 <=> /\ Cpu # Nil
                     /\ AsleepBy' = [AsleepBy EXCEPT ![c] = @ \cup {Cpu}]
                     /\ Sched!TakeHead(ReadySeq)
                     /\ pri' = pri
    /\ \A q : Sched!TakeHead(q)
                 <=> IF q = <<>> THEN Cpu' = Nil /\ ReadySeq' = q
                     ELSE Cpu' = Head(q) /\ ReadySeq' = Tail(q)
<1>1. Sched!vars = <<ReadySeq, AsleepBy, pri, Cpu>>
  BY DEF Sched!vars, AsleepBy, Cpu
<1>2. ASSUME NEW p
      PROVE  Sched!Create(p)
                 <=> /\ p \notin Sched!Queued \cup Sched!Sleeping \cup {Cpu}
                     /\ pri' = [pri EXCEPT ![p] = 0]
                     /\ ReadySeq' = Sched!Insert(ReadySeq, pri', p)
                     /\ Cpu' \in {Cpu, Nil}
                     /\ AsleepBy' = AsleepBy
  BY Zenon DEF Sched!Create, Sched!MayDie, AsleepBy, Cpu
<1>3. ASSUME NEW p
      PROVE  Sched!Reap(p)
                 <=> /\ p \notin Sched!Queued \cup Sched!Sleeping \cup {Cpu}
                     /\ pri' = [pri EXCEPT ![p] = 0]
                     /\ Cpu' \in {Cpu, Nil}
                     /\ ReadySeq' = ReadySeq /\ AsleepBy' = AsleepBy
  BY DEF Sched!Reap, Sched!MayDie, AsleepBy, Cpu
<1>4. ASSUME NEW v
      PROVE  Sched!Reprioritise(v)
                 <=> /\ Cpu # Nil
                     /\ pri' = [pri EXCEPT ![Cpu] = v]
                     /\ ReadySeq' = ReadySeq /\ AsleepBy' = AsleepBy /\ Cpu' = Cpu
  BY DEF Sched!Reprioritise, AsleepBy, Cpu
<1>5. Sched!Exit <=> /\ Cpu # Nil
                     /\ Cpu' = Nil
                     /\ ReadySeq' = ReadySeq /\ AsleepBy' = AsleepBy /\ pri' = pri
  BY DEF Sched!Exit, AsleepBy, Cpu
<1>6. Sched!Dispatch <=> /\ Cpu = Nil
                         /\ ReadySeq # <<>>
                         /\ Sched!TakeHead(ReadySeq)
                         /\ AsleepBy' = AsleepBy /\ pri' = pri
  BY DEF Sched!Dispatch, AsleepBy, Cpu
<1>7. ASSUME NEW c
      PROVE  Sched!Sleep(c)
                 <=> /\ Cpu # Nil
                     /\ AsleepBy' = [AsleepBy EXCEPT ![c] = @ \cup {Cpu}]
                     /\ Sched!TakeHead(ReadySeq)
                     /\ pri' = pri
  BY Zenon DEF Sched!Sleep, AsleepBy, Cpu
<1>8. ASSUME NEW q
      PROVE  Sched!TakeHead(q)
                 <=> IF q = <<>> THEN Cpu' = Nil /\ ReadySeq' = q
                     ELSE Cpu' = Head(q) /\ ReadySeq' = Tail(q)
  BY DEF Sched!TakeHead, Cpu
<1> QED
  BY <1>1, <1>2, <1>3, <1>4, <1>5, <1>6, <1>7, <1>8

(* An order in which the sleepers of c join the queue is one that PsaSched *)
(* may choose.                                                             *)
LEMMA WakeupIs ==
    ASSUME NEW c \in Chans, NEW W, W = AsleepBy[c], W # {},
           AsleepBy' = [AsleepBy EXCEPT ![c] = {}],
           NEW j, NEW f, NEW g, Requeued(W, ReadySeq, j, f, g, ReadySeq'),
           pri' = pri, Cpu' = Cpu
    PROVE  Sched!Wakeup(c)
<1>1. /\ j \in Nat /\ f \in [1..j -> W]
      /\ \A x, y \in 1..j : f[x] = f[y] => x = y
      /\ W = Members(j, f)
      /\ g = [i \in 0..j |-> g[i]]
      /\ g[0] = ReadySeq /\ g[j] = ReadySeq'
      /\ \A i \in 1..j : g[i] = Sched!Insert(g[i - 1], pri, f[i])
  BY DEF Requeued
<1>2. Cardinality(W) = j
  BY <1>1, MembersCount
<1> DEFINE Body(q) == [i \in 0..j |-> IF i = 0 THEN ReadySeq
                                      ELSE Sched!Insert(q[i - 1], pri, f[i])]
           F == CHOOSE q : q = Body(q)
<1>3. g = Body(g)
  <2>1. ASSUME NEW i \in 0..j PROVE g[i] = Body(g)[i]
    <3>1. CASE i = 0
      BY <1>1, <3>1
    <3>2. CASE i # 0
      <4>1. i \in 1..j
        BY <1>1, <3>2
      <4> QED
        BY <1>1, <3>2, <4>1
    <3> QED
      BY <3>1, <3>2
  <2>2. Body(g) = [i \in 0..j |-> Body(g)[i]]
    OBVIOUS
  <2> HIDE DEF Body
  <2> QED
    BY <1>1, <2>1, <2>2
<1>4. F = Body(F)
  <2> HIDE DEF Body
  <2> QED
    BY <1>3
<1> HIDE DEF F
<1>5. F[0] = g[0]
  <2>1. 0 \in 0..j
    BY <1>1
  <2>2. Body(F)[0] = ReadySeq
    BY <2>1
  <2> HIDE DEF Body
  <2> QED
    BY <1>1, <1>4, <2>2
<1>6. ASSUME NEW i \in 1..j, F[i - 1] = g[i - 1]
      PROVE  F[i] = g[i]
  <2>1. i \in 0..j /\ i # 0
    BY <1>1
  <2>2. Body(F)[i] = Sched!Insert(F[i - 1], pri, f[i])
    BY <2>1
  <2> HIDE DEF Body
  <2> QED
    BY <1>1, <1>4, <1>6, <2>2
<1>7. F[j] = g[j]
  <2> DEFINE S == {i \in 0..j : F[i] = g[i]}
  <2>1. 0 \in S
    BY <1>1, <1>5
  <2>2. ASSUME NEW i \in 0..(j - 1), i \in S
        PROVE  i + 1 \in S
    <3>1. i + 1 \in 1..j /\ (i + 1) - 1 = i /\ i + 1 \in 0..j
      BY <1>1
    <3>2. F[(i + 1) - 1] = g[(i + 1) - 1]
      BY <2>2, <3>1
    <3> QED
      BY <1>6, <3>1, <3>2
  <2>3. \A i \in 0..j : i \in S
    <3> HIDE DEF S
    <3>1. \A i \in 0..(j - 1) : i \in S => i + 1 \in S
      BY <2>2
    <3> QED
      BY <1>1, <2>1, <3>1, InductionUpTo
  <2> QED
    BY <1>1, <2>3
<1>8. /\ f \in {x \in [1..j -> AsleepBy[c]] : \A y, z \in 1..j : x[y] = x[z] => y = z}
      /\ ReadySeq' = F[j]
  BY <1>1, <1>7
<1>9. Sched!Cardinality(AsleepBy[c]) = j
  BY <1>2, SchedCardinality
<1> DEFINE P(n) ==
              /\ AsleepBy[c] # {}
              /\ AsleepBy' = [AsleepBy EXCEPT ![c] = {}]
              /\ \E order \in {x \in [1..n -> AsleepBy[c]] :
                                 \A y, z \in 1..n : x[y] = x[z] => y = z} :
                    ReadySeq' = (CHOOSE q : q = [i \in 0..n |->
                                    IF i = 0 THEN ReadySeq
                                    ELSE Sched!Insert(q[i - 1], pri, order[i])])[n]
              /\ pri' = pri /\ Cpu' = Cpu
<1>10. P(j)
  BY <1>8 DEF F
<1>11. Sched!Wakeup(c) <=> P(Sched!Cardinality(AsleepBy[c]))
  BY Zenon DEF Sched!Wakeup, AsleepBy, Cpu
<1> HIDE DEF P
<1> QED
  BY <1>9, <1>10, <1>11

(* Nothing that PsaSched speaks of changes. *)
Unseen == UNCHANGED <<ReadySeq, AsleepBy, pri, Cpu>>

(* The initial states, and each handler's step. *)
LEMMA SchedInit == Init => Sched!Init
<1> SUFFICES ASSUME Init PROVE Sched!Init
  OBVIOUS
<1>1. PICK n, s : Lists(n, s) /\ n = 1 /\ s = <<1>>
  BY ListsInit
<1>2. ReadySeq = <<1>> /\ 1 \in Slot
  BY <1>1, ReadyIs, BasicTypes
<1>3. AsleepBy = [c \in Chans |-> {}]
  BY DEF Init, AsleepBy
<1>4. pri = [p \in Slot |-> 0] /\ Cpu = Nil
  BY DEF Init, Cpu
<1>5. Sched!Init <=> /\ \E p \in Slot : ReadySeq = <<p>>
                     /\ AsleepBy = [c \in Chans |-> {}]
                     /\ pri = [p \in Slot |-> 0]
                     /\ Cpu = Nil
  BY DEF Sched!Init, AsleepBy, Cpu
<1> QED
  BY <1>2, <1>3, <1>4, <1>5

(* A running process that may die on the way out, and nothing else seen.   *)
LEMMA DiesUnseen ==
    ASSUME ~idle, current \in Slot, current' = current,
           ReadySeq' = ReadySeq, AsleepBy' = AsleepBy, pri' = pri
    PROVE  Sched!Exit \/ Unseen
<1>1. Cpu # Nil /\ Cpu' \in {Cpu, Nil}
  BY BasicTypes DEF Cpu
<1> QED
  BY <1>1, SchedActions DEF Unseen

(* fork creates a process; when it fails it is not seen, unless a signal   *)
(* ends the caller on the way out.                                         *)
LEMMA ForkSched ==
    ASSUME PsaInv, NEW n, NEW s, Lists(n, s),
           NEW child \in Slot, NEW d \in BOOLEAN, Fork(child, d)
    PROVE  Sched!Create(child) \/ Sched!Exit \/ Unseen
<1>1. /\ ~idle /\ pstate[child] = "UNUSED"
      /\ pri' = pri /\ wchan' = wchan /\ current' = current
  BY DEF Fork, First
<1>2. /\ current \in Slot /\ pstate[current] = "KERNEL_RUNNING"
      /\ pri \in [Slot -> Pris \cup {0}] /\ pri[child] = 0
  BY <1>1 DEF PsaInv, PsaTyped, CpuInv, FreeFresh
<1>3. PICK n2, s2 : /\ Lists(n2, s2)'
                    /\ \/ d /\ s2 = Sched!Insert(s, pri, child)
                       \/ ~d /\ s2 = s
  BY ForkLists
<1>4. AsleepBy' = AsleepBy
  <2>1. SameSleepers
    BY ForkLists
  <2> QED
    BY <1>1, <2>1, AsleepSame
<1>5. ReadySeq = s /\ ReadySeq' = s2
  BY <1>3, ReadyIs
<1>6. CASE d
  <2>1. child \notin Sched!Queued \cup Sched!Sleeping \cup {Cpu}
    <3>1. child \notin ReadySet(pstate)
      BY <1>1 DEF ReadySet
    <3>2. Cpu = current /\ child # current
      BY <1>1, <1>2 DEF Cpu
    <3> QED
      BY <1>1, <3>1, <3>2, PlacesIs
  <2>2. pri' = [pri EXCEPT ![child] = 0]
    BY <1>1, <1>2
  <2>3. Cpu' \in {Cpu, Nil}
    BY <1>1 DEF Cpu
  <2>4. ReadySeq' = Sched!Insert(ReadySeq, pri', child)
    BY <1>1, <1>3, <1>5, <1>6
  <2> QED
    BY <1>4, <2>1, <2>2, <2>3, <2>4, SchedActions
<1>7. CASE ~d
  <2>1. ReadySeq' = ReadySeq
    BY <1>3, <1>5, <1>7
  <2> QED
    BY <1>1, <1>2, <1>4, <2>1, DiesUnseen
<1> QED
  BY <1>6, <1>7

(* wait_pid reaps one. *)
LEMMA WaitPidSched ==
    ASSUME PsaInv, NEW n, NEW s, Lists(n, s), NEW child \in Slot, WaitPid(child)
    PROVE  Sched!Reap(child)
<1>1. /\ ~idle /\ pstate[child] = "ZOMBIE"
      /\ pri' = [pri EXCEPT ![child] = 0]
      /\ wchan' = [wchan EXCEPT ![child] = 0]
      /\ current' = current
  BY DEF WaitPid, DeadChild
<1>2. /\ current \in Slot /\ pstate[current] = "KERNEL_RUNNING"
      /\ wchan \in [Slot -> Chans \cup {0}]
  BY <1>1 DEF PsaInv, PsaTyped, CpuInv
<1>3. Lists(n, s)' /\ SameSleepers
  BY WaitPidLists
<1>4. \A p \in Slot : pstate[p] = "SLEEP_MEM" => wchan'[p] = wchan[p]
  BY <1>1, <1>2
<1>5. AsleepBy' = AsleepBy
  BY <1>3, <1>4, AsleepSame
<1>6. ReadySeq' = ReadySeq
  BY <1>3, ReadyIs
<1>7. child \notin Sched!Queued \cup Sched!Sleeping \cup {Cpu}
  <2>1. child \notin ReadySet(pstate)
    BY <1>1 DEF ReadySet
  <2>2. Cpu = current /\ child # current
    BY <1>1, <1>2 DEF Cpu
  <2> QED
    BY <1>1, <2>1, <2>2, PlacesIs
<1>8. Cpu' \in {Cpu, Nil}
  BY <1>1 DEF Cpu
<1> QED
  BY <1>1, <1>5, <1>6, <1>7, <1>8, SchedActions

(* The calls that change signals are not seen, unless one ends the         *)
(* caller.                                                                 *)
LEMMA SignalSched ==
    ASSUME ~SignalSleepers, PsaInv, NEW n, NEW s, Lists(n, s),
           \/ \E t \in Slot, g \in Sigs : SendSignal(t, g)
           \/ \E set \in SUBSET Sigs : SigProcMask(set)
           \/ SyscallReturn
    PROVE  Sched!Exit \/ Unseen
<1>1. /\ Lists(n, s)' /\ SameSleepers /\ ~idle
      /\ UNCHANGED <<pri, wchan, current>>
  BY SignalLists
<1>2. AsleepBy' = AsleepBy
  BY <1>1, AsleepSame
<1>3. ReadySeq' = ReadySeq
  BY <1>1, ReadyIs
<1>4. current \in Slot
  BY <1>1 DEF PsaInv, CpuInv
<1> QED
  BY <1>1, <1>2, <1>3, <1>4, DiesUnseen

(* exit. *)
LEMMA ExitSched ==
    ASSUME PsaInv, NEW n, NEW s, Lists(n, s), Exit
    PROVE  Sched!Exit
<1>1. /\ ~idle /\ idle' = TRUE /\ UNCHANGED <<pri, wchan, current>>
  BY DEF Exit
<1>2. Lists(n, s)' /\ SameSleepers
  BY ExitLists
<1>3. AsleepBy' = AsleepBy
  BY <1>1, <1>2, AsleepSame
<1>4. ReadySeq' = ReadySeq
  BY <1>2, ReadyIs
<1>5. Cpu # Nil /\ Cpu' = Nil
  BY <1>1, BasicTypes DEF PsaInv, CpuInv, Cpu
<1> QED
  BY <1>1, <1>3, <1>4, <1>5, SchedActions

(* A page fault of the running process changes its priority. *)
LEMMA ReprioritiseSched ==
    ASSUME PsaInv, NEW n, NEW s, Lists(n, s), NEW v \in Pris, Reprioritise(v)
    PROVE  Sched!Reprioritise(v)
<1>1. /\ ~idle /\ pri' = [pri EXCEPT ![current] = v]
      /\ UNCHANGED <<pstate, wchan, links, current, idle>>
  BY DEF Reprioritise
<1>2. Lists(n, s)'
  BY ReprioritiseLists
<1>3. AsleepBy' = AsleepBy
  BY <1>1 DEF AsleepBy
<1>4. ReadySeq' = ReadySeq
  BY <1>2, ReadyIs
<1>5. Cpu # Nil /\ Cpu' = Cpu /\ Cpu = current
  BY <1>1, BasicTypes DEF PsaInv, CpuInv, Cpu
<1> QED
  BY <1>1, <1>3, <1>4, <1>5, SchedActions

(* sleep gives the CPU to the head of the queue. *)
LEMMA SleepSched ==
    ASSUME PsaInv, NEW n, NEW s, Lists(n, s),
           NEW c \in Chans, NEW i \in BOOLEAN, Sleep(c, i)
    PROVE  Sched!Sleep(c)
<1>1. ~idle /\ pri' = pri
  BY DEF Sleep
<1>2. /\ \A p \in Slot :
            /\ pstate'[p] = "SLEEP_MEM" <=> pstate[p] = "SLEEP_MEM" \/ p = current
            /\ wchan'[p] = IF p = current THEN c ELSE wchan[p]
      /\ \/ n = 0 /\ idle' = TRUE /\ current' = current /\ Lists(n, s)'
         \/ /\ n > 0 /\ idle' = FALSE /\ current' = s[1]
            /\ Lists(n - 1, Dropped(s, n, 1))'
  BY SleepLists
<1>3. current \in Slot /\ pstate[current] = "KERNEL_RUNNING" /\ Cpu = current /\ Cpu # Nil
  BY <1>1, BasicTypes DEF PsaInv, CpuInv, Cpu
<1>4. ReadySeq = s /\ n \in Nat /\ s \in [1..n -> Slot]
  BY ReadyIs
<1>5. Sched!TakeHead(ReadySeq)
  <2>1. CASE n = 0 /\ idle' = TRUE /\ Lists(n, s)'
    <3>1. s = <<>> /\ ReadySeq' = s /\ Cpu' = Nil
      BY <1>4, <2>1, HeadAndRest, ReadyIs DEF Cpu
    <3> QED
      BY <1>4, <3>1, SchedActions
  <2>2. CASE /\ n > 0 /\ idle' = FALSE /\ current' = s[1]
             /\ Lists(n - 1, Dropped(s, n, 1))'
    <3>1. ReadySeq' = Dropped(s, n, 1)
      BY <2>2, ReadyIs
    <3>2. Cpu' = s[1]
      BY <2>2 DEF Cpu
    <3>3. s # <<>> /\ Head(s) = s[1] /\ Tail(s) = Dropped(s, n, 1)
      BY <1>4, <2>2, HeadAndRest
    <3> QED
      BY <1>4, <3>1, <3>2, <3>3, SchedActions
  <2> QED
    BY <1>2, <2>1, <2>2
<1>6. AsleepBy' = [AsleepBy EXCEPT ![c] = @ \cup {Cpu}]
  <2>1. ASSUME NEW e \in Chans
        PROVE  {p \in Slot : pstate'[p] = "SLEEP_MEM" /\ wchan'[p] = e}
                 = IF e = c
                   THEN {p \in Slot : pstate[p] = "SLEEP_MEM" /\ wchan[p] = e} \cup {current}
                   ELSE {p \in Slot : pstate[p] = "SLEEP_MEM" /\ wchan[p] = e}
    BY <1>2, <1>3
  <2>2. \A e \in Chans :
           /\ AsleepBy[e] = {p \in Slot : pstate[p] = "SLEEP_MEM" /\ wchan[p] = e}
           /\ AsleepBy'[e] = {p \in Slot : pstate'[p] = "SLEEP_MEM" /\ wchan'[p] = e}
    BY DEF AsleepBy
  <2>3. /\ AsleepBy = [e \in Chans |-> AsleepBy[e]]
        /\ AsleepBy' = [e \in Chans |-> AsleepBy'[e]]
    BY DEF AsleepBy
  <2>4. \A e \in Chans : AsleepBy'[e] = IF e = c THEN AsleepBy[e] \cup {current} ELSE AsleepBy[e]
    BY <2>1, <2>2
  <2> QED
    BY <1>3, <2>3, <2>4
<1> QED
  BY <1>1, <1>3, <1>5, <1>6, SchedActions

(* wakeup empties one channel. *)
LEMMA WakeupSched ==
    ASSUME PsaInv, NEW n, NEW s, Lists(n, s), NEW c \in Chans, Wakeup(c)
    PROVE  Sched!Wakeup(c)
<1>1. pri' = pri /\ current' = current /\ idle' = idle
  BY DEF Wakeup
<1>2. PICK n2, s2 : /\ Lists(n2, s2)'
                    /\ \E j, f, q : Requeued(AsleepOn(c), s, j, f, q, s2)
  BY WakeupLists
<1>3. /\ AsleepOn(c) # {}
      /\ \A p \in Slot : /\ pstate'[p] = IF p \in AsleepOn(c) THEN "READY"
                                         ELSE pstate[p]
                         /\ wchan'[p] = IF p \in AsleepOn(c) THEN 0 ELSE wchan[p]
  BY WakeupLists
<1>4. ReadySeq = s /\ ReadySeq' = s2
  BY <1>2, ReadyIs
<1>5. AsleepBy[c] = AsleepOn(c)
  BY DEF AsleepBy, AsleepOn
<1>6. AsleepBy' = [AsleepBy EXCEPT ![c] = {}]
  <2>1. \A p \in Slot : p \in AsleepOn(c) <=> pstate[p] = "SLEEP_MEM" /\ wchan[p] = c
    BY DEF AsleepOn
  <2>2. ASSUME NEW e \in Chans
        PROVE  {p \in Slot : pstate'[p] = "SLEEP_MEM" /\ wchan'[p] = e}
                 = IF e = c THEN {}
                   ELSE {p \in Slot : pstate[p] = "SLEEP_MEM" /\ wchan[p] = e}
    BY <1>3, <2>1
  <2>3. \A e \in Chans :
           /\ AsleepBy[e] = {p \in Slot : pstate[p] = "SLEEP_MEM" /\ wchan[p] = e}
           /\ AsleepBy'[e] = {p \in Slot : pstate'[p] = "SLEEP_MEM" /\ wchan'[p] = e}
    BY DEF AsleepBy
  <2>4. /\ AsleepBy = [e \in Chans |-> AsleepBy[e]]
        /\ AsleepBy' = [e \in Chans |-> AsleepBy'[e]]
    BY DEF AsleepBy
  <2>5. \A e \in Chans : AsleepBy'[e] = IF e = c THEN {} ELSE AsleepBy[e]
    BY <2>2, <2>3
  <2> QED
    BY <2>4, <2>5
<1>7. Cpu' = Cpu
  BY <1>1 DEF Cpu
<1>8. PICK j, f, q : Requeued(AsleepOn(c), ReadySeq, j, f, q, ReadySeq')
  BY <1>2, <1>4
<1> QED
  BY <1>1, <1>3, <1>5, <1>6, <1>7, <1>8, WakeupIs

(* An idle CPU takes the head. *)
LEMMA DispatchSched ==
    ASSUME PsaInv, NEW n, NEW s, Lists(n, s), Dispatch
    PROVE  Sched!Dispatch
<1>1. idle /\ idle' = FALSE /\ pri' = pri /\ wchan' = wchan
  BY DEF Dispatch
<1>2. /\ n > 0 /\ current' = s[1] /\ Lists(n - 1, Dropped(s, n, 1))'
      /\ SameSleepers
  BY DispatchLists
<1>3. ReadySeq = s /\ n \in Nat /\ s \in [1..n -> Slot] /\ ReadySeq' = Dropped(s, n, 1)
  BY <1>2, ReadyIs
<1>4. s # <<>> /\ Head(s) = s[1] /\ Tail(s) = Dropped(s, n, 1)
  BY <1>2, <1>3, HeadAndRest
<1>5. Cpu = Nil /\ Cpu' = s[1]
  BY <1>1, <1>2 DEF Cpu
<1>6. AsleepBy' = AsleepBy
  BY <1>1, <1>2, AsleepSame
<1>7. Sched!TakeHead(ReadySeq)
  BY <1>3, <1>4, <1>5, SchedActions
<1> QED
  BY <1>1, <1>3, <1>4, <1>5, <1>6, <1>7, SchedActions

(* Every step of the layer is one of PsaSched, or one that it cannot see.  *)
LEMMA SchedStep ==
    ASSUME ~SignalSleepers, ListInv, [Next]_vars
    PROVE  [Sched!Next]_(Sched!vars)
<1>1. PICK n, s : PsaInv /\ Lists(n, s)
  BY DEF ListInv
<1>2. Unseen => UNCHANGED Sched!vars
  BY SchedActions DEF Unseen, Sched!vars, AsleepBy, Cpu
<1>3. ASSUME NEW child \in Slot, NEW d \in BOOLEAN, Fork(child, d)
      PROVE  Sched!Next \/ Unseen
  BY <1>1, <1>3, ForkSched DEF Sched!Next
<1>4. CASE Exit
  BY <1>1, <1>4, ExitSched DEF Sched!Next
<1>5. ASSUME NEW child \in Slot, WaitPid(child)
      PROVE  Sched!Next
  BY <1>1, <1>5, WaitPidSched DEF Sched!Next
<1>6. CASE \/ \E t \in Slot, g \in Sigs : SendSignal(t, g)
           \/ \E set \in SUBSET Sigs : SigProcMask(set)
           \/ SyscallReturn
  BY <1>1, <1>2, <1>6, SignalSched DEF Sched!Next
<1>7. ASSUME NEW c \in Chans, NEW i \in BOOLEAN, Sleep(c, i)
      PROVE  Sched!Next
  BY <1>1, <1>7, SleepSched DEF Sched!Next
<1>8. ASSUME NEW c \in Chans, Wakeup(c)
      PROVE  Sched!Next
  BY <1>1, <1>8, WakeupSched DEF Sched!Next
<1>9. ASSUME NEW v \in Pris, Reprioritise(v)
      PROVE  Sched!Next
  BY <1>1, <1>9, ReprioritiseSched DEF Sched!Next
<1>10. CASE Dispatch
  BY <1>1, <1>10, DispatchSched DEF Sched!Next
<1>11. CASE UNCHANGED vars
  BY <1>11 DEF vars, Sched!vars, ReadySeq, Walk
<1> QED
  BY <1>2, <1>3, <1>4, <1>5, <1>6, <1>7, <1>8, <1>9, <1>10, <1>11 DEF Next

(* The process layer implements the scheduler of PsaSched: the links and   *)
(* the table keep its promises, while no signal is sent to a sleeper.      *)
THEOREM ImplementsScheduler == ASSUME ~SignalSleepers PROVE Spec => Implements
<1>1. Init => Sched!Init
  BY SchedInit
<1>2. ListInv /\ [Next]_vars => [Sched!Next]_(Sched!vars)
  BY SchedStep
<1> QED
  BY <1>1, <1>2, ListInvariant, PTL DEF Spec, Implements, Sched!Spec
=============================================================================
