------------------------------ MODULE PsaProc ------------------------------
(***************************************************************************)
(* The process layer 30_KIX/33_PCS/40_psa and the process system calls of  *)
(* 50_scpcs, down to the pointers: one pair of links per table entry,      *)
(* shared by the ready queue and the sleep hash.                           *)
(*                                                                         *)
(* The kernel is not preempted (splhigh and splx are empty and one CPU     *)
(* runs), so a handler is one step that ends where it gives the CPU away.  *)
(* The register switch is left to the arch layer, which leaves it out: the *)
(* sleeping process records its successor in current_proc, and when there  *)
(* is none (or a process has exited) the CPU is idle until Dispatch takes  *)
(* the head of the ready queue, as the comment on sched_pick asks of it.   *)
(* Nothing preempts a running process: the clock only feeds the second run *)
(* queue of 01_schedular, on which nothing is ever put.                    *)
(***************************************************************************)
EXTENDS Integers, FiniteSets

CONSTANTS NPROC,           \* entries of the process table, and PID bound
          HashSz,          \* buckets of the sleep hash
          Chans,           \* wait channels, as (address >> 2)
          Pris,            \* values recalculate_priority can produce
          Sigs,            \* signal numbers in use
          Fatal,           \* those whose default action ends the process
          SignalSleepers   \* whether signals are sent to sleeping processes

ASSUME ParamAssumption ==
    /\ NPROC \in Nat \ {0} /\ HashSz \in Nat \ {0}
    /\ Chans \subseteq Nat \ {0}
    /\ Pris \subseteq Int
    /\ Sigs \subseteq Nat \ {0} /\ Fatal \subseteq Sigs
    /\ SignalSleepers \in BOOLEAN

VARIABLES pstate,   \* p_state
          pid,      \* p_pid
          ppid,     \* p_ppid
          pri,      \* p_sched.p_pri, lower is better
          wchan,    \* p_wchan, 0 when awake
          sig,      \* p_sig, the pending signals
          mask,     \* p_sigmask
          links,    \* p_next, p_prev, s_runq_head and the sleep hash
          current,  \* uiox_kix_psa_current_proc
          nextPid,  \* s_next_pid
          resched,  \* uiox_kix_psa_scheduler_flag
          idle      \* the CPU runs nobody (arch layer)

entries == <<pid, ppid, sig, mask>>
vars == <<pstate, pid, ppid, pri, wchan, sig, mask, links, current, nextPid,
          resched, idle>>

Nil    == 0
Slot   == 1..NPROC
Ptr    == 0..NPROC
Bucket == 0..(HashSz - 1)

----------------------------------------------------------------------------
(* The closed transition table of proc_set_state. *)
Running == {"KERNEL_RUNNING", "USER_RUNNING"}

PState == {"UNUSED", "CREATED", "USER_RUNNING", "KERNEL_RUNNING", "READY",
           "SLEEP_MEM", "READY_SWAPPED", "SLEEP_SWAPPED", "PREEMPTED",
           "ZOMBIE"}

Successors ==
    [UNUSED         |-> {"CREATED"},
     CREATED        |-> {"READY", "READY_SWAPPED"},
     USER_RUNNING   |-> {"KERNEL_RUNNING", "PREEMPTED"},
     KERNEL_RUNNING |-> {"USER_RUNNING", "PREEMPTED", "ZOMBIE", "SLEEP_MEM",
                         "READY"},
     READY          |-> {"KERNEL_RUNNING", "SLEEP_MEM", "READY_SWAPPED"},
     SLEEP_MEM      |-> {"READY", "SLEEP_SWAPPED"},
     READY_SWAPPED  |-> {"READY", "READY_SWAPPED"},
     SLEEP_SWAPPED  |-> {"SLEEP_MEM", "READY_SWAPPED"},
     PREEMPTED      |-> {"USER_RUNNING", "READY"},
     ZOMBIE         |-> {}]

(* Mutants: a state that callers need is missing from the table. *)
SetStateNoSleep(old, new) ==
    IF new \in Successors[old] \ {"SLEEP_MEM"} THEN new ELSE old
SetStateNoRun(old, new) ==
    IF new \in Successors[old] \ {"KERNEL_RUNNING"} THEN new ELSE old

(* A refused transition changes nothing. *)
SetState(old, new) == IF new \in Successors[old] THEN new ELSE old

----------------------------------------------------------------------------
(* The linked lists. *)

(* The pointer l.next followed i times from h. *)
Walk(l, h) ==
    LET w[i \in 0..NPROC] == IF i = 0 THEN h
                             ELSE IF w[i - 1] = Nil THEN Nil
                             ELSE l.next[w[i - 1]]
    IN  w

(* "if (q) q->field = v" *)
Put(f, q, v) == IF q = Nil THEN f ELSE [f EXCEPT ![q] = v]

(* Mutant: among equals the newcomer goes first. *)
EnqueueBeforeEquals(l, pr, p) ==
    LET w    == Walk(l, l.runq)
        n    == CHOOSE n \in 0..NPROC :
                    /\ \A i \in 0..(n - 1) : w[i] # Nil /\ pr[w[i]] < pr[p]
                    /\ w[n] = Nil \/ pr[w[n]] >= pr[p]
        prev == IF n = 0 THEN Nil ELSE w[n - 1]
    IN  [l EXCEPT !.next = Put([@ EXCEPT ![p] = w[n]], prev, p),
                  !.prev = Put([@ EXCEPT ![p] = prev], w[n], p),
                  !.runq = IF prev = Nil THEN p ELSE @]

(* uiox_kix_psa_sched_enqueue: behind every entry that p does not outrank. *)
SchedEnqueue(l, pr, p) ==
    LET w    == Walk(l, l.runq)
        n    == CHOOSE n \in 0..NPROC :
                    /\ \A i \in 0..(n - 1) : w[i] # Nil /\ pr[w[i]] <= pr[p]
                    /\ w[n] = Nil \/ pr[w[n]] > pr[p]
        prev == IF n = 0 THEN Nil ELSE w[n - 1]
    IN  [l EXCEPT !.next = Put([@ EXCEPT ![p] = w[n]], prev, p),
                  !.prev = Put([@ EXCEPT ![p] = prev], w[n], p),
                  !.runq = IF prev = Nil THEN p ELSE @]

(* Mutant: the entry behind p keeps its link to p. *)
DequeueKeepsPrev(l, p) ==
    [l EXCEPT !.next = [Put(@, l.prev[p], l.next[p]) EXCEPT ![p] = Nil],
              !.prev = [@ EXCEPT ![p] = Nil],
              !.runq = IF l.prev[p] = Nil THEN l.next[p] ELSE @]

(* uiox_kix_psa_sched_dequeue *)
SchedDequeue(l, p) ==
    LET n == l.next[p]
        b == l.prev[p]
    IN  [l EXCEPT !.next = [Put(@, b, n) EXCEPT ![p] = Nil],
                  !.prev = [Put(@, n, b) EXCEPT ![p] = Nil],
                  !.runq = IF b = Nil THEN n ELSE @]

HashSlot(c) == c % HashSz

(* sleep_enqueue: at the head of the bucket. *)
SleepEnqueue(l, p, c) ==
    LET h == l.head[HashSlot(c)]
    IN  [l EXCEPT !.next[p] = h,
                  !.prev = Put([@ EXCEPT ![p] = Nil], h, p),
                  !.head[HashSlot(c)] = p,
                  !.tail[HashSlot(c)] = IF h = Nil THEN p ELSE @]

(* Mutant: the tail goes stale when the last entry leaves. *)
DequeueKeepsTail(l, p, c) ==
    LET n == l.next[p]
        b == l.prev[p]
    IN  [l EXCEPT !.next = [Put(@, b, n) EXCEPT ![p] = Nil],
                  !.prev = [Put(@, n, b) EXCEPT ![p] = Nil],
                  !.head[HashSlot(c)] = IF b = Nil THEN n ELSE @]

(* sleep_dequeue *)
SleepDequeue(l, p, c) ==
    LET n == l.next[p]
        b == l.prev[p]
    IN  [l EXCEPT !.next = [Put(@, b, n) EXCEPT ![p] = Nil],
                  !.prev = [Put(@, n, b) EXCEPT ![p] = Nil],
                  !.head[HashSlot(c)] = IF b = Nil THEN n ELSE @,
                  !.tail[HashSlot(c)] = IF n = Nil THEN b ELSE @]

(* The loop of proc_wakeup over the bucket of c: where the cursor is, the  *)
(* links, and who has been woken. The next entry is read before the unlink *)
(* and only an entry that became READY is put on the ready queue.          *)
WakeState(s) == CASE s = "SLEEP_MEM"     -> SetState(s, "READY")
                  [] s = "SLEEP_SWAPPED" -> SetState(s, "READY_SWAPPED")
                  [] OTHER               -> s

WakeScan(c) ==
    LET visit(r) ==
            LET p == r.at
                off == SleepDequeue(r.l, p, c)
            IN  IF wchan[p] # c \/ p \in r.woken
                THEN [r EXCEPT !.at = r.l.next[p]]
                ELSE [at    |-> r.l.next[p],
                      woken |-> r.woken \cup {p},
                      l     |-> IF WakeState(pstate[p]) = "READY"
                                THEN SchedEnqueue(off, pri, p)
                                ELSE off]
        scan[i \in 0..NPROC] ==
            IF i = 0
            THEN [at |-> links.head[HashSlot(c)], woken |-> {}, l |-> links]
            ELSE IF scan[i - 1].at = Nil THEN scan[i - 1] ELSE visit(scan[i - 1])
    IN  scan[NPROC]

----------------------------------------------------------------------------
NoLinks == [next |-> [p \in Slot |-> Nil], prev |-> [p \in Slot |-> Nil],
            runq |-> Nil,
            head |-> [b \in Bucket |-> Nil], tail |-> [b \in Bucket |-> Nil]]

(* uiox_pcs_init: PID 1 is the first entry, READY and queued. *)
Init == /\ pstate = [p \in Slot |-> IF p = 1 THEN "READY" ELSE "UNUSED"]
        /\ pid = [p \in Slot |-> IF p = 1 THEN 1 ELSE 0]
        /\ ppid = [p \in Slot |-> 0]
        /\ pri = [p \in Slot |-> 0]
        /\ wchan = [p \in Slot |-> 0]
        /\ sig = [p \in Slot |-> {}]
        /\ mask = [p \in Slot |-> {}]
        /\ links = SchedEnqueue(NoLinks, [p \in Slot |-> 0], 1)
        /\ current = Nil
        /\ nextPid = 2
        /\ resched = FALSE
        /\ idle = TRUE

First(p, S) == p \in S /\ \A q \in S : p <= q

(* proc_find: the first entry in use that has the PID. *)
Found(p, n) == First(p, {q \in Slot : pstate[q] # "UNUSED" /\ pid[q] = n})

Deliverable(sg, mk) == sg[current] \ mk[current]

(* signal_run on the way out of a system call: one signal, the lowest      *)
(* deliverable one (issig), is taken (psig). Whether its disposition, which*)
(* the u area keeps, is the default one is left open.                      *)
SignalRun(ps, sg, mk) ==
    LET due == Deliverable(sg, mk)
    IN  \/ /\ due = {}
           /\ pstate' = ps
           /\ sig' = sg
           /\ idle' = FALSE
        \/ \E s \in due :
           /\ First(s, due)
           /\ sig' = [sg EXCEPT ![current] = @ \ {s}]
           /\ \/ /\ pstate' = ps
                 /\ idle' = FALSE
              \/ /\ s \in Fatal
                 /\ pstate' = [ps EXCEPT ![current] = SetState(@, "ZOMBIE")]
                 /\ idle' = TRUE

(* s_next_pid after a PID n has been given out. *)
NeverWraps(n) == n   \* mutant
WrapPid(n) == IF n >= NPROC THEN 2 ELSE n

(* uiox_kix_scpcs_fork. proc_alloc takes the first free entry and the next *)
(* PID; a fork that fails to duplicate its regions gives the entry back    *)
(* but not the PID.                                                        *)
Fork(child, duplicated) ==
    LET n == nextPid + 1
    IN  /\ ~idle
        /\ First(child, {p \in Slot : pstate[p] = "UNUSED"})
        /\ nextPid' = WrapPid(n)
        /\ \/ /\ duplicated
              /\ pid' = [pid EXCEPT ![child] = n]
              /\ ppid' = [ppid EXCEPT ![child] = pid[current]]
              /\ links' = SchedEnqueue(links, pri, child)
              /\ SignalRun([pstate EXCEPT ![child] =
                               SetState(SetState(@, "CREATED"), "READY")],
                           sig, mask)
           \/ /\ ~duplicated
              /\ SignalRun(pstate, sig, mask)
              /\ UNCHANGED <<pid, ppid, links>>
        /\ UNCHANGED <<pri, wchan, mask, current, resched>>

(* uiox_kix_scpcs_exit, after which the process is not resumed. *)
Exit == /\ ~idle
        /\ pstate' = [pstate EXCEPT ![current] = SetState(@, "ZOMBIE")]
        /\ idle' = TRUE
        /\ UNCHANGED <<entries, pri, wchan, links, current, nextPid, resched>>

(* The child that wait_pid finds by its PID: a dead one of its own. *)
AnyChild(child) ==   \* mutant: its state is not looked at
    Found(child, pid[child]) /\ ppid[child] = pid[current]

DeadChild(child) == /\ Found(child, pid[child])
                    /\ pstate[child] = "ZOMBIE"
                    /\ ppid[child] = pid[current]

(* uiox_kix_scpcs_wait_pid: it does not wait; proc_free clears the entry. *)
WaitPid(child) ==
    /\ ~idle
    /\ DeadChild(child)
    /\ pid' = [pid EXCEPT ![child] = 0]
    /\ ppid' = [ppid EXCEPT ![child] = 0]
    /\ pri' = [pri EXCEPT ![child] = 0]
    /\ wchan' = [wchan EXCEPT ![child] = 0]
    /\ mask' = [mask EXCEPT ![child] = {}]
    /\ links' = [links EXCEPT !.next[child] = Nil, !.prev[child] = Nil]
    /\ SignalRun([pstate EXCEPT ![child] = "UNUSED"],
                 [sig EXCEPT ![child] = {}], mask')
    /\ UNCHANGED <<current, nextPid, resched>>

(* uiox_kix_scpcs_kill and _raise, through send_signal. *)
SendSignal(t, s) ==
    /\ ~idle
    /\ t = current \/ Found(t, pid[t])
    /\ pstate[t] = "SLEEP_MEM" => SignalSleepers
    /\ links' = IF pstate[t] = "SLEEP_MEM" THEN SchedEnqueue(links, pri, t)
                ELSE links
    /\ SignalRun(pstate, [sig EXCEPT ![t] = @ \cup {s}], mask)
    /\ UNCHANGED <<pid, ppid, pri, wchan, mask, current, nextPid, resched>>

(* uiox_kix_scpcs_sig_procmask *)
SigProcMask(set) ==
    /\ ~idle
    /\ mask' = [mask EXCEPT ![current] = set]
    /\ SignalRun(pstate, sig, mask')
    /\ UNCHANGED <<pid, ppid, pri, wchan, links, current, nextPid, resched>>

(* The return of a system call that did none of the above. *)
SyscallReturn ==
    /\ ~idle
    /\ Deliverable(sig, mask) # {}
    /\ SignalRun(pstate, sig, mask)
    /\ UNCHANGED <<pid, ppid, pri, wchan, mask, links, current, nextPid,
                   resched>>

(* uiox_kix_psa_proc_sleep. An interruptible sleeper with a deliverable    *)
(* signal does not sleep at all; otherwise the head of the ready queue, if *)
(* there is one, becomes the current process.                              *)
Sleep(c, interruptible) ==
    LET asleep == [pstate EXCEPT ![current] = SetState(@, "SLEEP_MEM")]
        l      == SleepEnqueue(links, current, c)
        next   == l.runq
        taken  == next # Nil /\ next # current
    IN  /\ ~idle
        /\ interruptible => Deliverable(sig, mask) = {}
        /\ wchan' = [wchan EXCEPT ![current] = c]
        /\ IF taken
           THEN /\ pstate' = [asleep EXCEPT ![next] =
                                 SetState(@, "KERNEL_RUNNING")]
                /\ links' = SchedDequeue(l, next)
                /\ current' = next
           ELSE /\ pstate' = asleep
                /\ links' = l
                /\ UNCHANGED current
        /\ idle' = ~taken
        /\ UNCHANGED <<entries, pri, nextPid, resched>>

(* uiox_kix_psa_proc_wakeup, which the running process calls (ipc_wakeup). *)
Wakeup(c) ==
    LET scan == WakeScan(c)
    IN  /\ ~idle
        /\ scan.woken # {}
        /\ pstate' = [p \in Slot |-> IF p \in scan.woken THEN WakeState(pstate[p])
                                     ELSE pstate[p]]
        /\ wchan' = [p \in Slot |-> IF p \in scan.woken THEN 0 ELSE wchan[p]]
        /\ links' = scan.l
        /\ resched' = (resched \/ \E p \in scan.woken : pri[p] < pri[current])
        /\ UNCHANGED <<entries, pri, current, nextPid, idle>>

(* recalculate_priority, at the end of the running process's page fault. *)
Reprioritise(v) ==
    /\ ~idle
    /\ pri' = [pri EXCEPT ![current] = v]
    /\ UNCHANGED <<pstate, entries, wchan, links, current, nextPid, resched,
                   idle>>

(* The arch layer's part: an idle CPU takes what sched_pick returns. *)
Dispatch ==
    LET p == links.runq
    IN  /\ idle
        /\ p # Nil
        /\ pstate' = [pstate EXCEPT ![p] = SetState(@, "KERNEL_RUNNING")]
        /\ links' = SchedDequeue(links, p)
        /\ current' = p
        /\ idle' = FALSE
        /\ UNCHANGED <<entries, pri, wchan, nextPid, resched>>

Next == \/ \E child \in Slot, d \in BOOLEAN : Fork(child, d)
        \/ Exit
        \/ \E child \in Slot : WaitPid(child)
        \/ \E t \in Slot, s \in Sigs : SendSignal(t, s)
        \/ \E set \in SUBSET Sigs : SigProcMask(set)
        \/ SyscallReturn
        \/ \E c \in Chans, i \in BOOLEAN : Sleep(c, i)
        \/ \E c \in Chans : Wakeup(c)
        \/ \E v \in Pris : Reprioritise(v)
        \/ Dispatch

Spec == Init /\ [][Next]_vars

----------------------------------------------------------------------------
(* Type invariant. *)
TypeOK ==
    /\ pstate \in [Slot -> PState]
    /\ pid \in [Slot -> 0..NPROC]
    /\ ppid \in [Slot -> 0..NPROC]
    /\ pri \in [Slot -> Pris \cup {0}]
    /\ wchan \in [Slot -> Chans \cup {0}]
    /\ sig \in [Slot -> SUBSET Sigs]
    /\ mask \in [Slot -> SUBSET Sigs]
    /\ links \in [next : [Slot -> Ptr], prev : [Slot -> Ptr], runq : Ptr,
                  head : [Bucket -> Ptr], tail : [Bucket -> Ptr]]
    /\ current \in Ptr
    /\ nextPid \in 2..NPROC
    /\ resched \in BOOLEAN
    /\ idle \in BOOLEAN

(* The list that starts at h is finite, doubly linked and has exactly the  *)
(* entries of S, each once.                                                *)
ListOf(S, h) ==
    LET w == Walk(links, h)
        n == Cardinality(S)
    IN  /\ {w[i] : i \in 0..(n - 1)} = S
        /\ w[n] = Nil
        /\ h # Nil => links.prev[h] = Nil
        /\ \A p \in S : links.next[p] # Nil => links.prev[links.next[p]] = p

(* process.c:258: the ready queue holds the READY processes, all of them,  *)
(* each once, in priority order, although the sleep hash uses the same two *)
(* link fields.                                                            *)
ReadyQueueExact ==
    /\ ListOf({p \in Slot : pstate[p] = "READY"}, links.runq)
    /\ \A p \in Slot : pstate[p] = "READY" /\ links.next[p] # Nil
                          => pri[p] <= pri[links.next[p]]

(* sleep_wakeup.c:21: the bucket of a channel holds exactly the processes  *)
(* asleep on a channel that hashes there, and its tail is its last entry.  *)
SleepQueuesExact ==
    \A b \in Bucket :
        LET S == {p \in Slot : /\ pstate[p] = "SLEEP_MEM"
                               /\ HashSlot(wchan[p]) = b}
        IN  /\ ListOf(S, links.head[b])
            /\ links.tail[b] = IF S = {} THEN Nil
                               ELSE CHOOSE p \in S : links.next[p] = Nil

(* No handler leaves a process in a running state without the CPU: two     *)
(* processes are never both running, whatever became of the queues.        *)
RunnerHasCpu == \A p \in Slot :
                    pstate[p] \in Running => ~idle /\ p = current

(* The process that is given the CPU is in a running state: set_state never*)
(* refuses the transition whose result its callers discard.                *)
CpuHasRunner == ~idle => pstate[current] \in Running

(* process.c:216: nothing leaves ZOMBIE except proc_free, and no entry is  *)
(* given to another process except through ZOMBIE: a wakeup or a signal    *)
(* that comes late cannot revive an entry, and fork cannot take over one.  *)
DeadStayDead ==
    [][\A p \in Slot :
          /\ pstate[p] = "ZOMBIE" => pstate'[p] \in {"ZOMBIE", "UNUSED"}
          /\ pid'[p] # pid[p] => pstate[p] \in {"ZOMBIE", "UNUSED"}]_vars

(* process.c:266 and send_signal.c:36: "the ready queue means 'resident    *)
(* and runnable'".                                                         *)
QueuedAreReady == \A i \in 0..NPROC :
                     LET p == Walk(links, links.runq)[i]
                     IN  p # Nil => pstate[p] = "READY"

(* The layer implements the scheduler of PsaSched. *)
ReadySeq == LET n == Cardinality({p \in Slot : pstate[p] = "READY"})
            IN  [i \in 1..n |-> Walk(links, links.runq)[i - 1]]

Sched == INSTANCE PsaSched WITH
             Proc   <- Slot,
             Chan   <- Chans,
             NoProc <- Nil,
             ready  <- ReadySeq,
             asleep <- [c \in Chans |-> {p \in Slot : pstate[p] = "SLEEP_MEM"
                                                      /\ wchan[p] = c}],
             prio   <- pri,
             cpu    <- IF idle THEN Nil ELSE current

Implements == Sched!Spec
=============================================================================
