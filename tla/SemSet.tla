------------------------------- MODULE SemSet -------------------------------
(***************************************************************************)
(* One slot of the semaphore set table, 33_PCS/00_IPC/src/uiox_kix_sem.c,  *)
(* and the processes that use it. sem_op is followed operation by          *)
(* operation: it is not preempted, so `cpu' names the process inside it,   *)
(* until it returns or sleeps.                                             *)
(*                                                                         *)
(* The processes are scheduled as PsaSched says: a wakeup makes every      *)
(* sleeper of the channel runnable, a runnable process resumes when the CPU*)
(* is free, in any order. The two channels of a semaphore, INCR and ZERO,  *)
(* are the same address (uiox_kix_ipc_types.h:120), so a wakeup reaches    *)
(* both kinds of waiter. Signals are posted to processes that are awake: a *)
(* signal to a sleeper breaks the sleep queue itself (PsaProc). wait_incr  *)
(* and wait_zero, which the code keeps and never reads, are left out.      *)
(***************************************************************************)
EXTENDS Integers, Sequences, FiniteSets

CONSTANTS Proc,          \* processes
          NoProc,        \* none of them
          IPC_MAX_SEMS,  \* semaphores of a set
          Arrays,        \* the operation arrays processes pass to sem_op
          CtlVals,       \* values SETVAL and SETALL are given
          ValBound,      \* calls start only while no value is above it
          Signals        \* whether signals are posted

Sem == 0..(IPC_MAX_SEMS - 1)

Op == [num : Sem, op : Int, nowait : BOOLEAN]

ASSUME ParamAssumption ==
    /\ NoProc \notin Proc
    /\ IPC_MAX_SEMS \in Nat
    /\ Arrays \subseteq Seq(Op) \ {<<>>}
    /\ CtlVals \subseteq Int
    /\ ValBound \in Nat
    /\ Signals \in BOOLEAN

VARIABLES nsems,     \* 0 when the slot is not active
          val,       \* sems[s].val
          at,        \* at[p]: where p is in sem_op
          ops,       \* ops[p]: its operation array, <<>> outside sem_op
          ip,        \* ip[p]: the operation it is at
          rp,        \* rp[p]: the operations it has yet to reverse
          cpu,       \* the process inside sem_op, or NoProc
          pend,      \* pend[p]: p has a deliverable signal
          start      \* history: val when cpu's pass over its array began

set  == <<nsems, val>>
call == <<ops, ip, rp>>
vars == <<nsems, val, at, ops, ip, rp, cpu, pend, start>>

At == {"user", "apply", "reverse", "asleep", "woken"}

Zeros == [s \in Sem |-> 0]

Init == /\ nsems = 0
        /\ val = Zeros
        /\ at = [p \in Proc |-> "user"]
        /\ ops = [p \in Proc |-> <<>>]
        /\ ip = [p \in Proc |-> 1]
        /\ rp = [p \in Proc |-> 0]
        /\ cpu = NoProc
        /\ pend = [p \in Proc |-> FALSE]
        /\ start = Zeros

----------------------------------------------------------------------------
(* The operation p is at, and whether all its operations name semaphores   *)
(* of the set, which is checked on every pass.                             *)
Cur(p) == ops[p][ip[p]]

Valid(a) == \A k \in DOMAIN a : a[k].num < nsems

(* What the first n operations of a add to the value of s. *)
Net(a, n, s) ==
    LET sum[i \in 0..Len(a)] ==
            IF i = 0 THEN 0
            ELSE sum[i - 1] + IF a[i].num = s THEN a[i].op ELSE 0
    IN  sum[n]

(* ipc_wakeup on the semaphores of S. *)
Waked(S) == [q \in Proc |-> IF at[q] = "asleep" /\ Cur(q).num \in S
                            THEN "woken" ELSE at[q]]

(* Back to user mode, where signal_run takes the pending signal. *)
Return(p) == /\ at' = [at EXCEPT ![p] = "user"]
             /\ pend' = [pend EXCEPT ![p] = FALSE]
             /\ cpu' = NoProc
             /\ start' = Zeros
             /\ ops' = [ops EXCEPT ![p] = <<>>]
             /\ ip' = [ip EXCEPT ![p] = 1]

(* "restart:" *)
Restart(p) == IF Valid(ops[p])
              THEN /\ at' = [at EXCEPT ![p] = "apply"]
                   /\ ip' = [ip EXCEPT ![p] = 1]
                   /\ cpu' = p
                   /\ start' = val
                   /\ UNCHANGED <<ops, pend>>
              ELSE Return(p)

(* Entry to uiox_kix_sem_op on an active set with valid semaphore numbers. *)
SemOp(p, a) ==
    /\ cpu = NoProc
    /\ at[p] = "user"
    /\ nsems > 0
    /\ Valid(a)
    /\ \A s \in Sem : val[s] <= ValBound
    /\ at' = [at EXCEPT ![p] = "apply"]
    /\ ops' = [ops EXCEPT ![p] = a]
    /\ ip' = [ip EXCEPT ![p] = 1]
    /\ cpu' = p
    /\ start' = val
    /\ UNCHANGED <<set, rp, pend>>

AtOp(p) == cpu = p /\ at[p] = "apply" /\ ip[p] <= Len(ops[p])

(* V: release, and wake the waiters. *)
Release(p) ==
    /\ AtOp(p)
    /\ Cur(p).op > 0
    /\ val' = [val EXCEPT ![Cur(p).num] = @ + Cur(p).op]
    /\ at' = Waked({Cur(p).num})
    /\ ip' = [ip EXCEPT ![p] = @ + 1]
    /\ UNCHANGED <<nsems, ops, rp, cpu, pend, start>>

(* P: acquire; nobody is woken. *)
HasSome(p) == val[Cur(p).num] > 0   \* mutant

CanAcquire(p) == val[Cur(p).num] >= -Cur(p).op

Acquire(p) ==
    /\ AtOp(p)
    /\ Cur(p).op < 0
    /\ CanAcquire(p)
    /\ val' = [val EXCEPT ![Cur(p).num] = @ + Cur(p).op]
    /\ ip' = [ip EXCEPT ![p] = @ + 1]
    /\ UNCHANGED <<nsems, at, ops, rp, cpu, pend, start>>

(* Z: the value is zero. *)
PassZero(p) ==
    /\ AtOp(p)
    /\ Cur(p).op = 0
    /\ val[Cur(p).num] = 0
    /\ ip' = [ip EXCEPT ![p] = @ + 1]
    /\ UNCHANGED <<set, at, ops, rp, cpu, pend, start>>

(* Mutant: the operation that cannot proceed is reversed, too. *)
BlockReversesAll(p) ==
    /\ AtOp(p)
    /\ \/ Cur(p).op < 0 /\ ~CanAcquire(p)
       \/ Cur(p).op = 0 /\ val[Cur(p).num] # 0
    /\ at' = [at EXCEPT ![p] = "reverse"]
    /\ rp' = [rp EXCEPT ![p] = ip[p]]
    /\ UNCHANGED <<set, ops, ip, cpu, pend, start>>

(* The operation cannot proceed: those before it are to be reversed. *)
Block(p) ==
    /\ AtOp(p)
    /\ \/ Cur(p).op < 0 /\ ~CanAcquire(p)
       \/ Cur(p).op = 0 /\ val[Cur(p).num] # 0
    /\ at' = [at EXCEPT ![p] = "reverse"]
    /\ rp' = [rp EXCEPT ![p] = ip[p] - 1]
    /\ UNCHANGED <<set, ops, ip, cpu, pend, start>>

(* One round of reverse_ops, the last operation first. *)
Reverse(p) ==
    LET o == ops[p][rp[p]]
    IN  /\ cpu = p /\ at[p] = "reverse" /\ rp[p] > 0
        /\ val' = [val EXCEPT ![o.num] = @ - o.op]
        /\ at' = Waked({o.num})
        /\ rp' = [rp EXCEPT ![p] = @ - 1]
        /\ UNCHANGED <<nsems, ops, ip, cpu, pend, start>>

Reversed(p) == cpu = p /\ at[p] = "reverse" /\ rp[p] = 0

WouldBlock(p) ==
    /\ Reversed(p)
    /\ Cur(p).nowait
    /\ Return(p)
    /\ UNCHANGED <<set, rp>>

(* Mutant: the call does not sleep (sem.c:11, "the busy loop"). *)
SleepSpins(p) == /\ Reversed(p)
                 /\ ~Cur(p).nowait
                 /\ ~pend[p]
                 /\ Restart(p)
                 /\ UNCHANGED <<set, rp>>

(* ipc_sleep with nothing deliverable. *)
SleepOn(p) ==
    /\ Reversed(p)
    /\ ~Cur(p).nowait
    /\ ~pend[p]
    /\ at' = [at EXCEPT ![p] = "asleep"]
    /\ cpu' = NoProc
    /\ start' = Zeros
    /\ UNCHANGED <<nsems, val, call, pend>>

(* ipc_sleep with a signal to deliver does not sleep: it returns 1, never  *)
(* -1, and the array is restarted.                                         *)
Interrupted(p) ==
    /\ Reversed(p)
    /\ ~Cur(p).nowait
    /\ pend[p]
    /\ Restart(p)
    /\ UNCHANGED <<set, rp>>

Finish(p) ==
    /\ cpu = p
    /\ at[p] = "apply"
    /\ ip[p] > Len(ops[p])
    /\ Return(p)
    /\ UNCHANGED <<set, rp>>

(* A woken process gets the CPU back inside ipc_sleep. *)
Resume(p) ==
    /\ cpu = NoProc
    /\ at[p] = "woken"
    /\ Restart(p)
    /\ UNCHANGED <<nsems, val, rp>>

----------------------------------------------------------------------------
(* The calls that neither sleep nor loop, made by a process in user mode.  *)
Caller == cpu = NoProc /\ \E p \in Proc : at[p] = "user"

(* uiox_kix_sem_get, creating a set of n semaphores in the free slot. *)
AnySize(n) == n > 0   \* mutant

SizeOk(n) == n > 0 /\ n <= IPC_MAX_SEMS

SemGet(n) ==
    /\ Caller
    /\ nsems = 0
    /\ SizeOk(n)
    /\ nsems' = n
    /\ val' = Zeros
    /\ UNCHANGED <<at, call, cpu, pend, start>>

(* Mutant: the new value wakes nobody. *)
SetValQuiet(s, v) ==
    /\ Caller
    /\ s < nsems
    /\ val' = [val EXCEPT ![s] = v]
    /\ UNCHANGED <<nsems, at, call, cpu, pend, start>>

(* uiox_kix_sem_ctl, SETVAL *)
SetVal(s, v) ==
    /\ Caller
    /\ s < nsems
    /\ val' = [val EXCEPT ![s] = v]
    /\ at' = Waked({s})
    /\ UNCHANGED <<nsems, call, cpu, pend, start>>

(* uiox_kix_sem_ctl, SETALL *)
ButFirst == {s \in Sem : 0 < s /\ s < nsems}   \* mutant

InSet == {s \in Sem : s < nsems}

SetAll(v) ==
    /\ Caller
    /\ nsems > 0
    /\ val' = [s \in Sem |-> IF s < nsems THEN v ELSE val[s]]
    /\ at' = Waked(InSet)
    /\ UNCHANGED <<nsems, call, cpu, pend, start>>

(* uiox_kix_sem_ctl, IPC_RMID: wake the waiters, then clear the slot. *)
Remove ==
    /\ Caller
    /\ nsems > 0
    /\ at' = Waked(InSet)
    /\ nsems' = 0
    /\ val' = Zeros
    /\ UNCHANGED <<call, cpu, pend, start>>

(* uiox_kix_scpcs_kill of a process that is not asleep. *)
Signal(p) ==
    /\ Signals
    /\ Caller
    /\ at[p] # "asleep"
    /\ pend' = [pend EXCEPT ![p] = TRUE]
    /\ UNCHANGED <<set, at, call, cpu, start>>

InKernel(p) == \/ Release(p) \/ Acquire(p) \/ PassZero(p) \/ Block(p)
               \/ Reverse(p) \/ WouldBlock(p) \/ SleepOn(p) \/ Interrupted(p)
               \/ Finish(p)

Next == \/ \E p \in Proc : \/ \E a \in Arrays : SemOp(p, a)
                           \/ InKernel(p)
                           \/ Resume(p)
                           \/ Signal(p)
        \/ \E n \in 0..(IPC_MAX_SEMS + 1) : SemGet(n)
        \/ \E v \in CtlVals : SetAll(v) \/ \E s \in Sem : SetVal(s, v)
        \/ Remove

(* The CPU goes on executing the process that is inside sem_op. Nothing    *)
(* more is assumed: nothing takes the CPU from a process in user mode, so a*)
(* runnable process may wait for ever.                                     *)
Fairness == \A p \in Proc : WF_vars(InKernel(p))

Spec == Init /\ [][Next]_vars /\ Fairness

----------------------------------------------------------------------------
(* Type invariant. *)
TypeOK ==
    /\ nsems \in 0..IPC_MAX_SEMS
    /\ val \in [Sem -> Int]
    /\ at \in [Proc -> At]
    /\ ops \in [Proc -> Arrays \cup {<<>>}]
    /\ ip \in [Proc -> Nat \ {0}]
    /\ rp \in [Proc -> Nat]
    /\ cpu \in Proc \cup {NoProc}
    /\ pend \in [Proc -> BOOLEAN]
    /\ start \in [Sem -> Int]

(* The value that the operation p is at would find if p ran its array now. *)
Offered(p) == val[Cur(p).num] + Net(ops[p], ip[p] - 1, Cur(p).num)

(* No wakeup is lost: whoever sleeps for the value of a semaphore to rise  *)
(* (sem.c:229) would find it short again now. Every statement that raises a*)
(* value, the reversal of a P and the removal of the set included, wakes   *)
(* the sleepers of that semaphore, an array that names it twice included.  *)
NoLostWakeup ==
    \A p \in Proc : at[p] = "asleep" /\ Cur(p).op < 0
                        => Offered(p) < -Cur(p).op

(* sem.c:173: a Z "wait[s] for the value to reach zero"; when no call is   *)
(* under way, nobody sleeps for a zero that is there.                      *)
NoLostZero ==
    cpu = NoProc => \A p \in Proc :
        at[p] = "asleep" /\ Cur(p).op = 0 => Offered(p) # 0

(* sem.c:152: sem_op is all or nothing. A pass over the array that cannot  *)
(* be completed leaves every semaphore with the value it found.            *)
AllOrNothing ==
    \A p \in Proc : Reversed(p) => val = start

(* A P never takes more than there is, and reversing never takes back what *)
(* it did not give, while a call is under way and between calls.           *)
NeverNegative == \A s \in Sem : val[s] >= 0

(* A set that exists has no waiter outside it: shrinking by IPC_RMID and   *)
(* re-creation, nobody is left asleep on a semaphore no call can reach.    *)
NoOrphans == \A p \in Proc : at[p] = "asleep" => Cur(p).num < nsems

(* sem.c:19: a call does not spin. Whoever is inside sem_op with no signal *)
(* to deliver returns or sleeps, so the CPU is free again.                 *)
CpuReleased == \A p \in Proc : cpu = p /\ ~pend[p] ~> cpu # p

(* sem.c:31: "a process blocked on a semaphore has to remain killable": a  *)
(* signal ends the call of a process that is executing it.                 *)
Killable == \A p \in Proc : cpu = p /\ pend[p] ~> at[p] = "user"
=============================================================================
