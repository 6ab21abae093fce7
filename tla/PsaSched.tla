------------------------------ MODULE PsaSched ------------------------------
(***************************************************************************)
(* What the process layer 40_psa promises its callers, without the table   *)
(* and the links it keeps the promise with: a set of live processes, one   *)
(* priority-ordered ready queue, a set of sleepers per wait channel and    *)
(* the process on the CPU.                                                 *)
(*                                                                         *)
(*  - a process is in at most one place: the CPU, the ready queue, or      *)
(*    asleep on exactly one channel;                                       *)
(*  - the CPU goes to the head of the ready queue, the lowest priority     *)
(*    number first and first-come-first-served among equals;               *)
(*  - a wakeup on a channel leaves nobody asleep on it and disturbs no     *)
(*    sleeper of another channel.                                          *)
(*                                                                         *)
(* PsaProc, the module translated from the C source, implements this one.  *)
(***************************************************************************)
EXTENDS Naturals, Sequences, FiniteSets

CONSTANTS Proc,    \* process table slots
          Chan,    \* wait channels
          Pris,    \* priorities a running process can be given
          NoProc   \* nobody

VARIABLES ready,   \* the ready queue, a sequence of processes
          asleep,  \* asleep[c]: the processes asleep on channel c
          prio,    \* prio[p]: the priority of p, lower is better
          cpu      \* the process on the CPU, or NoProc

vars == <<ready, asleep, prio, cpu>>

Queued == {ready[i] : i \in 1..Len(ready)}

Sleeping == UNION {asleep[c] : c \in Chan}

(* p goes behind every process that does not have a worse priority. *)
Insert(q, pr, p) ==
    LET n == Cardinality({i \in 1..Len(q) : pr[q[i]] <= pr[p]})
    IN  SubSeq(q, 1, n) \o <<p>> \o SubSeq(q, n + 1, Len(q))

Init == /\ \E p \in Proc : ready = <<p>>
        /\ asleep = [c \in Chan |-> {}]
        /\ prio = [p \in Proc |-> 0]
        /\ cpu = NoProc

(* Any call of the process on the CPU may turn out to be its last: a signal *)
(* is delivered on the way out of the kernel.                              *)
MayDie == cpu' \in {cpu, NoProc}

(* A new process starts at the best priority, 0. *)
Create(p) == /\ p \notin Queued \cup Sleeping \cup {cpu}
             /\ prio' = [prio EXCEPT ![p] = 0]
             /\ ready' = Insert(ready, prio', p)
             /\ MayDie
             /\ UNCHANGED asleep

(* The CPU leaves whatever it ran for the head of the ready queue. *)
TakeHead(q) == IF q = <<>> THEN /\ cpu' = NoProc
                                /\ ready' = q
                           ELSE /\ cpu' = Head(q)
                                /\ ready' = Tail(q)

Sleep(c) == /\ cpu # NoProc
            /\ asleep' = [asleep EXCEPT ![c] = @ \cup {cpu}]
            /\ TakeHead(ready)
            /\ UNCHANGED prio

(* Everybody asleep on c becomes ready, in some order. *)
Wakeup(c) ==
    LET n == Cardinality(asleep[c])
    IN  /\ asleep[c] # {}
        /\ asleep' = [asleep EXCEPT ![c] = {}]
        /\ \E order \in {f \in [1..n -> asleep[c]] :
                           \A i, j \in 1..n : f[i] = f[j] => i = j} :
             LET q[i \in 0..n] == IF i = 0 THEN ready
                                           ELSE Insert(q[i - 1], prio, order[i])
             IN  ready' = q[n]
        /\ UNCHANGED <<prio, cpu>>

Reprioritise(v) == /\ cpu # NoProc
                   /\ prio' = [prio EXCEPT ![cpu] = v]
                   /\ UNCHANGED <<ready, asleep, cpu>>

Exit == /\ cpu # NoProc
        /\ cpu' = NoProc
        /\ UNCHANGED <<ready, asleep, prio>>

Dispatch == /\ cpu = NoProc
            /\ ready # <<>>
            /\ TakeHead(ready)
            /\ UNCHANGED <<asleep, prio>>

(* The table entry of a dead process is cleared. *)
Reap(p) == /\ p \notin Queued \cup Sleeping \cup {cpu}
           /\ prio' = [prio EXCEPT ![p] = 0]
           /\ MayDie
           /\ UNCHANGED <<ready, asleep>>

Next == \/ \E p \in Proc : Create(p) \/ Reap(p)
        \/ \E c \in Chan : Sleep(c) \/ Wakeup(c)
        \/ \E v \in Pris : Reprioritise(v)
        \/ Exit
        \/ Dispatch

Spec == Init /\ [][Next]_vars
=============================================================================
