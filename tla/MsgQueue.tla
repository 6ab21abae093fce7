------------------------------ MODULE MsgQueue ------------------------------
(***************************************************************************)
(* One queue of 33_PCS/00_IPC/src/uiox_kix_msg.c with its list of nodes,   *)
(* the node pool, and the processes that send and receive. A call is not   *)
(* preempted: from entry, or from the return of ipc_sleep, to the next     *)
(* sleep or the return to user mode it is one step. Calls that return -1   *)
(* at once, IPC_NOWAIT ones included, change nothing and are no steps.     *)
(*                                                                         *)
(* The two channels MSG_SPACE and MSG_ARRIVE are both the address of the   *)
(* queue (uiox_kix_ipc_types.h:118). Signals are left out: what they do to *)
(* a wait loop of this kind is the subject of SemSet.                      *)
(***************************************************************************)
EXTENDS Integers, Sequences, FiniteSets

CONSTANTS Proc,        \* processes
          POOL,        \* MSG_NODE_POOL_SIZE
          QBYTES,      \* IPC_MAX_QUEUE_BYTES
          Calls,       \* the calls that processes make, with their arguments
          NewLimits    \* the msg_qbytes that IPC_SET installs

(* A message has a type and a size above 0; a receiver gives the type it   *)
(* selects by, the size of its buffer and whether MSG_NOERROR is set.      *)
Requests == [op : {"snd"}, type : Nat \ {0}, size : Nat \ {0}]
            \cup [op : {"rcv"}, type : Int, size : Nat, noerror : BOOLEAN]

ASSUME ParamAssumption ==
    /\ POOL \in Nat /\ QBYTES \in Nat
    /\ Calls \subseteq Requests
    /\ NewLimits \subseteq Nat

Nil  == 0
Node == 1..POOL

VARIABLES active,   \* q->active
          first,    \* q->first
          last,     \* q->last
          count,    \* q->msg_count
          bytes,    \* q->msg_bytes
          qbytes,   \* q->msg_qbytes
          next,     \* next[n]: s_node_pool[n].next
          body,     \* body[n]: s_node_pool[n].msg
          used,     \* the nodes marked in s_node_used
          at,       \* at[p]: where p is
          req,      \* req[p]: the arguments of its call, NoReq in user mode
          evicted,  \* history: those waiting when their queue was removed
          raised    \* history: IPC_SET has raised the limit since the sleepers
                    \* were last woken

queue == <<active, first, last, count, bytes, qbytes>>
pool  == <<next, body, used>>
vars  == <<active, first, last, count, bytes, qbytes, next, body, used, at,
           req, evicted, raised>>

(* What the calls send; a free node is zeroed. *)
Message == {[type |-> r.type, size |-> r.size] :
               r \in {c \in Calls : c.op = "snd"}}

NoMsg == [type |-> 0, size |-> 0]

NoReq == [op |-> "none"]

(* uiox_kix_msg_init *)
Init == /\ active = FALSE
        /\ first = Nil /\ last = Nil
        /\ count = 0 /\ bytes = 0 /\ qbytes = QBYTES
        /\ next = [n \in Node |-> Nil]
        /\ body = [n \in Node |-> NoMsg]
        /\ used = {}
        /\ at = [p \in Proc |-> "user"]
        /\ req = [p \in Proc |-> NoReq]
        /\ evicted = {}
        /\ raised = FALSE

----------------------------------------------------------------------------
(* The nodes met from q->first on, in order. *)
Chain ==
    LET w[i \in 1..POOL] == IF i = 1 THEN first
                            ELSE IF w[i - 1] = Nil THEN Nil ELSE next[w[i - 1]]
    IN  [i \in 1..Cardinality({i \in 1..POOL : w[i] # Nil}) |-> w[i]]

(* ipc_wakeup on the address of the queue; the mutants wake the sleepers of*)
(* one of the two channels only.                                           *)
WakedFor(op) == [p \in Proc |-> IF at[p] = "asleep" /\ req[p].op = op
                                THEN "woken" ELSE at[p]]
WakedSenders   == WakedFor("snd")
WakedReceivers == WakedFor("rcv")

Waked == [p \in Proc |-> IF at[p] = "asleep" THEN "woken" ELSE at[p]]

(* The call of p returns. *)
Return(p, wake) ==
    /\ at' = [(IF wake THEN Waked ELSE at) EXCEPT ![p] = "user"]
    /\ req' = [req EXCEPT ![p] = NoReq]
    /\ evicted' = evicted \ {p}
    /\ raised' = (raised /\ ~wake)

(* A call blocks: it sleeps on the queue. *)
Block(p, r) == /\ at' = [at EXCEPT ![p] = "asleep"]
               /\ req' = [req EXCEPT ![p] = r]
               /\ UNCHANGED <<queue, pool, evicted, raised>>

(* "while (q->msg_bytes + count > q->msg_qbytes)" *)
FitsBefore(r) == bytes <= qbytes   \* mutant

Fits(r) == bytes + r.size <= qbytes

(* The rest of msg_snd once there is room: the first free node, if there   *)
(* is one, is filled and linked behind the last, and the readers are woken.*)
Append1(p, r) ==
    IF used = Node
    THEN Return(p, FALSE) /\ UNCHANGED <<queue, pool>>
    ELSE \E n \in Node \ used :
           /\ \A m \in Node \ used : n <= m
           /\ used' = used \cup {n}
           /\ body' = [body EXCEPT ![n] = [type |-> r.type, size |-> r.size]]
           /\ next' = IF last = Nil THEN next ELSE [next EXCEPT ![last] = n]
           /\ first' = IF last = Nil THEN n ELSE first
           /\ last' = n
           /\ count' = count + 1
           /\ bytes' = bytes + r.size
           /\ Return(p, TRUE)
           /\ UNCHANGED <<active, qbytes>>

Send(p, r) == r.op = "snd" /\ IF Fits(r) THEN Append1(p, r) ELSE Block(p, r)

(* Mutant: the first type up to |t|, not the lowest. *)
ChosenFirst(t) ==
    LET chain == Chain
        fits  == {i \in 1..Len(chain) :
                     LET ty == body[chain[i]].type
                     IN  t = 0 \/ (t > 0 /\ ty = t) \/ (t < 0 /\ ty <= -t)}
    IN  IF fits = {} THEN 0 ELSE CHOOSE i \in fits : \A j \in fits : i <= j

(* The position that the search of msg_rcv stops at, 0 if there is none.   *)
(* Among types up to |t| a later message is preferred only if its type is  *)
(* strictly lower.                                                         *)
Chosen(t) ==
    LET chain == Chain
        ty(i) == body[chain[i]].type
        fits  == {i \in 1..Len(chain) : \/ t = 0
                                        \/ t > 0 /\ ty(i) = t
                                        \/ t < 0 /\ ty(i) <= -t}
        best  == {i \in fits : t >= 0 \/ \A j \in fits : ty(i) <= ty(j)}
    IN  IF best = {} THEN 0 ELSE CHOOSE i \in best : \A j \in best : i <= j

(* The node n, behind cprev, leaves the list and is given back. *)
UnlinkKeepsLast(n, cprev) ==   \* mutant
    /\ next' = [m \in Node |-> IF m = n THEN Nil
                               ELSE IF m = cprev THEN next[n] ELSE next[m]]
    /\ first' = IF cprev = Nil THEN next[n] ELSE first
    /\ count' = count - 1
    /\ bytes' = bytes - body[n].size
    /\ body' = [body EXCEPT ![n] = NoMsg]
    /\ used' = used \ {n}
    /\ UNCHANGED last

Unlink(n, cprev) ==
    /\ next' = [m \in Node |-> IF m = n THEN Nil
                               ELSE IF m = cprev THEN next[n] ELSE next[m]]
    /\ first' = IF cprev = Nil THEN next[n] ELSE first
    /\ last' = IF last = n THEN cprev ELSE last
    /\ count' = count - 1
    /\ bytes' = bytes - body[n].size
    /\ body' = [body EXCEPT ![n] = NoMsg]
    /\ used' = used \ {n}

(* The rest of msg_rcv with a message chosen: an oversized one stays unless*)
(* MSG_NOERROR is set; otherwise it is unlinked, its node given back and   *)
(* the senders woken.                                                      *)
Take(p, r, i) ==
    LET n     == Chain[i]
        cprev == IF i = 1 THEN Nil ELSE Chain[i - 1]
    IN  IF body[n].size > r.size /\ ~r.noerror
        THEN Return(p, FALSE) /\ UNCHANGED <<queue, pool>>
        ELSE /\ Unlink(n, cprev)
             /\ Return(p, TRUE)
             /\ UNCHANGED <<active, qbytes>>

Receive(p, r) == /\ r.op = "rcv"
                 /\ IF Chosen(r.type) = 0 THEN Block(p, r)
                                          ELSE Take(p, r, Chosen(r.type))

(* uiox_kix_msg_snd and uiox_kix_msg_rcv, from the call. *)
Call(p, r) == /\ at[p] = "user"
              /\ active
              /\ Send(p, r) \/ Receive(p, r)

(* The same after a wakeup: a removed queue ends the call with -1. *)
Resume(p) == /\ at[p] = "woken"
             /\ \/ /\ ~active
                   /\ Return(p, FALSE)
                   /\ UNCHANGED <<queue, pool>>
                \/ /\ active
                   /\ Send(p, req[p]) \/ Receive(p, req[p])

----------------------------------------------------------------------------
Caller == \E p \in Proc : at[p] = "user"

(* uiox_kix_msg_get, creating a queue in the free slot. *)
MsgGet == /\ Caller
          /\ ~active
          /\ active' = TRUE
          /\ first' = Nil /\ last' = Nil
          /\ count' = 0 /\ bytes' = 0 /\ qbytes' = QBYTES
          /\ UNCHANGED <<pool, at, req, evicted, raised>>

(* uiox_kix_msg_ctl, IPC_SET: nobody is woken. *)
Set(l) == /\ Caller
          /\ active
          /\ qbytes' = l
          /\ raised' = (raised \/ l > qbytes)
          /\ UNCHANGED <<active, first, last, count, bytes, pool, at, req,
                         evicted>>

(* uiox_kix_msg_ctl, IPC_RMID: the nodes are freed, the header cleared and *)
(* everybody who waits woken.                                              *)
Remove ==
    LET gone == {Chain[i] : i \in 1..Len(Chain)}
    IN  /\ Caller
        /\ active
        /\ active' = FALSE
        /\ first' = Nil /\ last' = Nil
        /\ count' = 0 /\ bytes' = 0 /\ qbytes' = 0
        /\ next' = [n \in Node |-> IF n \in gone THEN Nil ELSE next[n]]
        /\ body' = [n \in Node |-> IF n \in gone THEN NoMsg ELSE body[n]]
        /\ used' = used \ gone
        /\ at' = Waked
        /\ evicted' = evicted \cup {p \in Proc : at[p] # "user"}
        /\ raised' = FALSE
        /\ UNCHANGED req

Next == \/ \E p \in Proc : Resume(p) \/ \E r \in Calls : Call(p, r)
        \/ MsgGet
        \/ \E l \in NewLimits : Set(l)
        \/ Remove

Spec == Init /\ [][Next]_vars

----------------------------------------------------------------------------
(* Type invariant. *)
TypeOK ==
    /\ active \in BOOLEAN
    /\ first \in Node \cup {Nil} /\ last \in Node \cup {Nil}
    /\ count \in 0..POOL /\ qbytes \in Nat
    /\ \E l \in NewLimits \cup {QBYTES} : bytes \in 0..l
    /\ next \in [Node -> Node \cup {Nil}]
    /\ body \in [Node -> Message \cup {NoMsg}]
    /\ used \subseteq Node
    /\ at \in [Proc -> {"user", "asleep", "woken"}]
    /\ req \in [Proc -> Calls \cup {NoReq}]
    /\ evicted \subseteq Proc
    /\ raised \in BOOLEAN

(* The node pool and the list agree after any order of appending, of taking*)
(* from the middle and of removal: the list is finite, ends at q->last and *)
(* holds each node marked used once, so no node leaks (msg.c:49) and none  *)
(* is handed out while it is linked; msg_count and msg_bytes, which decide *)
(* who sleeps, are those of the list.                                      *)
Contents == LET chain == Chain
            IN  [i \in 1..Len(chain) |-> body[chain[i]]]

Fifo == INSTANCE MsgFifo WITH
            Messages  <- Message,
            Limits    <- NewLimits \cup {QBYTES},
            Selectors <- {r.type : r \in {c \in Calls : c.op = "rcv"}},
            open      <- active,
            queue     <- Contents,
            limit     <- IF active THEN qbytes ELSE 0

PoolBalanced ==
    LET chain == Chain
        n     == Len(chain)
    IN  /\ {chain[i] : i \in 1..n} = used
        /\ Cardinality(used) = n
        /\ last = IF n = 0 THEN Nil ELSE chain[n]
        /\ last # Nil => next[last] = Nil
        /\ count = n
        /\ bytes = Fifo!Bytes(Contents)

(* No receiver sleeps (msg.c:318) while the queue holds a message it would *)
(* take.                                                                   *)
NoStrandedReceiver ==
    \A p \in Proc : at[p] = "asleep" /\ req[p].op = "rcv"
                        => Chosen(req[p].type) = 0

(* A sender sleeps (msg.c:228) only on a queue that exists, and beside room*)
(* for its message only from an IPC_SET that raised the limit, which wakes *)
(* nobody (msg.c:169-175), to the next message sent or taken.              *)
NoStrandedSender ==
    \A p \in Proc : at[p] = "asleep" /\ req[p].op = "snd"
                        => active /\ (Fits(req[p]) => raised)

(* msg.h:89: msg_snd returns -1 for "a queue that was removed while        *)
(* waiting": its message goes nowhere. So does a receiver take nothing.    *)
EvictedGetNothing ==
    [][\A p \in Proc : p \in evicted /\ at'[p] = "user" => UNCHANGED queue]_vars

(* The list of nodes implements the queue that uiox_kix_msg.h describes. *)
Implements == Fifo!Spec
=============================================================================
