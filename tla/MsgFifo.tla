------------------------------ MODULE MsgFifo ------------------------------
(***************************************************************************)
(* What a message queue promises (uiox_kix_msg.h): while it exists it is a *)
(* sequence to which messages are appended, and from which a receiver takes*)
(* the first message, the first of a type, or the first of the lowest type *)
(* not above a limit. It never holds more bytes than its limit allowed when*)
(* the last message was accepted.                                          *)
(***************************************************************************)
EXTENDS Integers, Sequences

CONSTANTS Messages,   \* records with a type and a size
          Limits,     \* the byte limits a queue can have
          Selectors   \* the types receivers ask for

VARIABLES open, queue, limit

vars == <<open, queue, limit>>

Bytes(q) == LET upto[i \in 0..Len(q)] ==
                    IF i = 0 THEN 0 ELSE upto[i - 1] + q[i].size
            IN  upto[Len(q)]

(* The positions of the messages that t asks for, best first. *)
Wanted(q, t) ==
    {i \in 1..Len(q) :
        CASE t = 0 -> TRUE
          [] t > 0 -> q[i].type = t
          [] t < 0 -> /\ q[i].type <= -t
                      /\ \A j \in 1..Len(q) : q[i].type <= q[j].type}

Without(q, i) == SubSeq(q, 1, i - 1) \o SubSeq(q, i + 1, Len(q))

Init == open = FALSE /\ queue = <<>> /\ limit = 0

Open(l) == /\ ~open
           /\ open' = TRUE /\ queue' = <<>> /\ limit' = l

Send(m) == /\ open
           /\ Bytes(queue) + m.size <= limit
           /\ queue' = Append(queue, m)
           /\ UNCHANGED <<open, limit>>

Receive(t) == /\ open
              /\ \E i \in Wanted(queue, t) :
                    /\ \A j \in Wanted(queue, t) : i <= j
                    /\ queue' = Without(queue, i)
              /\ UNCHANGED <<open, limit>>

SetLimit(l) == open /\ limit' = l /\ UNCHANGED <<open, queue>>

Close == open /\ open' = FALSE /\ queue' = <<>> /\ limit' = 0

Next == \/ \E l \in Limits : Open(l) \/ SetLimit(l)
        \/ \E m \in Messages : Send(m)
        \/ \E t \in Selectors : Receive(t)
        \/ Close

Spec == Init /\ [][Next]_vars
=============================================================================
