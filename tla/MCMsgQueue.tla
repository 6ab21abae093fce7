---------------------------- MODULE MCMsgQueue -----------------------------
(***************************************************************************)
(* Instances of MsgQueue: messages of three types and two sizes; receivers *)
(* that ask for any message, for type 3, and for the lowest type up to 2,  *)
(* which is neither the first message nor asked for by its type; they      *)
(* refuse an oversized message or truncate it.                             *)
(***************************************************************************)
EXTENDS MsgQueue, TLC

Snd(t, s)    == [op |-> "snd", type |-> t, size |-> s]
Rcv(t, s, e) == [op |-> "rcv", type |-> t, size |-> s, noerror |-> e]

MCCalls == {Snd(1, 1), Snd(2, 2), Snd(3, 1),
            Rcv(0, 1, FALSE), Rcv(3, 1, FALSE), Rcv(-2, 1, TRUE)}

Sym == Permutations(Proc)
=============================================================================
