----------------------------- MODULE MsgChannel -----------------------------
(***************************************************************************)
(* What a message ring promises to its two users: a bounded channel that   *)
(* hands over every message once, in the order it was sent.  Messages are  *)
(* named by their position: the n-th message sent is n.                    *)
(***************************************************************************)
EXTENDS Naturals, Sequences

CONSTANT Capacity        (* messages that may be under way at a time: Nat  *)

VARIABLES sent,          (* number of messages sent                        *)
          log            (* the messages received, in order of receipt     *)

vars == <<sent, log>>

Init == sent = 0 /\ log = <<>>

Send == /\ sent' \in (sent + 1) .. (Len(log) + Capacity)
        /\ UNCHANGED log

Receive == /\ \E k \in 1 .. (sent - Len(log)) :
                log' = log \o [i \in 1..k |-> Len(log) + i]
           /\ UNCHANGED sent

Next == Send \/ Receive

Spec == Init /\ [][Next]_vars
=============================================================================
