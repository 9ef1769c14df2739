------------------------------ MODULE TxWindow ------------------------------
(***************************************************************************)
(* What a tx flow ring promises the host: every message posted is          *)
(* completed once, in any order; and there is room for another message     *)
(* only when all but the latest Capacity are complete, the new one         *)
(* counted.                                                                *)
(***************************************************************************)
EXTENDS Naturals

CONSTANTS Capacity,      (* messages the window holds                      *)
          MaxMsgs        (* messages that can be posted                    *)

VARIABLES posted,        (* number of messages posted                      *)
          acked          (* completions of each message                    *)

vars == <<posted, acked>>

Init == posted = 0 /\ acked = [m \in 1..MaxMsgs |-> 0]

Post == /\ posted < MaxMsgs
        /\ \A m \in 1 .. posted : m + Capacity <= posted + 1 => acked[m] = 1
        /\ posted' = posted + 1
        /\ UNCHANGED acked

Complete(m) == /\ acked[m] = 0
               /\ acked' = [acked EXCEPT ![m] = 1]
               /\ UNCHANGED posted

Next == Post \/ \E m \in 1..posted : Complete(m)

Spec == Init /\ [][Next]_vars
=============================================================================
