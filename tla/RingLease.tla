----------------------------- MODULE RingLease -----------------------------
(***************************************************************************)
(* What creation and deletion of flow rings promise: a ring is leased to   *)
(* one flow at a time; the dongle uses it only within a lease and for the  *)
(* flow that has it, and has stopped before the lease ends.                *)
(***************************************************************************)
CONSTANTS Flows, Rings,
          Nobody          (* no flow                                       *)

VARIABLES lease,          (* the flow a ring is leased to                  *)
          use             (* the flow the dongle uses a ring for           *)

vars == <<lease, use>>

Init == lease = [i \in Rings |-> Nobody] /\ use = [i \in Rings |-> Nobody]

Grant(i, f) == /\ lease[i] = Nobody /\ \A j \in Rings : lease[j] # f
               /\ lease' = [lease EXCEPT ![i] = f]
               /\ UNCHANGED use

Start(i) == /\ lease[i] # Nobody /\ use[i] = Nobody
            /\ use' = [use EXCEPT ![i] = lease[i]]
            /\ UNCHANGED lease

Stop(i) == /\ use[i] # Nobody
           /\ use' = [use EXCEPT ![i] = Nobody]
           /\ UNCHANGED lease

Return(i) == /\ lease[i] # Nobody /\ use[i] = Nobody
             /\ lease' = [lease EXCEPT ![i] = Nobody]
             /\ UNCHANGED use

Next == \E i \in Rings : \/ \E f \in Flows : Grant(i, f)
                         \/ Start(i) \/ Stop(i) \/ Return(i)

Spec == Init /\ [][Next]_vars
=============================================================================
