------------------------------ MODULE IoctlCalls ------------------------------
(***************************************************************************)
(* What the ioctl path promises its one caller: calls are made one after   *)
(* the other, each returns once, and what it returns is a failure or the   *)
(* answer to a request already made and not yet answered, never an answer  *)
(* out of order.  Calls are named 1, 2, ... in the order they are made.    *)
(***************************************************************************)
EXTENDS Naturals, Sequences, FiniteSetsExt

VARIABLES asked,      (* number of calls made                              *)
          returned    (* what each call returned: 0 for a failure, else    *)
                      (* the number of the call that was answered          *)

vars == <<asked, returned>>

Init == asked = 0 /\ returned = <<>>

LastAnswered == Max({0} \union {returned[i] : i \in DOMAIN returned})

Ask == /\ asked = Len(returned)
       /\ asked' = asked + 1
       /\ UNCHANGED returned

Return == /\ asked = Len(returned) + 1
          /\ \E a \in {0} \union (LastAnswered + 1) .. asked :
               returned' = Append(returned, a)
          /\ UNCHANGED asked

Next == Ask \/ Return

Spec == Init /\ [][Next]_vars
=============================================================================
