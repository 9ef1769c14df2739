------------------------------ MODULE MCD2HRing ------------------------------
EXTENDS D2HRing

(* Both rings used a little; one of them often enough to wrap, with the    *)
(* markers wrapping too, or with a message given up.                       *)
MCLoads == {[tx |-> 6, rx |-> 0, timeouts |-> 0],
            [tx |-> 0, rx |-> 5, timeouts |-> 0],
            [tx |-> 5, rx |-> 0, timeouts |-> 1],
            [tx |-> 2, rx |-> 2, timeouts |-> 0]}

(* As many messages as it takes to come to the marker 0, and none given up.*)
MCFresh == {[tx |-> 3, rx |-> 0, timeouts |-> 0],
            [tx |-> 0, rx |-> 3, timeouts |-> 0]}
=============================================================================
