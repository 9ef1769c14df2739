------------------------------ MODULE MCH2DRing ------------------------------
EXTENDS H2DRing

(* The control path asks for one item or fewer; the rx path for exactly a  *)
(* burst of its 32 items, here 2 and 3.                                    *)
MCRequests == {<<1, FALSE>>, <<2, TRUE>>, <<3, TRUE>>}
=============================================================================
