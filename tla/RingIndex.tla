------------------------------ MODULE RingIndex ------------------------------
(***************************************************************************)
(* The index arithmetic both ends of every message ring share:             *)
(* dhd/src/include/bcmpcie.h.  An index r (read) and w (write) of a ring   *)
(* of d items is in 0..d-1; one slot is always left empty, so that r = w   *)
(* means "empty".                                                          *)
(*                                                                         *)
(* Definitions marked "Slip", here and in the other modules, are plausible *)
(* coding errors kept beside the correct definition: put in its place,     *)
(* each breaks a property that PROJECT.json names.                         *)
(***************************************************************************)
EXTENDS Naturals

MIN(a, b) == IF a <= b THEN a ELSE b

NEXTTXP(i, d) == IF i + 1 >= d THEN 0 ELSE i + 1

(* Items between the read and the write index, over the wrap.              *)
NTXPACTIVE(r, w, d) == IF r <= w THEN w - r ELSE (d - r) + w

NTXPAVAIL(r, w, d) == d - NTXPACTIVE(r, w, d) > 1

(* Items a reader can take in one block: never over the wrap.              *)
READ_AVAIL_SPACE(w, r, d) == IF w >= r THEN w - r ELSE d - r

(* Slip: no slot is left empty.                                            *)
WRITE_SPACE_NoGap(r, w, d) == d - NTXPACTIVE(r, w, d)

WRITE_SPACE_AVAIL(r, w, d) == (d - NTXPACTIVE(r, w, d)) - 1

WRITE_SPACE_AVAIL_CONTINUOUS(r, w, d) == IF w >= r THEN d - w ELSE r - w

(* Items a writer can take in one block.                                   *)
CHECK_WRITE_SPACE(r, w, d) ==
  MIN(WRITE_SPACE_AVAIL(r, w, d), WRITE_SPACE_AVAIL_CONTINUOUS(r, w, d))

(* Slip: no wrap at the last slot.                                         *)
ADVANCE_LateWrap(i, k, d) == IF i + k > d THEN 0 ELSE i + k

(* The index k items after i, for a block that does not pass the end.      *)
ADVANCE(i, k, d) == IF i + k >= d THEN 0 ELSE i + k
=============================================================================
