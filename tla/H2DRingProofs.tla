---------------------------- MODULE H2DRingProofs ----------------------------
(***************************************************************************)
(* Proofs about H2DRing, for every ring size, local buffer size and mix of *)
(* requests.                                                               *)
(***************************************************************************)
EXTENDS H2DRing, Integers, SequenceTheorems, TLAPS

LEMMA RingSize == MaxItem \in Nat /\ MaxItem >= 2
  BY RingAssumption

(* The granted block is not empty, is no longer than asked, ends in the    *)
(* ring, and leaves one slot free before the read index it was granted     *)
(* against (prot_get_ring_space).                                          *)
LEMMA GrantedSpace ==
  ASSUME NEW r \in 0..MaxItem-1, NEW n \in 1..MaxItem, NEW e \in BOOLEAN,
         w_offset \in 0..MaxItem-1,
         NEW g, g = prot_get_ring_space(r, n, e), g # 0
  PROVE  /\ g \in 1..MaxItem-1 /\ g <= n
         /\ w_offset + g <= MaxItem
         /\ ADVANCE(w_offset, g, MaxItem) \in 0..MaxItem-1
         /\ Dist(r, w_offset) + g <= MaxItem - 1
         /\ Dist(r, ADVANCE(w_offset, g, MaxItem)) = Dist(r, w_offset) + g
  BY RingSize DEF prot_get_ring_space, CHECK_WRITE_SPACE, WRITE_SPACE_AVAIL,
         WRITE_SPACE_AVAIL_CONTINUOUS, NTXPACTIVE, MIN, Dist, ADVANCE

LEMMA DistType ==
  ASSUME NEW a \in 0..MaxItem-1, NEW b \in 0..MaxItem-1
  PROVE  Dist(a, b) \in 0..MaxItem-1
  BY RingSize DEF Dist, NTXPACTIVE

(* Three indices in ring order stay in ring order when the last moves on   *)
(* by k and does not meet the first.                                       *)
LEMMA DistExtend ==
  ASSUME NEW a \in 0..MaxItem-1, NEW b \in 0..MaxItem-1, NEW c \in 0..MaxItem-1,
         NEW k \in Nat, c + k <= MaxItem,
         Dist(a, c) = Dist(a, b) + Dist(b, c), Dist(a, c) + k <= MaxItem - 1
  PROVE  /\ ADVANCE(c, k, MaxItem) \in 0..MaxItem-1
         /\ Dist(b, ADVANCE(c, k, MaxItem)) = Dist(b, c) + k
         /\ Dist(a, ADVANCE(c, k, MaxItem)) = Dist(a, c) + k
  BY RingSize DEF Dist, NTXPACTIVE, ADVANCE

(* Taking such a move back.                                                *)
LEMMA DistRetract ==
  ASSUME NEW a \in 0..MaxItem-1, NEW b \in 0..MaxItem-1, NEW c \in 0..MaxItem-1,
         NEW k \in Nat, c + k <= MaxItem,
         Dist(b, ADVANCE(c, k, MaxItem)) = Dist(b, c) + k,
         Dist(a, ADVANCE(c, k, MaxItem))
           = Dist(a, b) + Dist(b, ADVANCE(c, k, MaxItem))
  PROVE  Dist(a, c) = Dist(a, b) + Dist(b, c)
  BY RingSize DEF Dist, NTXPACTIVE, ADVANCE

(* The distance from an index that moves on by h towards c.                *)
LEMMA DistReduce ==
  ASSUME NEW a \in 0..MaxItem-1, NEW c \in 0..MaxItem-1,
         NEW h \in Nat, a + h <= MaxItem, h <= Dist(a, c)
  PROVE  /\ ADVANCE(a, h, MaxItem) \in 0..MaxItem-1
         /\ Dist(ADVANCE(a, h, MaxItem), c) = Dist(a, c) - h
  BY RingSize DEF Dist, NTXPACTIVE, ADVANCE

(* The distance to an index that moves on by h and passes neither end.     *)
LEMMA DistGrow ==
  ASSUME NEW a \in 0..MaxItem-1, NEW c \in 0..MaxItem-1,
         NEW h \in Nat, a + h <= MaxItem,
         h + Dist(ADVANCE(a, h, MaxItem), c) <= MaxItem - 1
  PROVE  Dist(a, c) = h + Dist(ADVANCE(a, h, MaxItem), c)
  BY RingSize DEF Dist, NTXPACTIVE, ADVANCE

(* The slots of a block that starts at b.                                  *)
LEMMA BlockSlots ==
  ASSUME NEW a \in 0..MaxItem-1, NEW b \in 0..MaxItem-1,
         NEW len \in Nat, b + len <= MaxItem,
         Dist(a, b) + len <= MaxItem
  PROVE  /\ \A k \in 0..len-1 : /\ b + k \in 0..MaxItem-1
                               /\ Dist(a, b + k) = Dist(a, b) + k
         /\ \A i \in 0..MaxItem-1 :
              Dist(a, b) <= Dist(a, i) /\ Dist(a, i) < Dist(a, b) + len
                => i - b \in 0..len-1 /\ Dist(a, i) = Dist(a, b) + (i - b)
  BY RingSize DEF Dist, NTXPACTIVE

-----------------------------------------------------------------------------
LEMMA InitInv == Init => IInv
  <1> SUFFICES ASSUME Init PROVE IInv
    OBVIOUS
  <1>1. TypeOK
    <2>1. slot \in [0..MaxItem-1 -> Nat]
      BY DEF Init
    <2>2. claim \in [start : 0..MaxItem-1, len : 0..MaxItem-1,
                    filled : 0..MaxItem-1]
      BY RingSize DEF Init, NoClaim
    <2>3. /\ dmaq \in Seq([from : 0..MaxItem-1, len : 1..MaxItem-1, first : Nat])
          /\ inuse \in Seq(1..MaxItem) /\ log \in Seq(Nat)
      BY DEF Init
    <2> QED
      <3>1. BufCnt \in Nat /\ MaxItem \in Nat /\ MaxItem >= 2
        BY RingAssumption
      <3>2. /\ w_offset = 0 /\ r_offset = 0 /\ tcm_w = 0 /\ tcm_r = 0
            /\ handling = 0 /\ rd_pending = 0 /\ availcnt = BufCnt
            /\ posted = 0 /\ fetched = 0
        BY DEF Init
      <3>3. /\ hpc = "idle" /\ dpc = "idle" /\ ret = "idle"
            /\ doorbell \in BOOLEAN /\ ioctl_dma \in BOOLEAN
            /\ ioctl_lock \in BOOLEAN /\ unlock_timer \in BOOLEAN
        BY DEF Init
      <3> QED
        BY ONLY <2>1, <2>2, <2>3, <3>1, <3>2, <3>3 DEF TypeOK
  <1>2. /\ Dist(0, 0) = 0 /\ Len(log) = 0 /\ done = 0
        /\ posted = 0 /\ fetched = 0 /\ handling = 0 /\ claim.len = 0
        /\ tcm_r = 0 /\ tcm_w = 0 /\ w_offset = 0 /\ rd_pending = 0
    BY DEF Init, Dist, NTXPACTIVE, done, NoClaim
  <1>3. HostInv
    BY <1>2 DEF Init, HostInv
  <1>4. IndexInv
    <2>1. dpc = "idle"
      BY DEF Init
    <2> QED
      BY ONLY <1>2, <2>1, RingSize DEF IndexInv
  <1>5. SlotInv
    BY <1>2, RingSize DEF SlotInv, Dist, NTXPACTIVE
  <1>6. DmaInv /\ LogInv
    BY <1>2 DEF Init, DmaInv, LogInv
  <1>7. PoolConserved
    BY RingAssumption DEF Init, PoolConserved
  <1> QED
    BY <1>1, <1>3, <1>4, <1>5, <1>6, <1>7 DEF IInv

(* The numeric facts of the type invariant.                                *)
LEMMA IndexTypes ==
  ASSUME TypeOK
  PROVE  /\ w_offset \in 0..MaxItem-1 /\ r_offset \in 0..MaxItem-1
         /\ tcm_w \in 0..MaxItem-1 /\ tcm_r \in 0..MaxItem-1
         /\ rd_pending \in 0..MaxItem-1 /\ handling \in 0..MaxItem-1
         /\ posted \in Nat /\ fetched \in Nat /\ log \in Seq(Nat)
         /\ Len(log) \in Nat /\ done \in Int
  BY RingSize DEF TypeOK, done

(* dhd_alloc_ring_space.                                                   *)
LEMMA ClaimStep ==
  ASSUME IInv, NEW q \in Requests, Claim(q[1], q[2])
  PROVE  IInv'
  <1> DEFINE n == q[1]
             e == q[2]
             g == IF prot_get_ring_space(r_offset, n, e) # 0
                  THEN prot_get_ring_space(r_offset, n, e)
                  ELSE prot_get_ring_space(tcm_r, n, e)
  <1>1. n \in 1..MaxItem /\ e \in BOOLEAN
    BY RingAssumption
  <1>2. /\ TypeOK /\ PoolConserved
        /\ HostInv /\ IndexInv /\ SlotInv /\ DmaInv /\ LogInv
    BY DEF IInv
  <1> /\ w_offset \in 0..MaxItem-1 /\ r_offset \in 0..MaxItem-1
      /\ tcm_w \in 0..MaxItem-1 /\ tcm_r \in 0..MaxItem-1
      /\ posted \in Nat /\ done \in Int
    BY <1>2, IndexTypes
  <1> USE RingSize
  <1>3. /\ UNCHANGED <<slot, tcm_w, posted, dpc, ret, tcm_r, rd_pending, dmaq,
                       handling, fetched, log, doorbell, availcnt, inuse,
                       ioctl_dma, ioctl_lock, unlock_timer>>
        /\ claim = NoClaim /\ hpc = "idle" /\ w_offset = tcm_w
    BY <1>2 DEF Claim, dongleVars, ringVars, poolVars, lockVars, HostInv
  <1>4. \/ r_offset' = r_offset /\ g = prot_get_ring_space(r_offset, n, e)
        \/ r_offset' = tcm_r /\ g = prot_get_ring_space(tcm_r, n, e)
    BY DEF Claim
  <1>5. \/ g = 0 /\ UNCHANGED <<w_offset, hpc, claim>>
        \/ /\ g # 0
           /\ claim' = [start |-> w_offset, len |-> g, filled |-> 0]
           /\ w_offset' = ADVANCE(w_offset, g, MaxItem)
           /\ hpc' = "fill"
    BY DEF Claim
  <1> HIDE DEF g, n, e
  <1>6. /\ r_offset' \in 0..MaxItem-1
        /\ g = prot_get_ring_space(r_offset', n, e)
        /\ Dist(r_offset', w_offset)
             = Dist(r_offset', tcm_r) + Dist(tcm_r, w_offset)
    <2>1. Dist(r_offset, w_offset)
             = Dist(r_offset, tcm_r) + Dist(tcm_r, w_offset)
      BY <1>2 DEF HostInv
    <2>2. Dist(tcm_r, tcm_r) = 0 /\ Dist(tcm_r, w_offset) \in Nat
      BY <1>2 DEF Dist, NTXPACTIVE
    <2> QED
      BY <2>1, <2>2, <1>2, <1>4
  <1>7. SlotInv' /\ DmaInv' /\ LogInv' /\ PoolConserved'
    BY <1>2, <1>3 DEF SlotInv, DmaInv, LogInv, done, Dist, PoolConserved
  <1>8. CASE g = 0
    <2>1. UNCHANGED <<w_offset, hpc, claim>>
      BY <1>5, <1>8
    <2>2. TypeOK'
      BY <2>1, <1>2, <1>3, <1>6 DEF TypeOK
    <2>3. HostInv'
      BY <2>1, <1>2, <1>6, <1>3 DEF HostInv, Dist
    <2>4. IndexInv'
      BY <2>1, <1>2, <1>3 DEF IndexInv, done, Dist
    <2> QED
      BY <2>2, <2>3, <2>4, <1>7 DEF IInv
  <1>9. CASE g # 0
    <2>1. /\ claim' = [start |-> w_offset, len |-> g, filled |-> 0]
          /\ w_offset' = ADVANCE(w_offset, g, MaxItem)
          /\ hpc' = "fill"
      BY <1>5, <1>9
    <2>2. /\ g \in 1..MaxItem-1
          /\ w_offset + g <= MaxItem
          /\ Dist(r_offset', w_offset) + g <= MaxItem - 1
      BY <1>1, <1>2, <1>6, <1>9, GrantedSpace
    <2>3. /\ w_offset' \in 0..MaxItem-1
          /\ Dist(tcm_r, w_offset') = Dist(tcm_r, w_offset) + g
          /\ Dist(r_offset', w_offset') = Dist(r_offset', w_offset) + g
      <3>1. /\ g \in Nat
            /\ Dist(r_offset', w_offset)
                 = Dist(r_offset', tcm_r) + Dist(tcm_r, w_offset)
            /\ r_offset' \in 0..MaxItem-1
        BY <1>6, <2>2
      <3> QED
        BY ONLY <3>1, <2>1, <2>2, DistExtend, w_offset \in 0..MaxItem-1,
           tcm_r \in 0..MaxItem-1
    <2>4. TypeOK'
      <3>1. claim' \in [start : 0..MaxItem-1, len : 0..MaxItem-1,
                        filled : 0..MaxItem-1]
        BY <2>1, <2>2
      <3>2. hpc' \in {"idle", "fill", "bell"}
        BY <2>1
      <3> QED
        BY <3>1, <3>2, <2>3, <1>2, <1>3, <1>6 DEF TypeOK
    <2>5. HostInv'
      <3>1. Dist(r_offset', w_offset')
              = Dist(r_offset', tcm_r) + Dist(tcm_r, w_offset')
        BY <1>2, <1>6, <2>2, <2>3, DistType
      <3> QED
        BY <3>1, <2>1, <2>2, <1>2, <1>3 DEF HostInv, Dist, NoClaim
    <2>6. IndexInv'
      <3>1. Dist(tcm_r, w_offset) = posted - done
        BY <1>2, <1>3 DEF IndexInv, NoClaim
      <3>2. Dist(tcm_r, w_offset') = (posted - done) + claim'.len
        BY <3>1, <2>1, <2>2, <2>3, <1>2
      <3> QED
        BY <3>2, <1>2, <1>3 DEF IndexInv, done, Dist
    <2> QED
      BY <2>4, <2>5, <2>6, <1>7 DEF IInv
  <1> QED
    BY <1>8, <1>9

(* What dhd_prot_rxbufpost and the control path share: the invariants of   *)
(* the dongle's side do not depend on the claim.                           *)
LEMMA ClaimSlots ==
  ASSUME IInv, hpc = "fill"
  PROVE  /\ claim.len \in 1..MaxItem-1 /\ claim.filled \in 0..claim.len
         /\ claim.start = tcm_w /\ tcm_w + claim.len <= MaxItem
         /\ w_offset = ADVANCE(tcm_w, claim.len, MaxItem)
         /\ \A i \in 0..claim.filled-1 : slot[tcm_w + i] = posted + i + 1
         /\ Dist(tcm_r, tcm_w) = posted - done
         /\ Dist(tcm_r, w_offset) = Dist(tcm_r, tcm_w) + claim.len
         /\ Dist(tcm_r, tcm_w) + claim.len <= MaxItem - 1
  <1>1. TypeOK /\ HostInv /\ IndexInv
    BY DEF IInv
  <1>2. claim.len \in 0..MaxItem-1 /\ claim.filled \in 0..MaxItem-1
    BY <1>1 DEF TypeOK
  <1>3. /\ claim.len >= 1 /\ claim.filled <= claim.len
        /\ claim.start = tcm_w /\ tcm_w + claim.len <= MaxItem
        /\ w_offset = ADVANCE(tcm_w, claim.len, MaxItem)
        /\ \A i \in 0..claim.filled-1 : slot[tcm_w + i] = posted + i + 1
    BY <1>1 DEF HostInv
  <1>4. /\ Dist(tcm_r, tcm_w) = posted - done
        /\ Dist(tcm_r, w_offset) = (posted - done) + claim.len
    BY <1>1 DEF IndexInv
  <1>5. Dist(tcm_r, w_offset) \in 0..MaxItem-1
    BY <1>1, IndexTypes, DistType
  <1> QED
    BY <1>2, <1>3, <1>4, <1>5, <1>1, IndexTypes, RingSize

LEMMA FillStep ==
  ASSUME IInv, Fill
  PROVE  IInv'
  <1> DEFINE k == claim.filled
             s == tcm_w + k
  <1>1. /\ TypeOK /\ PoolConserved
        /\ HostInv /\ IndexInv /\ SlotInv /\ DmaInv /\ LogInv
    BY DEF IInv
  <1>2. /\ hpc = "fill" /\ k < claim.len
        /\ UNCHANGED <<w_offset, r_offset, hpc, tcm_w, posted, doorbell, dpc,
                       ret, tcm_r, rd_pending, dmaq, handling, fetched, log,
                       availcnt, inuse, ioctl_dma, ioctl_lock, unlock_timer>>
    BY DEF Fill, dongleVars, ringVars, poolVars, lockVars
  <1>3. /\ claim.len \in 1..MaxItem-1 /\ k \in 0..claim.len
        /\ claim.start = tcm_w /\ tcm_w + claim.len <= MaxItem
        /\ w_offset = ADVANCE(tcm_w, claim.len, MaxItem)
        /\ \A i \in 0..k-1 : slot[tcm_w + i] = posted + i + 1
        /\ Dist(tcm_r, tcm_w) = posted - done
        /\ Dist(tcm_r, tcm_w) + claim.len <= MaxItem - 1
    BY <1>2, ClaimSlots
  <1>4. /\ w_offset \in 0..MaxItem-1 /\ r_offset \in 0..MaxItem-1
        /\ tcm_w \in 0..MaxItem-1 /\ tcm_r \in 0..MaxItem-1
        /\ posted \in Nat /\ done \in Int
    BY <1>1, IndexTypes
  <1>5. s \in 0..MaxItem-1 /\ Dist(tcm_r, s) = (posted - done) + k
    <2>1. /\ claim.len \in Nat /\ k \in 0..claim.len-1
          /\ Dist(tcm_r, tcm_w) + claim.len <= MaxItem
      BY <1>2, <1>3, <1>4, RingSize, DistType
    <2>2. \A j \in 0..claim.len-1 : /\ tcm_w + j \in 0..MaxItem-1
                                    /\ Dist(tcm_r, tcm_w + j)
                                         = Dist(tcm_r, tcm_w) + j
      BY ONLY <2>1, <1>3, <1>4, BlockSlots
    <2> QED
      BY <2>1, <2>2, <1>3
  <1>6. /\ slot' = [slot EXCEPT ![s] = posted + k + 1]
        /\ claim' = [claim EXCEPT !.filled = k + 1]
    BY <1>3 DEF Fill
  <1>7. claim \in [start : 0..MaxItem-1, len : 0..MaxItem-1,
                   filled : 0..MaxItem-1]
    BY <1>1 DEF TypeOK
  <1>8. slot \in [0..MaxItem-1 -> Nat]
    BY <1>1 DEF TypeOK
  <1>9. /\ claim'.start = claim.start /\ claim'.len = claim.len
        /\ claim'.filled = k + 1 /\ k \in Nat
    BY <1>3, <1>6, <1>7
  <1> HIDE DEF k, s
  <1>10. TypeOK'
    <2>1. claim' \in [start : 0..MaxItem-1, len : 0..MaxItem-1,
                      filled : 0..MaxItem-1]
      BY <1>2, <1>3, <1>6, <1>7, RingSize
    <2>2. slot' \in [0..MaxItem-1 -> Nat]
      BY SMTT(30), <1>4, <1>5, <1>6, <1>8, <1>9
    <2> QED
      BY <2>1, <2>2, <1>1, <1>2 DEF TypeOK
  <1>11. HostInv'
    <2>1. \A i \in 0..k : slot'[tcm_w + i] = posted + i + 1
      <3> SUFFICES ASSUME NEW i \in 0..k
                   PROVE  slot'[tcm_w + i] = posted + i + 1
        OBVIOUS
      <3>1. CASE i = k
        BY <3>1, <1>5, <1>6, <1>8 DEF s
      <3>2. CASE i # k
        <4>1. i \in 0..k-1 /\ tcm_w + i # s
          BY <3>2, <1>4, <1>9 DEF s
        <4> QED
          BY <4>1, <1>3, <1>5, <1>6, <1>8
      <3> QED
        BY <3>1, <3>2
    <2>2. Dist(r_offset, w_offset)
            = Dist(r_offset, tcm_r) + Dist(tcm_r, w_offset)
      BY <1>1 DEF HostInv
    <2> QED
      BY <2>1, <2>2, <1>2, <1>3, <1>9 DEF HostInv, Dist
  <1>12. IndexInv' /\ LogInv' /\ PoolConserved'
    BY <1>1, <1>2, <1>9 DEF IndexInv, LogInv, PoolConserved, done, Dist
  <1>13. SlotInv'
    <2> SUFFICES ASSUME NEW i \in 0..MaxItem-1, Dist(tcm_r, i) < posted - done
                 PROVE  slot'[i] = done + Dist(tcm_r, i) + 1
      BY <1>2 DEF SlotInv, Dist, done
    <2>1. i # s
      BY <1>4, <1>5, <1>9
    <2> QED
      BY <2>1, <1>1, <1>6, <1>8 DEF SlotInv
  <1>14. DmaInv'
    BY <1>1, <1>2 DEF DmaInv, done, Dist
  <1> QED
    BY <1>10, <1>11, <1>12, <1>13, <1>14 DEF IInv

LEMMA GiveUpStep ==
  ASSUME IInv, GiveUp
  PROVE  IInv'
  <1> DEFINE k == claim.filled
  <1>1. /\ TypeOK /\ PoolConserved
        /\ HostInv /\ IndexInv /\ SlotInv /\ DmaInv /\ LogInv
    BY DEF IInv
  <1>2. /\ hpc = "fill" /\ k < claim.len
        /\ UNCHANGED <<slot, r_offset, tcm_w, posted, doorbell, dpc,
                       ret, tcm_r, rd_pending, dmaq, handling, fetched, log,
                       availcnt, inuse, ioctl_dma, ioctl_lock, unlock_timer>>
    BY DEF GiveUp, dongleVars, ringVars, poolVars, lockVars
  <1>3. /\ claim.len \in 1..MaxItem-1 /\ k \in 0..claim.len
        /\ claim.start = tcm_w /\ tcm_w + claim.len <= MaxItem
        /\ w_offset = ADVANCE(tcm_w, claim.len, MaxItem)
        /\ \A i \in 0..k-1 : slot[tcm_w + i] = posted + i + 1
        /\ Dist(tcm_r, tcm_w) = posted - done
        /\ Dist(tcm_r, w_offset) = Dist(tcm_r, tcm_w) + claim.len
        /\ Dist(tcm_r, tcm_w) + claim.len <= MaxItem - 1
    BY <1>2, ClaimSlots
  <1>4. /\ w_offset \in 0..MaxItem-1 /\ r_offset \in 0..MaxItem-1
        /\ tcm_w \in 0..MaxItem-1 /\ tcm_r \in 0..MaxItem-1
        /\ posted \in Nat /\ done \in Int
    BY <1>1, IndexTypes
  <1>5. w_offset' = ADVANCE(tcm_w, k, MaxItem)
    BY <1>2, <1>3, <1>4, RingSize DEF GiveUp, RolledBack, ADVANCE
  <1>6. Dist(r_offset, w_offset) = Dist(r_offset, tcm_r) + Dist(tcm_r, w_offset)
    BY <1>1 DEF HostInv
  <1>7. claim \in [start : 0..MaxItem-1, len : 0..MaxItem-1,
                   filled : 0..MaxItem-1]
    BY <1>1 DEF TypeOK
  <1>8. /\ Dist(tcm_r, w_offset) \in 0..MaxItem-1
        /\ Dist(r_offset, w_offset) \in 0..MaxItem-1
        /\ Dist(r_offset, tcm_w) \in 0..MaxItem-1
        /\ Dist(r_offset, tcm_r) \in 0..MaxItem-1
        /\ Dist(tcm_r, tcm_w) \in 0..MaxItem-1
    BY <1>4, DistType
  <1>9. \/ k = 0 /\ hpc' = "idle" /\ claim' = NoClaim
        \/ k # 0 /\ hpc' = "fill" /\ claim' = [claim EXCEPT !.len = k]
    BY <1>2 DEF GiveUp
  <1>10. claim'.len = k /\ (hpc' = "fill" => /\ claim'.filled = k
                                             /\ claim'.start = tcm_w)
    BY <1>3, <1>7, <1>9 DEF NoClaim
  <1>11. claim' \in [start : 0..MaxItem-1, len : 0..MaxItem-1,
                     filled : 0..MaxItem-1]
    BY <1>3, <1>7, <1>9, RingSize DEF NoClaim
  <1> HIDE DEF k
  <1>12. Dist(r_offset, tcm_w) = Dist(r_offset, tcm_r) + Dist(tcm_r, tcm_w)
    <2>1. claim.len \in Nat
      BY <1>3
    <2> QED
      BY ONLY <2>1, <1>3, <1>4, <1>6, DistRetract, r_offset \in 0..MaxItem-1
  <1>13. /\ w_offset' \in 0..MaxItem-1
         /\ Dist(tcm_r, w_offset') = Dist(tcm_r, tcm_w) + k
         /\ Dist(r_offset, w_offset') = Dist(r_offset, tcm_w) + k
    <2>1. /\ k \in Nat /\ tcm_w + k <= MaxItem
          /\ Dist(r_offset, tcm_w) + k <= MaxItem - 1
      BY <1>2, <1>3, <1>4, <1>6, <1>8, <1>12, RingSize
    <2> QED
      BY ONLY <2>1, <1>4, <1>5, <1>12, DistExtend
  <1>14. TypeOK'
    <2>1. hpc' \in {"idle", "fill", "bell"}
      BY <1>9
    <2> QED
      BY <2>1, <1>1, <1>2, <1>11, <1>13 DEF TypeOK
  <1>15. HostInv'
    <2>1. Dist(r_offset, w_offset')
            = Dist(r_offset, tcm_r) + Dist(tcm_r, w_offset')
      BY <1>3, <1>8, <1>12, <1>13
    <2>2. CASE k = 0
      <3>1. hpc' = "idle" /\ claim' = NoClaim
        BY <2>2, <1>9
      <3>2. w_offset' = tcm_w
        BY <2>2, <1>4, <1>5, RingSize DEF ADVANCE
      <3> QED
        BY <3>1, <3>2, <2>1, <1>2 DEF HostInv, Dist
    <2>3. CASE k # 0
      <3>1. hpc' = "fill" /\ claim'.filled = k /\ claim'.start = tcm_w
        BY <2>3, <1>9, <1>10
      <3>2. k >= 1 /\ tcm_w + k <= MaxItem
        BY <2>3, <1>2, <1>3, <1>4, RingSize
      <3> QED
        BY <3>1, <3>2, <2>1, <1>2, <1>3, <1>5, <1>10 DEF HostInv, Dist
    <2> QED
      BY <2>2, <2>3
  <1>16. IndexInv'
    <2>1. Dist(tcm_r, w_offset') = (posted - done) + claim'.len
      BY <1>3, <1>10, <1>13
    <2> QED
      BY <2>1, <1>1, <1>2 DEF IndexInv, done, Dist
  <1>17. SlotInv' /\ DmaInv' /\ LogInv' /\ PoolConserved'
    BY <1>1, <1>2 DEF SlotInv, DmaInv, LogInv, PoolConserved, done, Dist
  <1> QED
    BY <1>14, <1>15, <1>16, <1>17 DEF IInv

LEMMA PublishStep ==
  ASSUME IInv, PublishIndex
  PROVE  IInv'
  <1> DEFINE k == claim.len
  <1>1. /\ TypeOK /\ PoolConserved
        /\ HostInv /\ IndexInv /\ SlotInv /\ DmaInv /\ LogInv
    BY DEF IInv
  <1>2. /\ hpc = "fill" /\ claim.filled = k /\ tcm_w' = w_offset
        /\ posted' = posted + k /\ hpc' = "bell" /\ claim' = NoClaim
        /\ UNCHANGED <<slot, w_offset, r_offset, doorbell, dpc,
                       ret, tcm_r, rd_pending, dmaq, handling, fetched, log,
                       availcnt, inuse, ioctl_dma, ioctl_lock, unlock_timer>>
    BY DEF PublishIndex, dongleVars, ringVars, poolVars, lockVars
  <1>3. /\ k \in 1..MaxItem-1 /\ tcm_w + k <= MaxItem
        /\ \A i \in 0..k-1 : slot[tcm_w + i] = posted + i + 1
        /\ Dist(tcm_r, tcm_w) = posted - done
        /\ Dist(tcm_r, w_offset) = Dist(tcm_r, tcm_w) + k
        /\ Dist(tcm_r, tcm_w) + k <= MaxItem - 1
    BY <1>2, ClaimSlots
  <1>4. /\ w_offset \in 0..MaxItem-1 /\ r_offset \in 0..MaxItem-1
        /\ tcm_w \in 0..MaxItem-1 /\ tcm_r \in 0..MaxItem-1
        /\ posted \in Nat /\ done \in Int /\ fetched \in Nat
    BY <1>1, IndexTypes
  <1>5. NoClaim.len = 0 /\ NoClaim \in [start : 0..MaxItem-1, len : 0..MaxItem-1,
                                        filled : 0..MaxItem-1]
    BY RingSize DEF NoClaim
  <1> HIDE DEF k
  <1>6. TypeOK'
    <2>1. posted' \in Nat /\ hpc' \in {"idle", "fill", "bell"}
      BY <1>2, <1>3, <1>4, RingSize
    <2> QED
      BY <2>1, <1>1, <1>2, <1>4, <1>5 DEF TypeOK
  <1>7. HostInv'
    <2>1. Dist(r_offset, w_offset)
            = Dist(r_offset, tcm_r) + Dist(tcm_r, w_offset)
      BY <1>1 DEF HostInv
    <2> QED
      BY <2>1, <1>2 DEF HostInv, Dist
  <1>8. IndexInv'
    <2>1. Dist(tcm_r, w_offset) = (posted + k) - done /\ fetched <= posted + k
      BY <1>1, <1>3, <1>4 DEF IndexInv
    <2>2. (posted + k) - done = ((posted + k) - done) + 0
      BY <1>3, <1>4
    <2> QED
      BY <2>1, <2>2, <1>1, <1>2, <1>5 DEF IndexInv, done, Dist
  <1>9. SlotInv'
    <2> SUFFICES ASSUME NEW i \in 0..MaxItem-1,
                        Dist(tcm_r, i) < (posted + k) - done
                 PROVE  slot[i] = done + Dist(tcm_r, i) + 1
      BY <1>2 DEF SlotInv, Dist, done
    <2>1. CASE Dist(tcm_r, i) < posted - done
      BY <2>1, <1>1 DEF SlotInv
    <2>2. CASE ~(Dist(tcm_r, i) < posted - done)
      <3>1. /\ Dist(tcm_r, i) \in Int
            /\ Dist(tcm_r, tcm_w) <= Dist(tcm_r, i)
            /\ Dist(tcm_r, i) < Dist(tcm_r, tcm_w) + k
        BY <2>2, <1>3, <1>4, DistType
      <3>2. k \in Nat /\ Dist(tcm_r, tcm_w) + k <= MaxItem
        BY <1>3, <1>4, DistType, RingSize
      <3>3. /\ i - tcm_w \in 0..k-1
            /\ Dist(tcm_r, i) = Dist(tcm_r, tcm_w) + (i - tcm_w)
        BY ONLY <3>1, <3>2, <1>3, <1>4, BlockSlots, i \in 0..MaxItem-1
      <3>4. slot[tcm_w + (i - tcm_w)] = posted + (i - tcm_w) + 1
        BY <3>3, <1>3
      <3>5. tcm_w + (i - tcm_w) = i
        BY <1>4
      <3> QED
        BY <3>3, <3>4, <3>5, <1>3, <1>4
    <2> QED
      BY <2>1, <2>2
  <1>10. DmaInv' /\ LogInv' /\ PoolConserved'
    BY <1>1, <1>2 DEF DmaInv, LogInv, PoolConserved, done, Dist
  <1> QED
    BY <1>6, <1>7, <1>8, <1>9, <1>10 DEF IInv

(* The steps that move neither an index nor a message.                     *)
LEMMA FrameStep ==
  ASSUME IInv,
         UNCHANGED <<slot, w_offset, r_offset, claim, tcm_w, posted, ringVars>>,
         UNCHANGED hpc \/ (hpc = "bell" /\ hpc' = "idle"),
         doorbell' \in BOOLEAN, ioctl_dma' \in BOOLEAN,
         ioctl_lock' \in BOOLEAN, unlock_timer' \in BOOLEAN,
         dpc' \in {"idle", "handle", "dma", "scan"}, ret' \in {"idle", "handle"},
         handling = 0 <=> dpc' \in {"idle", "dma"} \/ (dpc' = "scan" /\ ret' = "idle"),
         availcnt' \in 0..BufCnt, inuse' \in Seq(1..MaxItem),
         availcnt' + Len(inuse') = availcnt + Len(inuse)
  PROVE  IInv'
  <1>1. /\ TypeOK /\ PoolConserved
        /\ HostInv /\ IndexInv /\ SlotInv /\ DmaInv /\ LogInv
    BY DEF IInv
  <1>2. UNCHANGED <<slot, w_offset, r_offset, claim, tcm_w, posted, tcm_r,
                    rd_pending, dmaq, handling, fetched, log>>
    BY DEF ringVars
  <1>3. SlotInv' /\ DmaInv' /\ LogInv'
    BY <1>1, <1>2 DEF SlotInv, DmaInv, LogInv, done, Dist
  <1>4. IndexInv'
    BY <1>1, <1>2 DEF IndexInv, done, Dist
  <1>5. HostInv'
    BY <1>1, <1>2 DEF HostInv, Dist
  <1>6. TypeOK'
    <2>1. hpc' \in {"idle", "fill", "bell"}
      BY <1>1 DEF TypeOK
    <2> QED
      BY <2>1, <1>1, <1>2 DEF TypeOK
  <1>7. PoolConserved'
    <2>1. /\ Len(inuse) \in Nat /\ Len(inuse') \in Nat /\ Len(dmaq) \in Nat
          /\ availcnt \in Int /\ availcnt' \in Int /\ BufCnt \in Int
      <3>1. BufCnt \in Nat
        BY RingAssumption
      <3>2. inuse \in Seq(1..MaxItem) /\ availcnt \in 0..BufCnt
        BY <1>1 DEF TypeOK
      <3>3. dmaq \in Seq([from : 0..MaxItem-1, len : 1..MaxItem-1, first : Nat])
        BY <1>1 DEF TypeOK
      <3> QED
        BY ONLY <3>1, <3>2, <3>3, availcnt' \in 0..BufCnt,
                inuse' \in Seq(1..MaxItem)
    <2> QED
      BY <2>1, <1>1, <1>2 DEF PoolConserved
  <1> QED
    BY <1>3, <1>4, <1>5, <1>6, <1>7 DEF IInv

(* msgbuf_intr_process keeps the thread's state consistent.                *)
LEMMA ScanStep ==
  ASSUME TypeOK, IndexInv, dpc \in {"idle", "dma", "handle"},
         NEW back \in {"idle", "handle"}, back = "handle" <=> dpc = "handle",
         msgbuf_intr_process(back)
  PROVE  /\ dpc' \in {"idle", "handle", "dma", "scan"} /\ ret' \in {"idle", "handle"}
         /\ handling = 0 <=> dpc' \in {"idle", "dma"} \/ (dpc' = "scan" /\ ret' = "idle")
  <1>1. ret \in {"idle", "handle"}
    BY DEF TypeOK
  <1>2. handling = 0 <=> dpc \in {"idle", "dma"}
    BY DEF IndexInv
  <1> QED
    BY <1>1, <1>2 DEF msgbuf_intr_process

(* Facts about the buffer pool.                                            *)
LEMMA PoolTypes ==
  ASSUME IInv
  PROVE  /\ BufCnt \in Nat /\ availcnt \in 0..BufCnt
         /\ inuse \in Seq(1..MaxItem) /\ Len(inuse) \in Nat
         /\ dmaq \in Seq([from : 0..MaxItem-1, len : 1..MaxItem-1, first : Nat])
         /\ Len(dmaq) \in Nat
         /\ availcnt + Len(dmaq) + Len(inuse) <= BufCnt
         /\ handling # 0 /\ ~InUsePool =>
              availcnt + Len(dmaq) + Len(inuse) < BufCnt
         /\ handling = 0 \/ InUsePool =>
              availcnt + Len(dmaq) + Len(inuse) = BufCnt
  <1>1. /\ BufCnt \in Nat /\ availcnt \in 0..BufCnt
        /\ inuse \in Seq(1..MaxItem)
    BY RingAssumption DEF IInv, TypeOK
  <1>2. dmaq \in Seq([from : 0..MaxItem-1, len : 1..MaxItem-1, first : Nat])
    BY DEF IInv, TypeOK
  <1>3. availcnt + Len(dmaq) + Len(inuse)
          + (IF handling # 0 /\ ~InUsePool THEN 1 ELSE 0) = BufCnt
    BY DEF IInv, PoolConserved
  <1>4. Len(dmaq) \in Nat /\ Len(inuse) \in Nat
    BY <1>1, <1>2
  <1> QED
    <2>1. CASE handling # 0 /\ ~InUsePool
      BY <2>1, <1>1, <1>2, <1>3, <1>4
    <2>2. CASE ~(handling # 0 /\ ~InUsePool)
      BY <2>2, <1>1, <1>2, <1>3, <1>4
    <2> QED
      BY <2>1, <2>2

LEMMA QuietSteps ==
  ASSUME IInv,
         \/ RingDoorbell \/ DoorbellIntr \/ EndScan \/ HandleIoctlDma
         \/ EndDma \/ IoctlDone \/ UnlockTimer \/ UNCHANGED vars
  PROVE  IInv'
  <1>1. /\ TypeOK /\ IndexInv
        /\ hpc \in {"idle", "fill", "bell"}
        /\ doorbell \in BOOLEAN /\ ioctl_dma \in BOOLEAN
        /\ ioctl_lock \in BOOLEAN /\ unlock_timer \in BOOLEAN
        /\ dpc \in {"idle", "handle", "dma", "scan"} /\ ret \in {"idle", "handle"}
        /\ availcnt \in 0..BufCnt /\ inuse \in Seq(1..MaxItem)
    BY DEF IInv, TypeOK
  <1>2. handling = 0 <=> dpc \in {"idle", "dma"} \/ (dpc = "scan" /\ ret = "idle")
    BY <1>1 DEF IndexInv
  <1>3. availcnt + Len(inuse) = availcnt + Len(inuse)
    OBVIOUS
  <1>4. CASE RingDoorbell
    BY <1>1, <1>2, <1>4, FrameStep
       DEF RingDoorbell, dongleVars, ringVars, poolVars, lockVars
  <1>5. CASE DoorbellIntr
    <2>1. /\ dpc' \in {"idle", "handle", "dma", "scan"} /\ ret' \in {"idle", "handle"}
          /\ handling = 0 <=> dpc' \in {"idle", "dma"} \/ (dpc' = "scan" /\ ret' = "idle")
      BY <1>1, <1>5, ScanStep DEF DoorbellIntr
    <2> QED
      BY <2>1, <1>1, <1>5, FrameStep
         DEF DoorbellIntr, hostVars, poolVars, lockVars
  <1>6. CASE EndScan
    <2>1. ioctl_dma' \in BOOLEAN
      BY <1>1, <1>6, RingAssumption DEF EndScan
    <2>2. dpc = "scan" /\ dpc' = ret /\ ret' = ret
      BY <1>6 DEF EndScan
    <2>3. /\ dpc' \in {"idle", "handle", "dma", "scan"} /\ ret' \in {"idle", "handle"}
          /\ handling = 0 <=> dpc' \in {"idle", "dma"} \/ (dpc' = "scan" /\ ret' = "idle")
      BY <1>1, <1>2, <2>2
    <2> QED
      BY <2>1, <2>3, <1>1, <1>6, FrameStep DEF EndScan, hostVars, poolVars
  <1>7. CASE HandleIoctlDma
    BY <1>1, <1>2, <1>7, FrameStep DEF HandleIoctlDma, hostVars, poolVars
  <1>8. CASE EndDma
    <2>1. /\ dpc' \in {"idle", "handle", "dma", "scan"} /\ ret' \in {"idle", "handle"}
          /\ handling = 0 <=> dpc' \in {"idle", "dma"} \/ (dpc' = "scan" /\ ret' = "idle")
      BY <1>1, <1>8, ScanStep DEF EndDma
    <2> QED
      BY <2>1, <1>1, <1>8, FrameStep DEF EndDma, hostVars, poolVars, lockVars
  <1>9. CASE IoctlDone
    BY <1>1, <1>2, <1>9, FrameStep DEF IoctlDone, hostVars, poolVars
  <1>10. CASE UnlockTimer
    <2>1. /\ dpc' \in {"idle", "handle", "dma", "scan"} /\ ret' \in {"idle", "handle"}
          /\ handling = 0 <=> dpc' \in {"idle", "dma"} \/ (dpc' = "scan" /\ ret' = "idle")
      BY <1>1, <1>10, ScanStep DEF UnlockTimer
    <2> QED
      BY <2>1, <1>1, <1>10, FrameStep DEF UnlockTimer, hostVars, poolVars
  <1>11. CASE UNCHANGED vars
    BY <1>1, <1>2, <1>11, FrameStep
       DEF vars, hostVars, dongleVars, poolVars, lockVars
  <1> QED
    BY <1>4, <1>5, <1>6, <1>7, <1>8, <1>9, <1>10, <1>11

LEMMA TakeRxBufStep ==
  ASSUME IInv, TakeRxBuf
  PROVE  IInv'
  <1>1. /\ TypeOK /\ IndexInv
        /\ doorbell \in BOOLEAN /\ ioctl_dma \in BOOLEAN
        /\ ioctl_lock \in BOOLEAN /\ unlock_timer \in BOOLEAN
        /\ dpc \in {"idle", "handle", "dma", "scan"} /\ ret \in {"idle", "handle"}
    BY DEF IInv, TypeOK
  <1>2. handling = 0 <=> dpc \in {"idle", "dma"} \/ (dpc = "scan" /\ ret = "idle")
    BY <1>1 DEF IndexInv
  <1>3. /\ dpc \in {"idle", "handle"} /\ inuse # <<>>
        /\ UNCHANGED <<slot, w_offset, r_offset, claim, tcm_w, posted, ringVars,
                       hpc, doorbell, ioctl_dma, ioctl_lock, unlock_timer>>
    BY DEF TakeRxBuf, hostVars, lockVars
  <1>4. /\ BufCnt \in Nat /\ availcnt \in 0..BufCnt
        /\ inuse \in Seq(1..MaxItem) /\ Len(inuse) \in Nat /\ Len(dmaq) \in Nat
        /\ availcnt + Len(dmaq) + Len(inuse) <= BufCnt
    BY PoolTypes
  <1> MaxItem \in Nat /\ MaxItem >= 2
    BY RingSize
  <1>5. CASE inuse[1] = 1
    <2>1. /\ inuse' = Tail(inuse) /\ availcnt' = availcnt + 1
          /\ msgbuf_intr_process(dpc)
      BY <1>5 DEF TakeRxBuf
    <2>2. inuse' \in Seq(1..MaxItem) /\ Len(inuse') = Len(inuse) - 1 /\ Len(inuse) >= 1
      BY <2>1, <1>3, <1>4
    <2>3. availcnt' \in 0..BufCnt /\ availcnt' + Len(inuse') = availcnt + Len(inuse)
      BY <2>1, <2>2, <1>4
    <2>4. /\ dpc' \in {"idle", "handle", "dma", "scan"} /\ ret' \in {"idle", "handle"}
          /\ handling = 0 <=> dpc' \in {"idle", "dma"} \/ (dpc' = "scan" /\ ret' = "idle")
      BY <2>1, <1>1, <1>3, ScanStep
    <2> QED
      BY <2>2, <2>3, <2>4, <1>1, <1>3, FrameStep
  <1>6. CASE inuse[1] # 1
    <2>1. inuse' = [inuse EXCEPT ![1] = @ - 1] /\ UNCHANGED <<availcnt, dpc, ret>>
      BY <1>6 DEF TakeRxBuf
    <2>2. inuse[1] \in 1..MaxItem /\ 1 \in 1..Len(inuse)
      BY <1>3, <1>4
    <2>3. inuse[1] - 1 \in 1..MaxItem
      BY <2>2, <1>6, RingSize
    <2>4. inuse' \in Seq(1..MaxItem) /\ Len(inuse') = Len(inuse)
      BY ONLY <2>1, <2>2, <2>3, <1>4, ExceptSeq
    <2> QED
      BY <2>1, <2>4, <1>1, <1>2, <1>3, <1>4, FrameStep
  <1> QED
    BY <1>5, <1>6

(* The records of the DMA queue.                                           *)
LEMMA DmaTypes ==
  ASSUME IInv
  PROVE  /\ dmaq \in Seq([from : 0..MaxItem-1, len : 1..MaxItem-1, first : Nat])
         /\ Len(dmaq) \in Nat
         /\ \A k \in 1..Len(dmaq) :
              /\ dmaq[k].from \in 0..MaxItem-1 /\ dmaq[k].len \in 1..MaxItem-1
              /\ dmaq[k].first \in Nat
  <1>1. dmaq \in Seq([from : 0..MaxItem-1, len : 1..MaxItem-1, first : Nat])
    BY DEF IInv, TypeOK
  <1>2. /\ Len(dmaq) \in Nat
        /\ \A k \in 1..Len(dmaq) :
             dmaq[k] \in [from : 0..MaxItem-1, len : 1..MaxItem-1, first : Nat]
    BY ONLY <1>1, ElementOfSeq, LenProperties
  <1> QED
    BY ONLY <1>1, <1>2

(* pciedev_read_host_buffer.                                               *)
LEMMA StartFetchStep ==
  ASSUME IInv, StartFetch
  PROVE  IInv'
  <1> DEFINE avail == READ_AVAIL_SPACE(tcm_w, rd_pending, MaxItem)
             len   == MIN(avail, ItemCnt)
             b     == [from |-> rd_pending, len |-> len, first |-> fetched + 1]
             R     == [from : 0..MaxItem-1, len : 1..MaxItem-1, first : Nat]
  <1>1. /\ TypeOK /\ PoolConserved
        /\ HostInv /\ IndexInv /\ SlotInv /\ DmaInv /\ LogInv
    BY DEF IInv
  <1>2. /\ UNCHANGED <<slot, w_offset, r_offset, hpc, claim, tcm_w, posted,
                       doorbell, dpc, ret, tcm_r, handling, log, inuse,
                       ioctl_dma, ioctl_lock, unlock_timer>>
        /\ dpc = "scan" /\ avail # 0 /\ availcnt # 0
        /\ dmaq' = Append(dmaq, b) /\ fetched' = fetched + len
        /\ rd_pending' = ADVANCE(rd_pending, len, MaxItem)
        /\ availcnt' = availcnt - 1
    BY DEF StartFetch, hostVars, lockVars
  <1>3. /\ tcm_w \in 0..MaxItem-1 /\ tcm_r \in 0..MaxItem-1
        /\ rd_pending \in 0..MaxItem-1 /\ Len(log) \in Nat
        /\ posted \in Nat /\ done \in Int /\ fetched \in Nat
    BY <1>1, IndexTypes
  <1>4. /\ Dist(tcm_r, tcm_w) = posted - done
        /\ Dist(tcm_r, rd_pending) = fetched - done
        /\ Len(log) <= fetched /\ fetched <= posted
    BY <1>1 DEF IndexInv
  <1>5. /\ len \in 1..MaxItem-1 /\ rd_pending + len <= MaxItem
        /\ len <= posted - fetched
    <2>1. ItemCnt \in Nat /\ ItemCnt >= 1
      BY RingAssumption
    <2>2. /\ avail \in 1..MaxItem-1 /\ rd_pending + avail <= MaxItem
          /\ avail <= posted - fetched
      BY <1>2, <1>3, <1>4, RingSize DEF READ_AVAIL_SPACE, Dist, NTXPACTIVE
    <2> HIDE DEF avail
    <2> QED
      BY <2>1, <2>2, <1>3, RingSize DEF MIN
  <1>6. /\ rd_pending' \in 0..MaxItem-1
        /\ Dist(tcm_r, rd_pending') = Dist(tcm_r, rd_pending) + len
    <2>1. len \in Nat /\ Dist(tcm_r, rd_pending) + len <= MaxItem - 1
      <3> HIDE DEF len
      <3>1. Dist(tcm_r, tcm_w) \in 0..MaxItem-1 /\ Dist(tcm_r, rd_pending) \in 0..MaxItem-1
        BY <1>3, DistType
      <3> QED
        BY ONLY <3>1, <1>3, <1>4, <1>5, RingSize
    <2>2. Dist(tcm_r, tcm_r) = 0
      BY <1>3 DEF Dist, NTXPACTIVE
    <2>3. /\ ADVANCE(rd_pending, len, MaxItem) \in 0..MaxItem-1
          /\ Dist(tcm_r, ADVANCE(rd_pending, len, MaxItem))
               = Dist(tcm_r, rd_pending) + len
      <3>1. Dist(tcm_r, rd_pending) = Dist(tcm_r, tcm_r) + Dist(tcm_r, rd_pending)
        BY <2>2, <1>3, DistType
      <3> QED
        BY ONLY <3>1, <2>1, <1>3, <1>5, DistExtend
    <2> QED
      BY <2>3, <1>2
  <1>7. dmaq \in Seq(R) /\ Len(dmaq) \in Nat
    BY DmaTypes
  <1>8. b \in R /\ b.from = rd_pending /\ b.len = len /\ b.first = fetched + 1
    BY <1>3, <1>5
  <1> HIDE DEF b, R, len, avail
  <1>9. /\ dmaq' \in Seq(R) /\ dmaq' # <<>>
        /\ Len(dmaq') = Len(dmaq) + 1
        /\ \A k \in 1..Len(dmaq) : dmaq'[k] = dmaq[k]
        /\ dmaq'[Len(dmaq) + 1] = b
    BY ONLY <1>2, <1>7, <1>8, AppendProperties
  <1>10. /\ BufCnt \in Nat /\ availcnt \in 0..BufCnt
    BY PoolTypes
  <1>11. TypeOK'
    <2>1. fetched' \in Nat /\ availcnt' \in 0..BufCnt
      BY <1>2, <1>3, <1>5, <1>10, RingSize
    <2> QED
      BY <2>1, <1>1, <1>2, <1>6, <1>9 DEF TypeOK, R
  <1>12. PoolConserved'
    <2>1. availcnt' + Len(dmaq') = availcnt + Len(dmaq)
      BY <1>2, <1>7, <1>9, <1>10
    <2> QED
      BY <2>1, <1>1, <1>2 DEF PoolConserved
  <1>13. HostInv' /\ LogInv'
    BY <1>1, <1>2 DEF HostInv, LogInv, Dist
  <1>14. IndexInv'
    <2>1. /\ Dist(tcm_r, rd_pending') = fetched' - done
          /\ Len(log) <= fetched' /\ fetched' <= posted
      BY <1>2, <1>3, <1>4, <1>5, <1>6
    <2> QED
      BY <2>1, <1>1, <1>2 DEF IndexInv, Dist, done
  <1>15. SlotInv'
    BY <1>1, <1>2 DEF SlotInv, Dist, done
  <1>16. DmaInv'
    <2>1. /\ dmaq'[Len(dmaq')].first + dmaq'[Len(dmaq')].len = fetched' + 1
      <3>1. dmaq'[Len(dmaq')] = b
        BY <1>9
      <3>2. fetched + 1 + len = fetched + len + 1
        BY <1>3, <1>5, RingSize
      <3> QED
        BY <3>1, <3>2, <1>2, <1>8
    <2>2. dmaq'[1].first = Len(log) + 1
      <3>1. CASE dmaq = <<>>
        <4>1. fetched = Len(log) /\ Len(dmaq) = 0
          BY <3>1, <1>1 DEF DmaInv
        <4>2. dmaq'[1] = b
          BY <4>1, <1>9
        <4> QED
          BY <4>1, <4>2, <1>8
      <3>2. CASE dmaq # <<>>
        <4>1. 1 \in 1..Len(dmaq)
          BY <3>2, <1>7
        <4>2. dmaq'[1] = dmaq[1]
          BY <4>1, <1>9
        <4> QED
          BY <3>2, <4>2, <1>1 DEF DmaInv
      <3> QED
        BY <3>1, <3>2
    <2>3. ASSUME NEW k \in 1..Len(dmaq')
          PROVE  /\ dmaq'[k].from + dmaq'[k].len <= MaxItem
                 /\ dmaq'[k].first >= Len(log) + 1
                 /\ dmaq'[k].first + dmaq'[k].len <= fetched' + 1
                 /\ Dist(tcm_r, dmaq'[k].from) = (dmaq'[k].first - 1) - done
                 /\ k < Len(dmaq') => dmaq'[k+1].first = dmaq'[k].first + dmaq'[k].len
                 /\ \A j \in 1..k-1 : dmaq'[j].first + dmaq'[j].len <= dmaq'[k].first
      <3>1. CASE k = Len(dmaq) + 1
        <4>1. dmaq'[k] = b
          BY <3>1, <1>9
        <4>2. /\ b.from + b.len <= MaxItem /\ b.first >= Len(log) + 1
              /\ b.first + b.len <= fetched' + 1
              /\ Dist(tcm_r, b.from) = (b.first - 1) - done
          BY <1>2, <1>3, <1>4, <1>5, <1>8
        <4>3. ~(k < Len(dmaq'))
          BY <3>1, <1>7, <1>9
        <4>4. ASSUME NEW j \in 1..k-1
              PROVE  dmaq'[j].first + dmaq'[j].len <= b.first
          <5>1. j \in 1..Len(dmaq) /\ dmaq'[j] = dmaq[j]
            BY <3>1, <1>7, <1>9
          <5>2. dmaq[j].first + dmaq[j].len <= fetched + 1
            BY <5>1, <1>1 DEF DmaInv
          <5> QED
            BY <5>1, <5>2, <1>8
        <4> QED
          BY <4>1, <4>2, <4>3, <4>4
      <3>2. CASE k \in 1..Len(dmaq)
        <4>1. /\ dmaq'[k] = dmaq[k]
              /\ dmaq[k].first \in Nat /\ dmaq[k].len \in 1..MaxItem-1
          BY <3>2, <1>9, DmaTypes
        <4>2. /\ dmaq[k].from + dmaq[k].len <= MaxItem
              /\ dmaq[k].first >= Len(log) + 1
              /\ dmaq[k].first + dmaq[k].len <= fetched + 1
              /\ Dist(tcm_r, dmaq[k].from) = (dmaq[k].first - 1) - done
              /\ k < Len(dmaq) => dmaq[k+1].first = dmaq[k].first + dmaq[k].len
              /\ \A j \in 1..k-1 : dmaq[j].first + dmaq[j].len <= dmaq[k].first
          BY <3>2, <1>1 DEF DmaInv
        <4>3. dmaq[k].first + dmaq[k].len <= fetched' + 1
          <5>1. fetched' = fetched + len /\ len \in Nat
            BY <1>2, <1>5
          <5>2. dmaq[k].first + dmaq[k].len \in Nat
            BY <4>1, RingSize
          <5> QED
            BY ONLY <5>1, <5>2, <4>2, <1>3
        <4>4. k < Len(dmaq') => dmaq'[k+1].first = dmaq[k].first + dmaq[k].len
          <5>1. CASE k < Len(dmaq)
            <6>1. k + 1 \in 1..Len(dmaq)
              BY <5>1, <3>2, <1>7
            <6>2. dmaq'[k+1] = dmaq[k+1]
              BY <6>1, <1>9
            <6> QED
              BY <5>1, <6>2, <4>2
          <5>2. CASE k = Len(dmaq)
            <6>1. dmaq # <<>>
              BY <5>2, <3>2
            <6>2. dmaq[k].first + dmaq[k].len = fetched + 1
              BY <6>1, <5>2, <1>1 DEF DmaInv
            <6> QED
              BY <6>2, <5>2, <1>8, <1>9
          <5> QED
            BY <5>1, <5>2, <3>2, <1>7
        <4>5. \A j \in 1..k-1 : dmaq'[j] = dmaq[j]
          BY <3>2, <1>7, <1>9
        <4> QED
          BY <4>1, <4>2, <4>3, <4>4, <4>5
      <3> QED
        BY <3>1, <3>2, <1>7, <1>9
    <2> QED
      BY <2>1, <2>2, <2>3, <1>2, <1>9 DEF DmaInv, Dist, done
  <1> QED
    BY <1>11, <1>12, <1>13, <1>14, <1>15, <1>16 DEF IInv

(* The oldest DMA block starts at the read index, holds the next messages  *)
(* and is no longer than what is published.                                *)
LEMMA OldestBlock ==
  ASSUME IInv, dmaq # <<>>, dpc \in {"idle", "dma"}
  PROVE  /\ handling = 0 /\ done = Len(log)
         /\ dmaq[1].from = tcm_r /\ dmaq[1].len \in 1..MaxItem-1
         /\ tcm_r + dmaq[1].len <= MaxItem
         /\ Len(log) + dmaq[1].len <= fetched /\ fetched <= posted
         /\ Block(dmaq[1]) \in Seq(Nat) /\ Len(Block(dmaq[1])) = dmaq[1].len
         /\ \A i \in 1..dmaq[1].len : Block(dmaq[1])[i] = Len(log) + i
  <1> DEFINE n == dmaq[1].len
  <1>1. TypeOK /\ IndexInv /\ SlotInv /\ DmaInv
    BY DEF IInv
  <1>2. /\ tcm_r \in 0..MaxItem-1 /\ Len(log) \in Nat /\ posted \in Nat
        /\ fetched \in Nat /\ done \in Int
    BY <1>1, IndexTypes
  <1>3. handling = 0 /\ fetched <= posted
    BY <1>1 DEF IndexInv
  <1>4. done = Len(log)
    BY <1>2, <1>3 DEF done
  <1>5. /\ Len(dmaq) \in Nat /\ 1 \in 1..Len(dmaq)
        /\ dmaq[1].from \in 0..MaxItem-1 /\ n \in 1..MaxItem-1
        /\ dmaq[1].first \in Nat
    <2>1. 1 \in 1..Len(dmaq)
      BY DmaTypes
    <2> QED
      BY <2>1, DmaTypes
  <1>6. /\ dmaq[1].first = Len(log) + 1
        /\ dmaq[1].from + n <= MaxItem
        /\ dmaq[1].first + n <= fetched + 1
        /\ Dist(tcm_r, dmaq[1].from) = (dmaq[1].first - 1) - done
    BY <1>1, <1>5 DEF DmaInv
  <1>7. dmaq[1].from = tcm_r
    BY <1>2, <1>4, <1>5, <1>6, RingSize DEF Dist, NTXPACTIVE
  <1>8. Len(log) + n <= fetched
    BY <1>2, <1>5, <1>6, RingSize
  <1>9. ASSUME NEW i \in 1..n
        PROVE  /\ tcm_r + (i - 1) \in 0..MaxItem-1
               /\ slot[tcm_r + (i - 1)] = Len(log) + i
    <2>1. tcm_r + (i - 1) \in 0..MaxItem-1 /\ Dist(tcm_r, tcm_r + (i - 1)) = i - 1
      BY <1>2, <1>5, <1>6, <1>7, RingSize DEF Dist, NTXPACTIVE
    <2>2. i - 1 < posted - done
      BY <1>2, <1>3, <1>4, <1>5, <1>8, RingSize
    <2>3. slot[tcm_r + (i - 1)] = done + (i - 1) + 1
      BY <2>1, <2>2, <1>1 DEF SlotInv
    <2> QED
      BY <2>1, <2>3, <1>2, <1>4, <1>5, RingSize
  <1>10. Block(dmaq[1]) = [i \in 1..n |-> slot[tcm_r + (i - 1)]]
    BY <1>7 DEF Block
  <1>11. \A i \in 1..n : Block(dmaq[1])[i] = Len(log) + i
    BY <1>9, <1>10
  <1>12. Block(dmaq[1]) \in Seq(Nat) /\ Len(Block(dmaq[1])) = n
    <2> HIDE DEF n
    <2>1. n \in Nat
      BY <1>5, RingSize
    <2>2. Block(dmaq[1]) = [i \in 1..n |-> Len(log) + i]
      BY <1>9, <1>10
    <2>3. [i \in 1..n |-> Len(log) + i] \in Seq(Nat)
      BY <2>1, <1>2
    <2>4. Len([i \in 1..n |-> Len(log) + i]) = n
      BY <2>1, <2>3
    <2> QED
      BY <2>2, <2>3, <2>4
  <1> QED
    BY <1>3, <1>4, <1>5, <1>6, <1>7, <1>8, <1>11, <1>12

(* pciedev_handle_h2d_dma.                                                 *)
LEMMA HandleDmaStep ==
  ASSUME IInv, HandleDma
  PROVE  IInv'
  <1> DEFINE n == dmaq[1].len
             R == [from : 0..MaxItem-1, len : 1..MaxItem-1, first : Nat]
  <1>1. /\ TypeOK /\ PoolConserved
        /\ HostInv /\ IndexInv /\ SlotInv /\ DmaInv /\ LogInv
    BY DEF IInv
  <1>2. /\ UNCHANGED <<slot, w_offset, r_offset, hpc, claim, tcm_w, posted,
                       doorbell, ret, tcm_r, rd_pending, fetched, availcnt,
                       ioctl_dma, unlock_timer>>
        /\ dpc \in {"idle", "dma"} /\ dmaq # <<>> /\ dpc' = "handle"
        /\ log' = log \o Block(dmaq[1]) /\ dmaq' = Tail(dmaq)
        /\ handling' = n
        /\ inuse' = IF InUsePool THEN add_to_inuselist(n) ELSE inuse
    BY DEF HandleDma, hostVars
  <1>3. /\ handling = 0 /\ done = Len(log)
        /\ n \in 1..MaxItem-1 /\ tcm_r + n <= MaxItem
        /\ Len(log) + n <= fetched /\ fetched <= posted
        /\ Block(dmaq[1]) \in Seq(Nat) /\ Len(Block(dmaq[1])) = n
        /\ \A i \in 1..n : Block(dmaq[1])[i] = Len(log) + i
    BY <1>2, OldestBlock
  <1>4. /\ tcm_r \in 0..MaxItem-1 /\ log \in Seq(Nat) /\ Len(log) \in Nat
        /\ posted \in Nat /\ fetched \in Nat
    BY <1>1, IndexTypes
  <1> HIDE DEF n
  <1>5. /\ log' \in Seq(Nat) /\ Len(log') = Len(log) + n
        /\ \A i \in 1..Len(log) + n :
             log'[i] = IF i <= Len(log) THEN log[i]
                       ELSE Block(dmaq[1])[i - Len(log)]
    BY ONLY <1>2, <1>3, <1>4, ConcatProperties
  <1>6. done' = done
    BY <1>2, <1>3, <1>4, <1>5, RingSize DEF done
  <1>7. dmaq \in Seq(R) /\ Len(dmaq) \in Nat
    BY DmaTypes
  <1> HIDE DEF R
  <1>8. /\ dmaq' \in Seq(R) /\ Len(dmaq') = Len(dmaq) - 1 /\ Len(dmaq) >= 1
        /\ \A k \in 1..Len(dmaq) - 1 : dmaq'[k] = dmaq[k+1]
    BY ONLY <1>2, <1>7, HeadTailProperties, EmptySeq
  <1>9. /\ BufCnt \in Nat /\ availcnt \in 0..BufCnt
        /\ inuse \in Seq(1..MaxItem) /\ Len(inuse) \in Nat
        /\ availcnt + Len(dmaq) + Len(inuse) = BufCnt
    BY <1>3, PoolTypes
  <1>10. /\ inuse' \in Seq(1..MaxItem)
         /\ Len(inuse') = Len(inuse) + (IF InUsePool THEN 1 ELSE 0)
    <2>1. CASE InUsePool
      <3>1. NTXPAVAIL(0, Len(inuse), BufCnt + 1)
        BY ONLY <1>7, <1>8, <1>9 DEF NTXPAVAIL, NTXPACTIVE
      <3>2. inuse' = Append(inuse, n) /\ n \in 1..MaxItem
        BY <3>1, <2>1, <1>2, <1>3, RingSize DEF add_to_inuselist
      <3>3. Append(inuse, n) \in Seq(1..MaxItem) /\ Len(Append(inuse, n)) = Len(inuse) + 1
        BY ONLY <3>2, <1>9, AppendProperties
      <3> QED
        BY <2>1, <3>2, <3>3
    <2>2. CASE ~InUsePool
      BY <2>2, <1>2, <1>9
    <2> QED
      BY <2>1, <2>2
  <1>11. TypeOK'
    <2>1. ioctl_lock' \in BOOLEAN
      <3>1. ioctl_lock \in BOOLEAN
        BY <1>1 DEF TypeOK
      <3> QED
        BY <3>1, RingAssumption DEF HandleDma
    <2>2. handling' \in 0..MaxItem-1
      BY <1>2, <1>3, RingSize
    <2> QED
      BY <2>1, <2>2, <1>1, <1>2, <1>5, <1>8, <1>10 DEF TypeOK, R
  <1>12. PoolConserved'
    <2>1. handling' # 0
      BY <1>2, <1>3, RingSize
    <2>2. CASE InUsePool
      <3>1. availcnt' + Len(dmaq') + Len(inuse') + 0 = BufCnt
        <4>1. Len(inuse') = Len(inuse) + 1 /\ availcnt' = availcnt
          BY <2>2, <1>2, <1>10
        <4> QED
          <5>1. /\ availcnt \in Int /\ Len(dmaq) \in Int /\ Len(inuse) \in Int
                /\ availcnt + Len(dmaq) + Len(inuse) = BufCnt
            BY <1>7, <1>9
          <5>2. Len(dmaq') = Len(dmaq) - 1
            BY <1>8
          <5> QED
            BY ONLY <4>1, <5>1, <5>2
      <3> QED
        BY ONLY <3>1, <2>2 DEF PoolConserved
    <2>3. CASE ~InUsePool
      BY <2>1, <2>3, <1>2, <1>7, <1>8, <1>9, <1>10 DEF PoolConserved
    <2> QED
      BY <2>2, <2>3
  <1>13. HostInv' /\ SlotInv'
    BY <1>1, <1>2, <1>6 DEF HostInv, SlotInv, Dist
  <1>14. IndexInv'
    <2>1. /\ handling' <= Len(log') /\ Len(log') <= fetched
          /\ tcm_r + handling' <= MaxItem /\ handling' # 0
      BY <1>2, <1>3, <1>4, <1>5, RingSize
    <2> QED
      BY <2>1, <1>1, <1>2, <1>6 DEF IndexInv, Dist
  <1>15. LogInv'
    <2> SUFFICES ASSUME NEW i \in 1..Len(log)+n PROVE log'[i] = i
      BY <1>5 DEF LogInv
    <2>1. CASE i <= Len(log)
      <3>1. i \in 1..Len(log) /\ log'[i] = log[i]
        BY <2>1, <1>3, <1>4, <1>5
      <3> QED
        BY <3>1, <1>1 DEF LogInv
    <2>2. CASE ~(i <= Len(log))
      <3>1. i - Len(log) \in 1..n
        BY <2>2, <1>3, <1>4, RingSize
      <3>2. log'[i] = Len(log) + (i - Len(log))
        BY <3>1, <2>2, <1>3, <1>5
      <3> QED
        BY <3>2, <1>3, <1>4, RingSize
    <2> QED
      BY <2>1, <2>2
  <1>16. DmaInv'
    <2>1. /\ dmaq[1].first = Len(log) + 1 /\ 1 \in 1..Len(dmaq)
          /\ dmaq[Len(dmaq)].first + dmaq[Len(dmaq)].len = fetched + 1
      BY <1>1, <1>2, <1>7, <1>8 DEF DmaInv
    <2>2. CASE Len(dmaq) = 1
      <3>1. dmaq' = <<>>
        BY <2>2, <1>8, EmptySeq
      <3>2. fetched = Len(log')
        <4>1. Len(log) + 1 + n = fetched + 1
          BY <2>1, <2>2 DEF n
        <4>2. n \in Nat
          BY <1>3, RingSize
        <4> QED
          <5>1. Len(log') = Len(log) + n
            BY <1>5
          <5> QED
            BY ONLY <4>1, <4>2, <5>1, <1>4
      <3>3. Len(dmaq') = 0
        BY <2>2, <1>8
      <3> QED
        BY <3>1, <3>2, <3>3, <1>2 DEF DmaInv
    <2>3. CASE Len(dmaq) > 1
      <3>1. /\ dmaq' # <<>> /\ Len(dmaq') \in Nat /\ 1 \in 1..Len(dmaq')
        BY <2>3, <1>7, <1>8
      <3>2. dmaq'[1].first = Len(log') + 1
        <4>1. dmaq[1+1].first = dmaq[1].first + dmaq[1].len
          BY <2>1, <2>3, <1>1 DEF DmaInv
        <4>2. dmaq'[1] = dmaq[1+1]
          BY <3>1, <1>8
        <4>3. Len(log) + 1 + n = Len(log) + n + 1
          BY <1>3, <1>4, RingSize
        <4> QED
          BY <4>1, <4>2, <4>3, <2>1, <1>5 DEF n
      <3>3. dmaq'[Len(dmaq')].first + dmaq'[Len(dmaq')].len = fetched + 1
        <4>1. Len(dmaq') \in 1..Len(dmaq)-1 /\ Len(dmaq') + 1 = Len(dmaq)
          BY <2>3, <1>7, <1>8
        <4>2. dmaq'[Len(dmaq')] = dmaq[Len(dmaq)]
          BY <4>1, <1>8
        <4> QED
          BY <4>2, <2>1
      <3>4. ASSUME NEW k \in 1..Len(dmaq')
            PROVE  /\ dmaq'[k].from + dmaq'[k].len <= MaxItem
                   /\ dmaq'[k].first >= Len(log') + 1
                   /\ dmaq'[k].first + dmaq'[k].len <= fetched + 1
                   /\ Dist(tcm_r, dmaq'[k].from) = (dmaq'[k].first - 1) - done
                   /\ k < Len(dmaq') =>
                        dmaq'[k+1].first = dmaq'[k].first + dmaq'[k].len
                   /\ \A j \in 1..k-1 :
                        dmaq'[j].first + dmaq'[j].len <= dmaq'[k].first
        <4>1. /\ k + 1 \in 1..Len(dmaq) /\ dmaq'[k] = dmaq[k+1]
              /\ 1 \in 1..(k+1)-1 /\ k \in Nat
          BY <1>7, <1>8
        <4>2. /\ dmaq[k+1].from + dmaq[k+1].len <= MaxItem
              /\ dmaq[k+1].first + dmaq[k+1].len <= fetched + 1
              /\ Dist(tcm_r, dmaq[k+1].from) = (dmaq[k+1].first - 1) - done
              /\ k+1 < Len(dmaq) =>
                   dmaq[(k+1)+1].first = dmaq[k+1].first + dmaq[k+1].len
              /\ \A j \in 1..(k+1)-1 :
                   dmaq[j].first + dmaq[j].len <= dmaq[k+1].first
          BY <4>1, <1>1 DEF DmaInv
        <4>3. dmaq[1].first + n <= dmaq[k+1].first
          BY <4>1, <4>2 DEF n
        <4>4. dmaq[k+1].first >= Len(log') + 1
          <5>1. dmaq[k+1].first \in Nat
            BY <4>1, DmaTypes
          <5>2. /\ dmaq[1].first + n >= Len(log') + 1
                /\ Len(log') \in Nat /\ dmaq[1].first + n \in Int
            BY <2>1, <1>3, <1>4, <1>5, RingSize
          <5> QED
            BY ONLY <5>1, <5>2, <4>3
        <4>5. k < Len(dmaq') => /\ k+1 < Len(dmaq)
                                /\ dmaq'[k+1] = dmaq[(k+1)+1]
          BY <4>1, <1>7, <1>8
        <4>6. \A j \in 1..k-1 : j+1 \in 1..(k+1)-1 /\ dmaq'[j] = dmaq[j+1]
          BY <4>1, <1>7, <1>8
        <4> QED
          BY <4>1, <4>2, <4>4, <4>5, <4>6
      <3> QED
        BY <3>1, <3>2, <3>3, <3>4, <1>2, <1>6 DEF DmaInv, Dist
    <2> QED
      BY <2>2, <2>3, <1>7, <1>8
  <1> QED
    BY <1>11, <1>12, <1>13, <1>14, <1>15, <1>16 DEF IInv

(* pciedev_ring_update_readptr.                                            *)
LEMMA UpdateReadPtrStep ==
  ASSUME IInv, UpdateReadPtr
  PROVE  IInv'
  <1> DEFINE h == handling
             R == [from : 0..MaxItem-1, len : 1..MaxItem-1, first : Nat]
  <1>1. /\ TypeOK /\ PoolConserved
        /\ HostInv /\ IndexInv /\ SlotInv /\ DmaInv /\ LogInv
    BY DEF IInv
  <1>2. /\ UNCHANGED <<slot, w_offset, r_offset, hpc, claim, tcm_w, posted,
                       doorbell, ret, rd_pending, dmaq, fetched, log, inuse,
                       ioctl_dma, ioctl_lock, unlock_timer>>
        /\ dpc = "handle" /\ dpc' = "dma"
        /\ tcm_r' = ADVANCE(tcm_r, h, MaxItem) /\ handling' = 0
        /\ availcnt' = IF InUsePool THEN availcnt ELSE availcnt + 1
    BY DEF UpdateReadPtr, hostVars, lockVars
  <1>3. /\ w_offset \in 0..MaxItem-1 /\ r_offset \in 0..MaxItem-1
        /\ tcm_w \in 0..MaxItem-1 /\ tcm_r \in 0..MaxItem-1
        /\ rd_pending \in 0..MaxItem-1 /\ h \in 0..MaxItem-1 /\ h \in Nat
        /\ posted \in Nat /\ fetched \in Nat /\ Len(log) \in Nat /\ done \in Int
    BY <1>1, IndexTypes
  <1>4. /\ h # 0 /\ tcm_r + h <= MaxItem
        /\ Len(log) <= fetched /\ fetched <= posted
        /\ Dist(tcm_r, tcm_w) = posted - done
        /\ Dist(tcm_r, w_offset) = (posted - done) + claim.len
        /\ Dist(tcm_r, rd_pending) = fetched - done
    BY <1>1, <1>2 DEF IndexInv
  <1>5. done = Len(log) - h /\ done' = done + h /\ done' = Len(log)
    BY <1>2, <1>3 DEF done
  <1>6. claim.len \in Nat
    BY <1>1, RingSize DEF TypeOK
  <1> HIDE DEF h, R
  <1>7. /\ tcm_r' \in 0..MaxItem-1
        /\ \A c \in 0..MaxItem-1 : h <= Dist(tcm_r, c)
             => Dist(tcm_r', c) = Dist(tcm_r, c) - h
        /\ \A c \in 0..MaxItem-1 : h + Dist(tcm_r', c) <= MaxItem - 1
             => Dist(tcm_r, c) = h + Dist(tcm_r', c)
    <2>1. h <= Dist(tcm_r, tcm_w)
      BY <1>3, <1>4, <1>5
    <2>2. /\ tcm_r' \in 0..MaxItem-1
          /\ \A c \in 0..MaxItem-1 : h <= Dist(tcm_r, c)
               => Dist(tcm_r', c) = Dist(tcm_r, c) - h
      BY ONLY <2>1, <1>2, <1>3, <1>4, DistReduce
    <2> QED
      BY ONLY <2>2, <1>2, <1>3, <1>4, DistGrow
  <1>8. /\ Dist(tcm_r', tcm_w) = posted - done'
        /\ Dist(tcm_r', w_offset) = (posted - done') + claim.len
        /\ Dist(tcm_r', rd_pending) = fetched - done'
    <2>1. /\ h <= Dist(tcm_r, tcm_w) /\ h <= Dist(tcm_r, w_offset)
          /\ h <= Dist(tcm_r, rd_pending)
      BY <1>3, <1>4, <1>5, <1>6
    <2>2. /\ Dist(tcm_r', tcm_w) = Dist(tcm_r, tcm_w) - h
          /\ Dist(tcm_r', w_offset) = Dist(tcm_r, w_offset) - h
          /\ Dist(tcm_r', rd_pending) = Dist(tcm_r, rd_pending) - h
      BY <2>1, <1>3, <1>7
    <2> QED
      BY <2>2, <1>3, <1>4, <1>5, <1>6
  <1>9. TypeOK'
    <2>1. availcnt' \in 0..BufCnt
      <3>1. /\ BufCnt \in Nat /\ availcnt \in 0..BufCnt
            /\ Len(dmaq) \in Nat /\ Len(inuse) \in Nat
            /\ ~InUsePool => availcnt + Len(dmaq) + Len(inuse) < BufCnt
        BY <1>4, PoolTypes DEF h
      <3>2. CASE InUsePool
        BY <3>1, <3>2, <1>2
      <3>3. CASE ~InUsePool
        BY <3>1, <3>3, <1>2
      <3> QED
        BY <3>2, <3>3
    <2>2. handling' \in 0..MaxItem-1 /\ dpc' \in {"idle", "handle", "dma", "scan"}
      BY <1>2, RingSize
    <2> QED
      BY <2>1, <2>2, <1>1, <1>2, <1>7 DEF TypeOK
  <1>10. PoolConserved'
    <2>1. /\ availcnt \in Int /\ Len(dmaq) \in Int /\ Len(inuse) \in Int
      BY PoolTypes
    <2>2. CASE InUsePool
      <3>1. availcnt + Len(dmaq) + Len(inuse) = BufCnt
        BY <2>2, PoolTypes
      <3> QED
        BY <3>1, <2>1, <2>2, <1>2, RingAssumption DEF PoolConserved
    <2>3. CASE ~InUsePool
      <3>1. availcnt + Len(dmaq) + Len(inuse) + 1 = BufCnt
        BY <2>3, <1>1, <1>4 DEF PoolConserved, h
      <3>2. availcnt' + Len(dmaq) + Len(inuse) + 0 = BufCnt
        BY <3>1, <2>1, <2>3, <1>2
      <3> QED
        BY <3>2, <1>2 DEF PoolConserved
    <2> QED
      BY <2>2, <2>3
  <1>11. HostInv'
    <2>1. Dist(r_offset, w_offset) = Dist(r_offset, tcm_r) + Dist(tcm_r, w_offset)
      BY <1>1 DEF HostInv
    <2>2. /\ Dist(r_offset, w_offset) \in 0..MaxItem-1
          /\ Dist(r_offset, tcm_r) \in 0..MaxItem-1
          /\ Dist(tcm_r, w_offset) \in 0..MaxItem-1
      BY <1>3, DistType
    <2>3. /\ Dist(tcm_r', w_offset) = Dist(tcm_r, w_offset) - h
          /\ h <= Dist(tcm_r, w_offset)
      BY SMTT(30), <1>3, <1>4, <1>5, <1>6, <1>8
    <2>4. Dist(r_offset, tcm_r') = Dist(r_offset, tcm_r) + h
      <3>1. Dist(r_offset, tcm_r) + h <= MaxItem - 1
        BY ONLY <2>1, <2>2, <2>3, <1>3, RingSize
      <3>2. Dist(r_offset, r_offset) = 0
        BY <1>3 DEF Dist, NTXPACTIVE
      <3>3. Dist(r_offset, tcm_r) = Dist(r_offset, r_offset) + Dist(r_offset, tcm_r)
        BY <3>2, <2>2
      <3> QED
        BY ONLY <3>1, <3>3, <1>2, <1>3, <1>4, DistExtend
    <2>5. Dist(r_offset, w_offset) = Dist(r_offset, tcm_r') + Dist(tcm_r', w_offset)
      BY <2>1, <2>2, <2>3, <2>4, <1>3
    <2> QED
      BY <2>5, <1>1, <1>2 DEF HostInv, Dist
  <1>12. IndexInv'
    <2>1. handling' <= Len(log) /\ tcm_r' + handling' <= MaxItem
      BY <1>2, <1>3, <1>7, RingSize
    <2> QED
      BY <2>1, <1>2, <1>4, <1>8 DEF IndexInv, Dist
  <1>13. SlotInv'
    <2> SUFFICES ASSUME NEW i \in 0..MaxItem-1, Dist(tcm_r', i) < posted - done'
                 PROVE  slot[i] = done' + Dist(tcm_r', i) + 1
      BY <1>2 DEF SlotInv, Dist
    <2>1. /\ Dist(tcm_r', i) \in 0..MaxItem-1
          /\ Dist(tcm_r, tcm_w) \in 0..MaxItem-1
      BY <1>3, <1>7, DistType
    <2>2. Dist(tcm_r, i) = h + Dist(tcm_r', i)
      <3>1. h + Dist(tcm_r', i) < Dist(tcm_r, tcm_w)
        BY SMTT(30), <2>1, <1>3, <1>4, <1>5
      <3>2. h + Dist(tcm_r', i) <= MaxItem - 1
        BY <3>1, <2>1, <1>3, RingSize
      <3> QED
        BY <3>2, <1>7
    <2>3. Dist(tcm_r, i) < posted - done
      BY <2>1, <2>2, <1>3, <1>5, RingSize
    <2>4. slot[i] = done + Dist(tcm_r, i) + 1
      BY <2>3, <1>1 DEF SlotInv
    <2> QED
      <3>1. slot[i] = done + (h + Dist(tcm_r', i)) + 1
        BY <2>2, <2>4
      <3>2. Dist(tcm_r', i) \in Int /\ done \in Int /\ h \in Int
        BY <2>1, <1>3, RingSize
      <3> QED
        BY ONLY <3>1, <3>2, <1>5
  <1>14. DmaInv'
    <2> SUFFICES ASSUME NEW k \in 1..Len(dmaq)
                 PROVE  Dist(tcm_r', dmaq[k].from) = (dmaq[k].first - 1) - done'
      BY <1>1, <1>2 DEF DmaInv, Dist
    <2>1. /\ Dist(tcm_r, dmaq[k].from) = (dmaq[k].first - 1) - done
          /\ dmaq[k].first >= Len(log) + 1
      BY <1>1 DEF DmaInv
    <2>2. dmaq[k].from \in 0..MaxItem-1 /\ dmaq[k].first \in Nat
      BY DmaTypes
    <2>3. h <= Dist(tcm_r, dmaq[k].from)
      BY SMTT(30), <2>1, <2>2, <1>3, <1>5
    <2> QED
      <3>1. Dist(tcm_r', dmaq[k].from) = Dist(tcm_r, dmaq[k].from) - h
        BY <2>2, <2>3, <1>7
      <3>2. dmaq[k].first \in Int /\ done \in Int /\ h \in Int
        BY <2>2, <1>3
      <3> QED
        BY ONLY <3>1, <3>2, <2>1, <1>5
  <1>15. LogInv'
    BY <1>1, <1>2 DEF LogInv
  <1> QED
    BY <1>9, <1>10, <1>11, <1>12, <1>13, <1>14, <1>15 DEF IInv

-----------------------------------------------------------------------------
LEMMA NextInv == IInv /\ [Next]_vars => IInv'
  <1> SUFFICES ASSUME IInv, [Next]_vars PROVE IInv'
    OBVIOUS
  <1>1. CASE HostStep
    <2>1. CASE \E q \in Requests : Claim(q[1], q[2])
      BY <2>1, ClaimStep
    <2> QED
      BY <2>1, <1>1, FillStep, GiveUpStep, PublishStep, QuietSteps DEF HostStep
  <1>2. CASE DongleStep
    BY <1>2, StartFetchStep, HandleDmaStep, UpdateReadPtrStep, TakeRxBufStep,
       QuietSteps DEF DongleStep
  <1>3. CASE UNCHANGED vars
    BY <1>3, QuietSteps
  <1> QED
    BY <1>1, <1>2, <1>3 DEF Next

(* The inductive invariant holds in every state of every ring.             *)
THEOREM Inductive == Spec => []IInv
  BY InitInv, NextInv, PTL DEF Spec

(* Every index stays inside the ring and every count inside its bound.     *)
THEOREM TypeCorrect == Spec => []TypeOK
  <1>1. IInv => TypeOK
    BY DEF IInv
  <1> QED
    BY <1>1, Inductive, PTL

(* No local buffer of the dongle's ring is lost or freed twice.            *)
THEOREM PoolSafe == Spec => []PoolConserved
  <1>1. IInv => PoolConserved
    BY DEF IInv
  <1> QED
    BY <1>1, Inductive, PTL

(* The host's roll-back of the write index is exact.                       *)
THEOREM RollbackSafe == Spec => []RollbackExact
  <1>1. IInv => RollbackExact
    <2> SUFFICES ASSUME IInv, claim = NoClaim PROVE w_offset = tcm_w
      BY DEF RollbackExact
    <2>1. TypeOK /\ HostInv
      BY DEF IInv
    <2>2. NoClaim.len = 0
      BY DEF NoClaim
    <2>3. hpc # "fill"
      BY <2>1, <2>2 DEF HostInv
    <2> QED
      BY <2>1, <2>3 DEF HostInv
  <1> QED
    BY <1>1, Inductive, PTL

(* A slot is not written again while a DMA may read it.                    *)
THEOREM FetchSafe == Spec => []FetchIntact
  <1>1. IInv => FetchIntact
    <2> SUFFICES ASSUME IInv, NEW k \in 1..Len(dmaq), NEW i \in 1..dmaq[k].len
                 PROVE  slot[dmaq[k].from + (i - 1)] = dmaq[k].first + (i - 1)
      BY DEF FetchIntact
    <2> DEFINE s == dmaq[k].from + (i - 1)
    <2>1. TypeOK /\ IndexInv /\ SlotInv /\ DmaInv
      BY DEF IInv
    <2>2. /\ tcm_r \in 0..MaxItem-1 /\ posted \in Nat /\ fetched \in Nat
          /\ done \in Int /\ Len(log) \in Nat
      BY <2>1, IndexTypes
    <2>3. /\ dmaq[k].from \in 0..MaxItem-1 /\ dmaq[k].first \in Nat
          /\ dmaq[k].len \in 1..MaxItem-1
      BY DmaTypes
    <2>4. /\ dmaq[k].from + dmaq[k].len <= MaxItem
          /\ dmaq[k].first + dmaq[k].len <= fetched + 1
          /\ Dist(tcm_r, dmaq[k].from) = (dmaq[k].first - 1) - done
      BY <2>1 DEF DmaInv
    <2>5. /\ fetched <= posted /\ Dist(tcm_r, tcm_w) = posted - done
          /\ Dist(tcm_r, tcm_w) \in 0..MaxItem-1
      BY <2>1, IndexTypes, DistType DEF IndexInv
    <2>6. s \in 0..MaxItem-1 /\ Dist(tcm_r, s) = Dist(tcm_r, dmaq[k].from) + (i - 1)
      <3>1. /\ dmaq[k].len \in Nat /\ i - 1 \in 0..dmaq[k].len-1
            /\ Dist(tcm_r, dmaq[k].from) + dmaq[k].len <= MaxItem
        <4>1. /\ dmaq[k].len \in Nat /\ dmaq[k].first \in Int /\ fetched \in Int
              /\ posted \in Int
          BY <2>2, <2>3, RingSize
        <4>2. Dist(tcm_r, dmaq[k].from) + dmaq[k].len <= Dist(tcm_r, tcm_w)
          BY ONLY <4>1, <2>2, <2>4, <2>5
        <4>3. i - 1 \in 0..dmaq[k].len-1
          BY <4>1
        <4>4. Dist(tcm_r, dmaq[k].from) \in Int
          BY ONLY <4>1, <2>2, <2>4
        <4> QED
          BY ONLY <4>1, <4>2, <4>3, <4>4, <2>5, RingSize
      <3>2. \A j \in 0..dmaq[k].len-1 :
              /\ dmaq[k].from + j \in 0..MaxItem-1
              /\ Dist(tcm_r, dmaq[k].from + j) = Dist(tcm_r, dmaq[k].from) + j
        <4>1. /\ tcm_r \in 0..MaxItem-1 /\ dmaq[k].from \in 0..MaxItem-1
              /\ dmaq[k].len \in Nat /\ dmaq[k].from + dmaq[k].len <= MaxItem
              /\ Dist(tcm_r, dmaq[k].from) + dmaq[k].len <= MaxItem
          BY <3>1, <2>2, <2>3, <2>4
        <4> QED
          BY ONLY <4>1, BlockSlots
      <3> QED
        BY <3>1, <3>2
    <2>7. Dist(tcm_r, s) < posted - done
      <3>1. /\ i \in Int /\ i <= dmaq[k].len /\ dmaq[k].len \in Int
            /\ dmaq[k].first \in Int /\ fetched \in Int /\ posted \in Int
        BY <2>2, <2>3, RingSize
      <3>2. Dist(tcm_r, s) = ((dmaq[k].first - 1) - done) + (i - 1)
        BY <2>4, <2>6
      <3>3. ((dmaq[k].first - 1) - done) + (i - 1) < posted - done
        <4>1. /\ dmaq[k].first + dmaq[k].len <= fetched + 1
              /\ fetched <= posted
          BY ONLY <2>4, <2>5
        <4>2. done \in Int
          BY ONLY <2>2
        <4>3. dmaq[k].first + (i - 1) <= posted
          BY ONLY <3>1, <4>1
        <4> HIDE DEF s
        <4> QED
          BY ONLY <3>1, <4>2, <4>3
      <3> QED
        BY ONLY <3>2, <3>3
    <2>8. slot[s] = done + Dist(tcm_r, s) + 1
      BY <2>1, <2>6, <2>7 DEF SlotInv
    <2> QED
      <3>1. /\ i \in Int /\ done \in Int /\ dmaq[k].first \in Int
        BY <2>2, <2>3, RingSize
      <3>2. slot[s] = done + ((dmaq[k].first - 1) - done + (i - 1)) + 1
        BY <2>4, <2>6, <2>8
      <3> HIDE DEF s
      <3>3. slot[s] = dmaq[k].first + (i - 1)
        BY ONLY <3>1, <3>2
      <3> QED
        BY <3>3 DEF s
  <1> QED
    BY <1>1, Inductive, PTL

(* Every step of the ring is a step of the channel, or leaves it alone.    *)
LEMMA ChannelStep == IInv /\ IInv' /\ [Next]_vars => [Channel!Next]_(Channel!vars)
  <1> SUFFICES ASSUME IInv, IInv', [Next]_vars
               PROVE  [Channel!Next]_(Channel!vars)
    OBVIOUS
  <1>1. CASE PublishIndex
    <2>1. /\ posted' = posted + claim.len /\ log' = log
          /\ claim.len \in 1..MaxItem-1
          /\ Dist(tcm_r, tcm_w) = posted - done
          /\ Dist(tcm_r, tcm_w) + claim.len <= MaxItem - 1
      BY <1>1, ClaimSlots DEF PublishIndex, dongleVars, ringVars
    <2>2. /\ posted \in Nat /\ Len(log) \in Nat /\ handling \in Nat
          /\ done = Len(log) - handling
      <3>1. TypeOK
        BY DEF IInv
      <3> QED
        BY <3>1, IndexTypes, RingSize DEF done
    <2>3. posted' \in (posted + 1) .. (Len(log) + (MaxItem - 1))
      <3>1. claim.len \in Nat /\ claim.len >= 1
        BY <2>1, RingSize
      <3> QED
        BY ONLY <2>1, <2>2, <3>1, RingSize
    <2> QED
      BY <2>1, <2>3 DEF Channel!Next, Channel!Send
  <1>2. CASE HandleDma
    <2> DEFINE n == dmaq[1].len
    <2>1. /\ posted' = posted /\ log' = log \o Block(dmaq[1])
          /\ dmaq # <<>> /\ dpc \in {"idle", "dma"}
      BY <1>2 DEF HandleDma, hostVars
    <2>2. /\ n \in 1..MaxItem-1 /\ Len(log) + n <= fetched /\ fetched <= posted
          /\ \A i \in 1..n : Block(dmaq[1])[i] = Len(log) + i
      BY <2>1, OldestBlock
    <2>3. Block(dmaq[1]) = [i \in 1..n |-> Len(log) + i]
      BY <2>2 DEF Block
    <2>4. n \in 1..(posted - Len(log))
      <3>1. /\ Len(log) \in Nat /\ fetched \in Nat /\ posted \in Nat
        BY IndexTypes DEF IInv
      <3> HIDE DEF n
      <3> QED
        BY <3>1, <2>2, RingSize
    <2> HIDE DEF n
    <2>5. /\ \E k \in 1..(posted - Len(log)) :
               log' = log \o [i \in 1..k |-> Len(log) + i]
          /\ posted' = posted
      BY <2>1, <2>3, <2>4
    <2> QED
      BY <2>5 DEF Channel!Next, Channel!Receive
  <1>3. CASE \E q \in Requests : Claim(q[1], q[2])
    BY <1>3 DEF Claim, dongleVars, ringVars, Channel!vars
  <1>4. CASE \/ Fill \/ GiveUp \/ RingDoorbell
    BY <1>4 DEF Fill, GiveUp, RingDoorbell, dongleVars, ringVars, Channel!vars
  <1>5. CASE \/ DoorbellIntr \/ EndScan \/ HandleIoctlDma \/ EndDma
             \/ TakeRxBuf \/ IoctlDone \/ UnlockTimer
    BY <1>5 DEF DoorbellIntr, EndScan, HandleIoctlDma, EndDma, TakeRxBuf,
         IoctlDone, UnlockTimer, hostVars, ringVars, Channel!vars
  <1>6. CASE StartFetch \/ UpdateReadPtr
    BY <1>6 DEF StartFetch, UpdateReadPtr, hostVars, Channel!vars
  <1>7. CASE UNCHANGED vars
    BY <1>7 DEF vars, hostVars, dongleVars, ringVars, Channel!vars
  <1> QED
    BY <1>1, <1>2, <1>3, <1>4, <1>5, <1>6, <1>7
       DEF Next, HostStep, DongleStep

(* The ring delivers the host's messages once, in order, and never holds   *)
(* more than MaxItem - 1 of them.                                          *)
THEOREM RingImplementsChannel == Spec => ImplementsChannel
  <1>1. Init => Channel!Init
    BY DEF Init, Channel!Init
  <1> QED
    BY <1>1, ChannelStep, Inductive, PTL DEF Spec, ImplementsChannel, Channel!Spec
=============================================================================
