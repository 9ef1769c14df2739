------------------------------- MODULE H2DRing -------------------------------
(***************************************************************************)
(* A host-to-dongle message ring (control submit or rx buffer post) in the *)
(* build with indices in dongle memory (TCM):                              *)
(*                                                                         *)
(*   the host claims a block of slots against its cached copy of the read  *)
(*   index, fills it item by item (an item may fail, which rolls the write *)
(*   index back), publishes the write index and rings the doorbell         *)
(*   (dhd_msgbuf.c);                                                       *)
(*                                                                         *)
(*   the dongle, one run-to-completion thread, scans the ring after a      *)
(*   doorbell, after a DMA and after an ioctl, starts one DMA per block    *)
(*   into a local buffer, and moves the read index only when the DMA is    *)
(*   done and the block is handled (pciedev_data.c).                       *)
(*                                                                         *)
(* Messages are numbered in the order the host fills slots.                *)
(***************************************************************************)
EXTENDS RingIndex, Sequences

CONSTANTS
  MaxItem,     (* slots of the ring: RING_MAX_ITEM                         *)
  Requests,    (* pairs <<nitems, exactly>> the host asks space for        *)
  BufCnt,      (* local buffers of the ring: buf_pool->buf_cnt             *)
  ItemCnt,     (* items a local buffer holds: buf_pool->item_cnt           *)
  DescCnt,     (* blocks the DMA engine's descriptors allow in flight      *)
  InUsePool,   (* TRUE for htod_rx: handled buffers stay in use            *)
  MaxMsgs      (* bound: messages filled in a behaviour                    *)

ASSUME RingAssumption ==
  /\ MaxItem \in Nat /\ MaxItem >= 2
  /\ Requests \subseteq (1..MaxItem) \X BOOLEAN
  /\ BufCnt \in Nat \ {0}
  /\ ItemCnt \in Nat \ {0}
  /\ DescCnt \in Nat \ {0}
  /\ InUsePool \in BOOLEAN
  /\ MaxMsgs \in Nat

VARIABLES
  slot,        (* host memory: the message in each slot, 0 when none       *)
  w_offset,    (* host: ringstate->w_offset                                *)
  r_offset,    (* host: ringstate->r_offset, a cached copy of tcm_r        *)
  hpc,         (* host producer: "idle", "fill", "bell"                    *)
  claim,       (* host: the claimed block and how much of it is filled     *)
  tcm_w,       (* TCM: write index, written by the host                    *)
  tcm_r,       (* TCM: read index, written by the dongle                   *)
  doorbell,    (* H2D doorbell interrupt pending                           *)
  dpc,         (* dongle thread: "idle", "handle", "dma", "scan"           *)
  ret,         (* dongle: where the scan returns to                        *)
  rd_pending,  (* dongle: msgbuf->rd_pending                               *)
  dmaq,        (* dongle: htod_dma_q, DMA blocks not yet handled           *)
  handling,    (* dongle: items handled, the read index not yet moved      *)
  availcnt,    (* dongle: free local buffers                               *)
  inuse,       (* dongle: items left in each in-use buffer, oldest first   *)
  ioctl_dma,   (* dongle: the other ring's ioctl request is being fetched  *)
  ioctl_lock,  (* dongle: an ioctl is being served                         *)
  unlock_timer,(* dongle: delayed_ioctlunlock_timer armed                  *)
  posted,      (* history: messages published                              *)
  fetched,     (* history: messages for which a DMA was started            *)
  log          (* history: messages handled, in order                      *)

hostVars   == <<slot, w_offset, r_offset, hpc, claim, tcm_w, posted>>
ringVars   == <<tcm_r, rd_pending, dmaq, handling, fetched, log>>
poolVars   == <<availcnt, inuse>>
lockVars   == <<ioctl_dma, ioctl_lock, unlock_timer>>
dongleVars == <<dpc, ret, ringVars, poolVars, lockVars>>
vars       == <<hostVars, doorbell, dongleVars>>

NoClaim == [start |-> 0, len |-> 0, filled |-> 0]

Init ==
  /\ slot = [i \in 0..MaxItem-1 |-> 0]
  /\ w_offset = 0 /\ r_offset = 0 /\ tcm_w = 0 /\ tcm_r = 0
  /\ hpc = "idle" /\ claim = NoClaim
  /\ doorbell = FALSE
  /\ dpc = "idle" /\ ret = "idle"
  /\ rd_pending = 0 /\ dmaq = <<>> /\ handling = 0
  /\ availcnt = BufCnt /\ inuse = <<>>
  /\ ioctl_dma = FALSE /\ ioctl_lock = FALSE /\ unlock_timer = FALSE
  /\ posted = 0 /\ fetched = 0 /\ log = <<>>

-----------------------------------------------------------------------------
(* The host.                                                               *)

(* Slots prot_get_ring_space grants against read index r; 0 for NULL.      *)
prot_get_ring_space(r, nitems, exactly) ==
  LET avail == CHECK_WRITE_SPACE(r, w_offset, MaxItem)
  IN  IF \/ avail = 0
         \/ exactly /\ avail < nitems /\ MaxItem - w_offset >= nitems
      THEN 0
      ELSE MIN(nitems, avail)

(* dhd_alloc_ring_space: try with the cached read index; when that fails,  *)
(* read the shared one and try once more.                                  *)
Claim(nitems, exactly) ==
  LET first   == prot_get_ring_space(r_offset, nitems, exactly)
      alloced == IF first # 0 THEN first
                 ELSE prot_get_ring_space(tcm_r, nitems, exactly)
  IN
  /\ hpc = "idle"
  /\ posted + nitems <= MaxMsgs
  /\ r_offset' = IF first # 0 THEN r_offset ELSE tcm_r
  /\ IF alloced = 0
     THEN UNCHANGED <<w_offset, hpc, claim>>
     ELSE /\ claim' = [start |-> w_offset, len |-> alloced, filled |-> 0]
          /\ w_offset' = ADVANCE(w_offset, alloced, MaxItem)
          /\ hpc' = "fill"
  /\ UNCHANGED <<slot, tcm_w, posted, doorbell, dongleVars>>

(* One round of the fill loop of dhd_prot_rxbufpost / rxbufpost_ctrl.      *)
Fill ==
  /\ hpc = "fill" /\ claim.filled < claim.len
  /\ slot' = [slot EXCEPT ![claim.start + claim.filled] =
                             posted + claim.filled + 1]
  /\ claim' = [claim EXCEPT !.filled = @ + 1]
  /\ UNCHANGED <<w_offset, r_offset, hpc, tcm_w, posted, doorbell, dongleVars>>

(* Slip: the wrap is forgotten.                                            *)
RolledBack_NoWrap(k) == IF w_offset < k THEN 0 ELSE w_offset - k

(* The write index moved back over k items that were not filled.           *)
RolledBack(k) == IF w_offset < k THEN MaxItem - k ELSE w_offset - k

(* No packet, no DMA mapping or no packet id for the next item: the rest   *)
(* of the block is given back.                                             *)
GiveUp ==
  /\ hpc = "fill" /\ claim.filled < claim.len
  /\ w_offset' = RolledBack(claim.len - claim.filled)
  /\ IF claim.filled = 0
     THEN hpc' = "idle" /\ claim' = NoClaim
     ELSE claim' = [claim EXCEPT !.len = claim.filled] /\ UNCHANGED hpc
  /\ UNCHANGED <<slot, r_offset, tcm_w, posted, doorbell, dongleVars>>

(* prot_ring_write_complete: publish the write index ...                   *)
PublishIndex ==
  /\ hpc = "fill" /\ claim.filled = claim.len
  /\ tcm_w' = w_offset
  /\ posted' = posted + claim.len
  /\ hpc' = "bell" /\ claim' = NoClaim
  /\ UNCHANGED <<slot, w_offset, r_offset, doorbell, dongleVars>>

(* ... then raise the interrupt.                                           *)
RingDoorbell ==
  /\ hpc = "bell"
  /\ doorbell' = TRUE
  /\ hpc' = "idle"
  /\ UNCHANGED <<slot, w_offset, r_offset, claim, tcm_w, posted, dongleVars>>

-----------------------------------------------------------------------------
(* The dongle.  pciedev_msgbuf_intr_process, called from state back, skips *)
(* the ring while an ioctl is being served.                                *)
msgbuf_intr_process(back) ==
  IF ioctl_lock THEN dpc' = back /\ UNCHANGED ret
                ELSE dpc' = "scan" /\ ret' = back

(* pciedev_dpc: the doorbell is acknowledged before the ring is scanned.   *)
DoorbellIntr ==
  /\ dpc = "idle" /\ doorbell
  /\ doorbell' = FALSE
  /\ msgbuf_intr_process("idle")
  /\ UNCHANGED <<hostVars, ringVars, poolVars, lockVars>>

(* One round of pciedev_read_host_buffer that starts a DMA.                *)
StartFetch ==
  LET avail == READ_AVAIL_SPACE(tcm_w, rd_pending, MaxItem)
      len   == MIN(avail, ItemCnt)
  IN
  /\ dpc = "scan"
  /\ avail # 0 /\ Len(dmaq) < DescCnt /\ availcnt # 0
  /\ dmaq' = Append(dmaq, [from |-> rd_pending, len |-> len,
                           first |-> fetched + 1])
  /\ rd_pending' = ADVANCE(rd_pending, len, MaxItem)
  /\ fetched' = fetched + len
  /\ availcnt' = availcnt - 1
  /\ UNCHANGED <<hostVars, doorbell, dpc, ret, tcm_r, handling, log, inuse,
                 lockVars>>

(* The round that finds nothing to read, no descriptor or no buffer.  The  *)
(* scan covers every ring, so a scan of htod_rx may fetch an ioctl request *)
(* from htod_ctrl.                                                         *)
EndScan ==
  /\ dpc = "scan"
  /\ \/ READ_AVAIL_SPACE(tcm_w, rd_pending, MaxItem) = 0
     \/ Len(dmaq) >= DescCnt
     \/ availcnt = 0
  /\ dpc' = ret
  /\ ioctl_dma' \in {ioctl_dma, InUsePool}
  /\ UNCHANGED <<hostVars, doorbell, ret, ringVars, poolVars, ioctl_lock,
                 unlock_timer>>

(* The contents of the slots of a DMA block.                               *)
Block(b) == [i \in 1..b.len |-> slot[b.from + (i - 1)]]

(* A handled rx buffer joins the in-use list, whose array has BufCnt + 1   *)
(* entries; a full list drops it.                                          *)
add_to_inuselist(items) ==
  IF NTXPAVAIL(0, Len(inuse), BufCnt + 1) THEN Append(inuse, items) ELSE inuse

(* One round of pciedev_handle_h2d_dma: the oldest DMA is done and its     *)
(* messages are handled.  A control message may be an ioctl request, which *)
(* takes the lock.                                                         *)
HandleDma ==
  LET b == dmaq[1]
  IN
  /\ dpc \in {"idle", "dma"} /\ dmaq # <<>>
  /\ log' = log \o Block(b)
  /\ dmaq' = Tail(dmaq)
  /\ handling' = b.len
  /\ dpc' = "handle"
  /\ inuse' = IF InUsePool THEN add_to_inuselist(b.len) ELSE inuse
  /\ ioctl_lock' \in {ioctl_lock, ioctl_lock \/ ~InUsePool}
  /\ UNCHANGED <<hostVars, doorbell, ret, tcm_r, rd_pending, fetched, availcnt,
                 ioctl_dma, unlock_timer>>

(* The round handles the ioctl request fetched from htod_ctrl instead.     *)
HandleIoctlDma ==
  /\ dpc \in {"idle", "dma"} /\ ioctl_dma
  /\ ioctl_dma' = FALSE /\ ioctl_lock' = TRUE
  /\ dpc' = "dma"
  /\ UNCHANGED <<hostVars, doorbell, ret, ringVars, poolVars, unlock_timer>>

(* Slip: the local buffer is freed though in use.                          *)
UpdateReadPtr_Frees ==
  /\ dpc = "handle"
  /\ tcm_r' = ADVANCE(tcm_r, handling, MaxItem)
  /\ handling' = 0
  /\ dpc' = "dma"
  /\ availcnt' = availcnt + 1
  /\ UNCHANGED <<hostVars, doorbell, ret, rd_pending, dmaq, fetched, log, inuse,
                 lockVars>>

(* The rest of the round: the read index moves, and the local buffer is    *)
(* free again unless it went to the in-use list.                           *)
UpdateReadPtr ==
  /\ dpc = "handle"
  /\ tcm_r' = ADVANCE(tcm_r, handling, MaxItem)
  /\ handling' = 0
  /\ dpc' = "dma"
  /\ availcnt' = IF InUsePool THEN availcnt ELSE availcnt + 1
  /\ UNCHANGED <<hostVars, doorbell, ret, rd_pending, dmaq, fetched, log, inuse,
                 lockVars>>

(* The end of pciedev_handle_h2d_dma looks for new messages.               *)
EndDma ==
  /\ dpc = "dma"
  /\ msgbuf_intr_process("idle")
  /\ UNCHANGED <<hostVars, doorbell, ringVars, poolVars, lockVars>>

(* pciedev_get_host_addr: the firmware takes one rx buffer of the oldest   *)
(* in-use local buffer; the last one frees it and scans the ring again.    *)
(* It runs whenever the rx packet pool is refilled: between interrupts,    *)
(* and from the handler of an rx buffer block.                             *)
TakeRxBuf ==
  /\ dpc \in {"idle", "handle"} /\ inuse # <<>>
  /\ IF inuse[1] = 1
     THEN /\ inuse' = Tail(inuse)
          /\ availcnt' = availcnt + 1
          /\ msgbuf_intr_process(dpc)
     ELSE /\ inuse' = [inuse EXCEPT ![1] = @ - 1]
          /\ UNCHANGED <<availcnt, dpc, ret>>
  /\ UNCHANGED <<hostVars, doorbell, ringVars, lockVars>>

(* pciedev_process_ioctl_done.                                             *)
IoctlDone ==
  /\ dpc = "idle" /\ ioctl_lock
  /\ ioctl_lock' = FALSE /\ unlock_timer' = TRUE
  /\ UNCHANGED <<hostVars, doorbell, dpc, ret, ringVars, poolVars, ioctl_dma>>

(* Slip: the ring is not looked at when the lock is gone.                  *)
UnlockTimer_NoScan ==
  /\ dpc = "idle" /\ unlock_timer
  /\ unlock_timer' = FALSE
  /\ UNCHANGED <<hostVars, doorbell, dpc, ret, ringVars, poolVars, ioctl_dma,
                 ioctl_lock>>

(* pciedev_sched_msgbuf_intr_process.                                      *)
UnlockTimer ==
  /\ dpc = "idle" /\ unlock_timer
  /\ unlock_timer' = FALSE
  /\ msgbuf_intr_process("idle")
  /\ UNCHANGED <<hostVars, doorbell, ringVars, poolVars, ioctl_dma, ioctl_lock>>

-----------------------------------------------------------------------------
HostStep == \/ \E q \in Requests : Claim(q[1], q[2])
            \/ Fill \/ GiveUp \/ PublishIndex \/ RingDoorbell

DongleStep == \/ DoorbellIntr \/ StartFetch \/ EndScan
              \/ HandleDma \/ HandleIoctlDma \/ UpdateReadPtr \/ EndDma
              \/ TakeRxBuf \/ IoctlDone \/ UnlockTimer

Next == HostStep \/ DongleStep

Spec == Init /\ [][Next]_vars

(* The host finishes a post it began.  The dongle's thread serves pending  *)
(* interrupts, timers and finished DMAs in turn, so none waits for ever    *)
(* behind the others, though each is pending only between two others:      *)
(* hence strong fairness.  Ioctls end, and received frames use up the      *)
(* posted buffers.                                                         *)
Fairness ==
  /\ WF_vars(Fill \/ GiveUp \/ PublishIndex \/ RingDoorbell)
  /\ WF_vars(StartFetch \/ EndScan)
  /\ WF_vars(UpdateReadPtr)
  /\ WF_vars(EndDma)
  /\ SF_vars(HandleDma)
  /\ SF_vars(DoorbellIntr)
  /\ SF_vars(TakeRxBuf)
  /\ SF_vars(IoctlDone)
  /\ SF_vars(UnlockTimer)

FairSpec == Spec /\ Fairness

-----------------------------------------------------------------------------
(* Every variable has its type.                                            *)
TypeOK ==
  /\ slot \in [0..MaxItem-1 -> Nat]
  /\ w_offset \in 0..MaxItem-1 /\ r_offset \in 0..MaxItem-1
  /\ tcm_w \in 0..MaxItem-1 /\ tcm_r \in 0..MaxItem-1
  /\ hpc \in {"idle", "fill", "bell"}
  /\ claim \in [start : 0..MaxItem-1, len : 0..MaxItem-1,
                filled : 0..MaxItem-1]
  /\ doorbell \in BOOLEAN
  /\ dpc \in {"idle", "handle", "dma", "scan"} /\ ret \in {"idle", "handle"}
  /\ handling \in 0..MaxItem-1
  /\ rd_pending \in 0..MaxItem-1
  /\ dmaq \in Seq([from : 0..MaxItem-1, len : 1..MaxItem-1, first : Nat])
  /\ availcnt \in 0..BufCnt
  /\ inuse \in Seq(1..MaxItem)
  /\ ioctl_dma \in BOOLEAN /\ ioctl_lock \in BOOLEAN /\ unlock_timer \in BOOLEAN
  /\ posted \in Nat /\ fetched \in Nat
  /\ log \in Seq(Nat)

(* The host never reuses a slot the dongle's DMA engine may still read:    *)
(* every block in flight holds the messages it was started for.            *)
FetchIntact ==
  \A k \in 1..Len(dmaq) : \A i \in 1..dmaq[k].len :
    slot[dmaq[k].from + (i - 1)] = dmaq[k].first + (i - 1)

(* Between two posts the host's write index is the published one: the      *)
(* roll-back gives back exactly the items that were not filled, also when  *)
(* the claim ended at the last slot and the index had wrapped to 0.        *)
RollbackExact == claim = NoClaim => w_offset = tcm_w

(* A local buffer is free, or the target of one DMA, or in use; none is    *)
(* lost and none is freed twice.                                           *)
PoolConserved ==
  availcnt + Len(dmaq) + Len(inuse)
    + (IF handling # 0 /\ ~InUsePool THEN 1 ELSE 0) = BufCnt

(* The inductive invariant.  done counts the messages the read index has   *)
(* passed; Dist is the number of slots from one index to another.          *)
done == Len(log) - handling

Dist(a, b) == NTXPACTIVE(a, b, MaxItem)

(* The host's claim starts at the published index and ends at w_offset,    *)
(* what is filled holds the next messages, and the cached read index has   *)
(* not passed the real one.                                                *)
HostInv ==
  /\ hpc # "fill" => claim = NoClaim /\ w_offset = tcm_w
  /\ hpc = "fill" =>
       /\ claim.len >= 1 /\ claim.filled <= claim.len
       /\ claim.start = tcm_w /\ claim.start + claim.len <= MaxItem
       /\ w_offset = ADVANCE(tcm_w, claim.len, MaxItem)
       /\ \A i \in 0..claim.filled-1 : slot[claim.start + i] = posted + i + 1
  /\ Dist(r_offset, w_offset) = Dist(r_offset, tcm_r) + Dist(tcm_r, w_offset)

(* The indices are as far apart as the messages they count.                *)
IndexInv ==
  /\ handling <= Len(log) /\ Len(log) <= fetched /\ fetched <= posted
  /\ Dist(tcm_r, tcm_w) = posted - done
  /\ Dist(tcm_r, w_offset) = (posted - done) + claim.len
  /\ Dist(tcm_r, rd_pending) = fetched - done
  /\ tcm_r + handling <= MaxItem
  /\ handling = 0 <=> dpc \in {"idle", "dma"} \/ (dpc = "scan" /\ ret = "idle")

(* Every published message the read index has not passed is in its slot.   *)
SlotInv ==
  \A i \in 0..MaxItem-1 :
    Dist(tcm_r, i) < posted - done => slot[i] = done + Dist(tcm_r, i) + 1

(* The DMA blocks in flight continue each other, from the last message     *)
(* handled to the last one fetched, and none passes the end of the ring.   *)
DmaInv ==
  /\ IF dmaq = <<>> THEN fetched = Len(log)
     ELSE /\ dmaq[1].first = Len(log) + 1
          /\ dmaq[Len(dmaq)].first + dmaq[Len(dmaq)].len = fetched + 1
  /\ \A k \in 1..Len(dmaq) :
       /\ dmaq[k].from + dmaq[k].len <= MaxItem
       /\ dmaq[k].first >= Len(log) + 1
       /\ dmaq[k].first + dmaq[k].len <= fetched + 1
       /\ Dist(tcm_r, dmaq[k].from) = (dmaq[k].first - 1) - done
       /\ k < Len(dmaq) => dmaq[k+1].first = dmaq[k].first + dmaq[k].len
       /\ \A j \in 1..k-1 : dmaq[j].first + dmaq[j].len <= dmaq[k].first

(* What is left to show of the messages handled: they are 1, 2, 3, ...     *)
LogInv == \A n \in 1..Len(log) : log[n] = n

IInv == /\ TypeOK /\ PoolConserved
        /\ HostInv /\ IndexInv /\ SlotInv /\ DmaInv /\ LogInv

(* The ring is an in-order, exactly-once channel.                          *)
Channel == INSTANCE MsgChannel WITH Capacity <- MaxItem - 1, sent <- posted
ImplementsChannel == Channel!Spec

(* Every published message is handled in the end: no published index is    *)
(* left without a later scan of the ring, whatever doorbell, DMA, buffer   *)
(* shortage or ioctl it coincides with.                                    *)
EventuallyHandled ==
  \A n \in 1..MaxMsgs : posted >= n ~> Len(log) >= n
=============================================================================
