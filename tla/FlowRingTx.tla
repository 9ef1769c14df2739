------------------------------ MODULE FlowRingTx ------------------------------
(***************************************************************************)
(* The dongle's side of one tx flow ring (pciedev_data.c, pciedev.c).  The *)
(* host posts tx messages; the dongle fetches them in blocks, hands each   *)
(* to wl in a buffer of its own (an lfrag), and wl returns the lfrags in   *)
(* any order with a status.  A final status completes the message, and the *)
(* read index moves over the completed prefix; a suppressed message is     *)
(* fetched again.  A flush or delete request completes what is left        *)
(* without sending it and is answered when nothing is left.                *)
(*                                                                         *)
(* The dongle runs to completion: each action is one handler with every    *)
(* helper it calls, and the helpers are functions on the ring's record.    *)
(* Only the fetch callback is split, into its messages, because sending    *)
(* one up may bring others back before it goes on.                         *)
(***************************************************************************)
EXTENDS RingIndex, Sequences, FiniteSets

CONSTANTS
  MaxItem,     (* slots of the ring                                        *)
  ItemCnt,     (* messages a local buffer holds: buf_pool->item_cnt        *)
  BufCnt,      (* local buffers, one for each block fetched: buf_cnt       *)
  LfragCnt,    (* lfrags of the tx pool                                    *)
  MaxFetch,    (* largest maxpktcnt of the scheduler                       *)
  FetchMod,    (* fetch_pending counts modulo this (a uint8: 256)          *)
  Requests,    (* control requests the host makes: "flush", "delete"       *)
  MaxMsgs,     (* bound: messages posted                                   *)
  MaxSup,      (* bound: suppressions by wl or for want of an lfrag        *)
  MaxRefuse,   (* bound: times a flush finds no room for a tx status       *)
  MaxClose,    (* bound: times wl closes the port                          *)
  MaxPoll      (* bound: times wl asks for packets                         *)

ASSUME FlowRingAssumption ==
  /\ MaxItem \in Nat /\ MaxItem >= 2
  /\ {ItemCnt, BufCnt, LfragCnt, MaxFetch, FetchMod} \subseteq Nat \ {0}
  /\ {MaxMsgs, MaxSup, MaxRefuse, MaxClose, MaxPoll} \subseteq Nat
  /\ Requests \subseteq {"flush", "delete"}

VARIABLES
  slot,        (* host memory: the message in each slot, 0 when none       *)
  w,           (* TCM: write index, written by the host                    *)
  posted,      (* number of messages posted                                *)
  doorbell,    (* a scan of the flow rings is due                          *)
  request,     (* control requests: "none", "sent", "taken", "answered"    *)
  ring,        (* dongle: the flow ring's msgbuf_ring_t and its fetches    *)
  cb,          (* dongle: the fetch callback at work                       *)
  wl,          (* the lfrags wl holds: ring index and message of each      *)
  acked,       (* tx statuses the host was sent for each message           *)
  left         (* what is left of the bounds MaxSup .. MaxPoll              *)

vars == <<slot, w, posted, doorbell, request, ring, cb, wl, acked, left>>

Idx == 0 .. MaxItem-1

NoCb == [idx |-> 0, todo |-> 0, len |-> 0, sentup |-> FALSE]

(* r is the read index in the TCM, rd rd_pending; fetchq the blocks being  *)
(* fetched, bufs the local buffers taken; timer flow_sch_timer_on; a flag  *)
(* of status is named as in pciedev_priv.h; resp the responses sent.       *)
NewRing ==
  [inited |-> TRUE, r |-> 0, rd |-> 0, inprocess |-> {}, status_cmpl |-> {},
   hole_pending |-> FALSE, pktinflight |-> 0, fetch_pending |-> 0,
   fetchq |-> <<>>, bufs |-> 0, status |-> {}, timer |-> FALSE, resp |-> {}]

Init ==
  /\ slot = [i \in Idx |-> 0] /\ w = 0 /\ posted = 0
  /\ doorbell = FALSE
  /\ request = [q \in {"flush", "delete"} |-> "none"]
  /\ ring = NewRing /\ cb = NoCb /\ wl = {}
  /\ acked = [m \in 1..MaxMsgs |-> 0]
  /\ left = [sup |-> MaxSup, refuse |-> MaxRefuse,
             close |-> MaxClose, poll |-> MaxPoll]

-----------------------------------------------------------------------------
(* The helpers: functions on the ring's record f.                          *)

Has(f, flag) == flag \in f.status
Set(f, flag) == [f EXCEPT !.status = @ \cup {flag}]
Clr(f, flag) == [f EXCEPT !.status = @ \ {flag}]

(* Slip: the modulo is forgotten.                                          *)
Plus_NoWrap(i, k) == i + k

(* The index k slots after i, over the wrap.                               *)
Plus(i, k) == (i + k) % MaxItem

(* Slip: fetches under way are forgotten.                                  *)
NothingOut_NoFetch(f) == f.pktinflight = 0

NothingOut(f) == f.pktinflight = 0 /\ f.fetch_pending = 0

(* Slip: suppression ends too early.                                       *)
ClearSup_Always(f) == Clr(f, "SUP_PENDING")

ClearSup(f) == IF NothingOut(f) THEN Clr(f, "SUP_PENDING") ELSE f

(* Slip: the wrapped window is not handled.                                *)
AdjustPtr_NoWrap(f, index) ==
  IF index >= f.r /\ index < f.rd THEN [f EXCEPT !.rd = index] ELSE f

(* Back to index, when it lies between the read index and the fetch one.   *)
pciedev_adjust_flow_fetch_ptr(f, index) ==
  IF f.rd >= f.r
  THEN IF index >= f.r /\ index < f.rd THEN [f EXCEPT !.rd = index] ELSE f
  ELSE IF index < f.rd \/ index >= f.r THEN [f EXCEPT !.rd = index] ELSE f

(* When the next message to fetch is complete, go to the first one that is *)
(* not, or else past all the complete ones.                                *)
pciedev_update_rdp_ptr_unacked(f) ==
  LET ahead == {k \in Idx : /\ k < NTXPACTIVE(f.rd, w, MaxItem)
                            /\ Plus(f.rd, k) \in f.inprocess}
      open  == {k \in ahead : Plus(f.rd, k) \notin f.status_cmpl}
  IN  IF f.rd \notin f.status_cmpl THEN f
      ELSE IF open # {}
           THEN [f EXCEPT !.rd =
                   Plus(f.rd, CHOOSE k \in open : \A j \in open : k <= j)]
           ELSE [f EXCEPT !.rd = Plus(f.rd, Cardinality(ahead))]

(* How many messages to fetch: all of a block for a flush, else as many as *)
(* there are lfrags not yet spoken for, and at most maxpktcnt.             *)
pciedev_get_maxpkt_fetch_count(f, maxpktcnt) ==
  LET avail == READ_AVAIL_SPACE(w, f.rd, MaxItem)
      lbuf  == LfragCnt - Cardinality(wl)
  IN  IF Has(f, "FLUSH_PENDING") THEN MIN(avail, ItemCnt)
      ELSE IF lbuf > f.fetch_pending
           THEN MIN(MIN(lbuf - f.fetch_pending, maxpktcnt), MIN(avail, ItemCnt))
           ELSE 0

(* Slip: messages complete already are fetched again.                      *)
ReadRing_All(f, maxpktcnt) ==
  LET len == pciedev_get_maxpkt_fetch_count(f, maxpktcnt)
  IN  IF f.bufs = BufCnt \/ len = 0 THEN f
      ELSE [f EXCEPT !.rd = ADVANCE(@, len, MaxItem), !.bufs = @ + 1,
                     !.inprocess = @ \cup {Plus(f.rd, k) : k \in 0..len-1},
                     !.fetchq = Append(@, [idx |-> f.rd, len |-> len]),
                     !.fetch_pending = (@ + len) % FetchMod]

(* Up to the first message that is complete already.                       *)
pciedev_read_flow_ring_host_buffer(f, maxpktcnt) ==
  LET max  == pciedev_get_maxpkt_fetch_count(f, maxpktcnt)
      cmpl == {k \in 0..max-1 : Plus(f.rd, k) \in f.status_cmpl}
      len  == IF cmpl = {} THEN max
              ELSE CHOOSE k \in cmpl : \A j \in cmpl : k <= j
  IN  pciedev_update_rdp_ptr_unacked(
        IF f.bufs = BufCnt \/ len = 0 THEN f
        ELSE [f EXCEPT !.rd = ADVANCE(@, len, MaxItem), !.bufs = @ + 1,
                       !.inprocess = @ \cup {Plus(f.rd, k) : k \in 0..len-1},
                       !.fetchq = Append(@, [idx |-> f.rd, len |-> len]),
                       !.fetch_pending = (@ + len) % FetchMod])

(* The ring is freed with the answer to a delete request.                  *)
pciedev_send_flow_ring_delete_resp(f) ==
  [Clr(f, "DELETE_RESP_PENDING") EXCEPT
     !.inited = FALSE, !.r = 0, !.rd = 0, !.inprocess = {}, !.status_cmpl = {},
     !.fetch_pending = 0, !.hole_pending = FALSE, !.resp = @ \cup {"delete"}]

pciedev_send_flow_ring_flush_resp(f) ==
  [Clr(f, "FLUSH_RESP_PENDING") EXCEPT !.resp = @ \cup {"flush"}]

(* During a flush: fetch more, or end the flush and answer the request.    *)
pciedev_process_pending_flring_resp(f) ==
  LET ended == Clr(f, "FLUSH_PENDING")
  IN  IF ~Has(f, "FLUSH_PENDING") \/ Has(f, "NOFLUSH_TXUPDATE") THEN f
      ELSE IF w = f.r \/ (w = f.rd /\ NothingOut(f))
           THEN IF Has(f, "FLUSH_RESP_PENDING")
                THEN pciedev_send_flow_ring_flush_resp(ended)
                ELSE IF Has(f, "DELETE_RESP_PENDING")
                     THEN pciedev_send_flow_ring_delete_resp(ended)
                     ELSE ended
           ELSE pciedev_read_flow_ring_host_buffer(f, MaxFetch)

(* Mark the ring for fetching and start the scheduler's timer.             *)
pciedev_schedule_flow_ring_read_buffer(f) ==
  IF f.timer \/ ~f.inited \/ READ_AVAIL_SPACE(w, f.rd, MaxItem) = 0 THEN f
  ELSE [Set(f, "PKT_PENDING") EXCEPT !.timer = TRUE]

(* Slip: the read index moves past whatever completes.                     *)
Complete_InOrder(f, index) ==
  [f EXCEPT !.status_cmpl = @ \ {index}, !.inprocess = @ \ {index},
            !.r = Plus(index, 1)]

(* The message at index is complete: the read index moves over all the     *)
(* complete messages it meets.                                             *)
Complete(f, index) ==
  LET cmpl == f.status_cmpl \cup {index}
      run  == {k \in Idx : \A j \in 0..k : Plus(f.r, j) \in cmpl}
      past == {Plus(f.r, k) : k \in run}
      r    == Plus(f.r, Cardinality(run))
  IN  [f EXCEPT !.status_cmpl = cmpl \ past, !.inprocess = @ \ past, !.r = r,
                !.hole_pending = r # index]

Suppressing == {"SUPPRESS"}

(* pciedev_update_txstatus: the ring after the status of the message at    *)
(* index, and whether the host is to be told (BCME_OK).                    *)
pciedev_update_txstatus(f0, status, index) ==
  LET f    == [f0 EXCEPT !.pktinflight = (@ + 65535) % 65536]
      fast == status = "DISCARD" /\ ~f.hole_pending /\ f.r = index
      sup  == ~Has(f, "FLUSH_PENDING") /\ status \in Suppressing
      dup  == index \in f.status_cmpl \/ index \notin f.inprocess
      moved ==
        IF fast
        THEN [f EXCEPT !.inprocess = @ \ {index},
                       !.status_cmpl = @ \ {index}, !.r = Plus(@, 1)]
        ELSE IF sup
        THEN pciedev_adjust_flow_fetch_ptr(
               IF NothingOut(f) THEN f ELSE Set(f, "SUP_PENDING"), index)
        ELSE IF dup THEN f
        ELSE Complete(f, index)
  IN  [ring |-> pciedev_schedule_flow_ring_read_buffer(
                  pciedev_process_pending_flring_resp(ClearSup(moved))),
       ok   |-> fast \/ ~(sup \/ dup)]

(* pciedev_queue_txstatus for the message of an lfrag, when u says so.     *)
QueueTxStatus(u, msg) ==
  acked' = IF u.ok THEN [acked EXCEPT ![msg] = @ + 1] ELSE acked

-----------------------------------------------------------------------------
(* The host.  The block-wise claim of slots and the caching of the read    *)
(* index are H2DRing's subject; here a post takes one slot.                *)

(* A flow being deleted takes no more packets, one being flushed does:     *)
(* what was queued meanwhile is posted as tx statuses make room.           *)
dhd_prot_txdata ==
  /\ request["delete"] = "none"
  /\ posted < MaxMsgs
  /\ CHECK_WRITE_SPACE(ring.r, w, MaxItem) # 0
  /\ posted' = posted + 1
  /\ slot' = [slot EXCEPT ![w] = posted + 1]
  /\ w' = NEXTTXP(w, MaxItem)
  /\ doorbell' = TRUE
  /\ UNCHANGED <<request, ring, cb, wl, acked, left>>

(* One request in the life of the ring: nothing in the host's code calls   *)
(* dhd_bus_flow_ring_flush_request, and a delete ends the ring.            *)
SendRequest(q) ==
  /\ \A p \in DOMAIN request : request[p] = "none"
  /\ request' = [request EXCEPT ![q] = "sent"]
  /\ UNCHANGED <<slot, w, posted, doorbell, ring, cb, wl, acked, left>>

HostResponse(q) ==
  /\ request[q] = "taken" /\ q \in ring.resp
  /\ request' = [request EXCEPT ![q] = "answered"]
  /\ UNCHANGED <<slot, w, posted, doorbell, ring, cb, wl, acked, left>>

-----------------------------------------------------------------------------
(* The dongle.  Its model ends when the ring is freed: the host may use    *)
(* the ring for another flow then.                                         *)
Idle == cb = NoCb /\ ring.inited

(* The doorbell, or the timer at the end of an ioctl that held it up.      *)
MsgbufIntr ==
  /\ Idle /\ doorbell
  /\ doorbell' = FALSE
  /\ ring' = pciedev_schedule_flow_ring_read_buffer(ring)
  /\ UNCHANGED <<slot, w, posted, request, cb, wl, acked, left>>

(* pciedev_flow_schedule_timerfn.  While the port is closed it skips the   *)
(* ring or, when wl has no use for a traffic indication, fetches one.      *)
FlowScheduleTimer ==
  LET f     == ClearSup([ring EXCEPT !.timer = FALSE])
      fetch == ~Has(f, "SUP_PENDING") /\ Has(f, "PKT_PENDING")
      again(g) == ring' = pciedev_schedule_flow_ring_read_buffer(g)
  IN
  /\ Idle /\ ring.timer
  /\ \/ /\ ~fetch \/ Has(f, "PORT_CLOSED")
        /\ again(f)
     \/ /\ fetch
        /\ \E n \in IF Has(f, "PORT_CLOSED") THEN {1} ELSE 1..MaxFetch :
             again(Clr(pciedev_read_flow_ring_host_buffer(f, n),
                       "PKT_PENDING"))
  /\ UNCHANGED <<slot, w, posted, doorbell, request, cb, wl, acked, left>>

(* wl closes or opens the port of a station that sleeps or wakes ...       *)
pciedev_upd_flr_port_handle(open) ==
  /\ Idle
  /\ IF open THEN /\ Has(ring, "PORT_CLOSED")
                  /\ ring' = Clr(ring, "PORT_CLOSED")
                  /\ UNCHANGED left
             ELSE /\ ~Has(ring, "PORT_CLOSED") /\ left.close > 0
                  /\ ring' = Set(ring, "PORT_CLOSED")
                  /\ left' = [left EXCEPT !.close = @ - 1]
  /\ UNCHANGED <<slot, w, posted, doorbell, request, cb, wl, acked>>

(* ... and asks for packets for one that polls, whatever the flags say.    *)
pciedev_process_reqst_packet(count) ==
  /\ Idle /\ left.poll > 0
  /\ left' = [left EXCEPT !.poll = @ - 1]
  /\ ring' = IF READ_AVAIL_SPACE(w, ring.rd, MaxItem) = 0
             THEN Clr(ring, "PKT_PENDING")
             ELSE pciedev_read_flow_ring_host_buffer(ring, count)
  /\ UNCHANGED <<slot, w, posted, doorbell, request, cb, wl, acked>>

(* The oldest block has arrived: pciedev_flowring_fetch_cb begins ...      *)
FetchCb ==
  LET b == ring.fetchq[1]
  IN
  /\ Idle /\ ring.fetchq # <<>>
  /\ cb' = [idx |-> b.idx, todo |-> b.len, len |-> b.len, sentup |-> FALSE]
  /\ ring' = [ring EXCEPT !.fetchq = Tail(@)]
  /\ UNCHANGED <<slot, w, posted, doorbell, request, wl, acked, left>>

InCb == ring.inited /\ cb.todo > 0

NextMsg(sentup) ==
  cb' = [cb EXCEPT !.idx = Plus(@, 1), !.todo = @ - 1, !.sentup = sentup]

(* ... and handles its messages one by one.  During a flush a message is   *)
(* completed without being sent, when the status can be queued.            *)
FlushMsg ==
  LET f == Set([ring EXCEPT !.pktinflight = (@ + 1) % 65536],
               "NOFLUSH_TXUPDATE")
      u == pciedev_update_txstatus(f, "FLUSH", cb.idx)
  IN
  /\ InCb /\ Has(ring, "FLUSH_PENDING")
  /\ NextMsg(FALSE)
  /\ \/ /\ ring' = Clr(u.ring, "NOFLUSH_TXUPDATE")
        /\ QueueTxStatus(u, slot[cb.idx])
        /\ UNCHANGED left
     \/ /\ left.refuse > 0
        /\ left' = [left EXCEPT !.refuse = @ - 1]
        /\ ring' = pciedev_adjust_flow_fetch_ptr(ring, cb.idx)
        /\ UNCHANGED acked
  /\ UNCHANGED <<slot, w, posted, doorbell, request, wl>>

(* Otherwise it is sent up in an lfrag; with none left it is suppressed.   *)
pciedev_process_tx_post ==
  LET f == [ring EXCEPT !.pktinflight = (@ + 1) % 65536]
  IN
  /\ InCb /\ ~Has(ring, "FLUSH_PENDING") /\ ~Has(ring, "SUP_PENDING")
  /\ \/ /\ Cardinality(wl) < LfragCnt
        /\ ring' = f
        /\ wl' = wl \cup {[idx |-> cb.idx, msg |-> slot[cb.idx]]}
        /\ NextMsg(TRUE)
        /\ UNCHANGED left
     \/ /\ left.sup > 0
        /\ left' = [left EXCEPT !.sup = @ - 1]
        /\ ring' = pciedev_update_txstatus(f, "SUPPRESS", cb.idx).ring
        /\ NextMsg(cb.sentup)
        /\ UNCHANGED wl
  /\ UNCHANGED <<slot, w, posted, doorbell, request, acked>>

(* While suppression lasts nothing is sent up.                             *)
SkipMsg ==
  /\ InCb /\ ~Has(ring, "FLUSH_PENDING") /\ Has(ring, "SUP_PENDING")
  /\ ring' = pciedev_adjust_flow_fetch_ptr(ring, cb.idx)
  /\ NextMsg(cb.sentup)
  /\ UNCHANGED <<slot, w, posted, doorbell, request, wl, acked, left>>

(* The ring when the callback ends: its block is given back.               *)
BlockDone ==
  ClearSup([ring EXCEPT !.bufs = @ - 1,
                        !.fetch_pending = (@ + (FetchMod - cb.len)) % FetchMod])

(* pciedev_handle_h2d_dma scans the rings after the callbacks: at once, or *)
(* after those of other blocks and at the end of an ioctl that holds it up.*)
RescanOf(f) ==
  \/ ring' = pciedev_schedule_flow_ring_read_buffer(f) /\ UNCHANGED doorbell
  \/ ring' = f /\ doorbell' = TRUE

(* Slips: nobody looks whether the flush has ended; nobody scans the ring. *)
FetchDone_NoResp ==
  /\ cb # NoCb /\ cb.todo = 0
  /\ RescanOf(BlockDone)
  /\ cb' = NoCb
  /\ UNCHANGED <<slot, w, posted, request, wl, acked, left>>

FetchDone_NoScan ==
  /\ cb # NoCb /\ cb.todo = 0
  /\ ring' = pciedev_process_pending_flring_resp(BlockDone)
  /\ cb' = NoCb
  /\ UNCHANGED <<slot, w, posted, doorbell, request, wl, acked, left>>

(* The end of the callback and what the handler of the DMA does after it.  *)
FetchDone ==
  /\ cb # NoCb /\ cb.todo = 0
  /\ RescanOf(pciedev_process_pending_flring_resp(BlockDone))
  /\ cb' = NoCb
  /\ UNCHANGED <<slot, w, posted, request, wl, acked, left>>

(* wl is done with an lfrag (pciedev_process_d2h_txmetadata): sent or      *)
(* dropped for good ("DISCARD" is 0, "TOSSED" stands for the others), or   *)
(* suppressed.  Messages just sent up may come back within the callback.   *)
TxStatus(l, status) ==
  LET u == pciedev_update_txstatus(ring, status, l.idx)
  IN
  /\ Idle \/ (ring.inited /\ cb.sentup)
  /\ status \in Suppressing => left.sup > 0
  /\ left' = IF status \in Suppressing THEN [left EXCEPT !.sup = @ - 1] ELSE left
  /\ ring' = u.ring
  /\ wl' = wl \ {l}
  /\ QueueTxStatus(u, l.msg)
  /\ UNCHANGED <<slot, w, posted, doorbell, request, cb>>

(* pciedev_process_flow_ring_flush_rqst and _delete_rqst.  With nothing    *)
(* pending the answer goes out at once.                                    *)
FlowRingRequest(q) ==
  LET respond(f) == IF q = "flush" THEN pciedev_send_flow_ring_flush_resp(f)
                    ELSE pciedev_send_flow_ring_delete_resp(f)
      asked == Set(ring, IF q = "flush" THEN "FLUSH_RESP_PENDING"
                         ELSE "DELETE_RESP_PENDING")
  IN
  /\ Idle /\ request[q] = "sent"
  /\ request' = [request EXCEPT ![q] = "taken"]
  /\ ring' = IF w = ring.r THEN respond(ring)
             ELSE IF Has(ring, "FLUSH_PENDING") THEN asked
             ELSE pciedev_read_flow_ring_host_buffer(
                    Set(asked, "FLUSH_PENDING"), MaxFetch)
  /\ UNCHANGED <<slot, w, posted, doorbell, cb, wl, acked, left>>

-----------------------------------------------------------------------------
HostStep == \/ dhd_prot_txdata
            \/ \E q \in Requests : SendRequest(q) \/ HostResponse(q)

Callback == FlushMsg \/ pciedev_process_tx_post \/ SkipMsg \/ FetchDone

Final == {"DISCARD", "TOSSED"}

DongleStep ==
  \/ MsgbufIntr \/ FlowScheduleTimer \/ FetchCb \/ Callback
  \/ \E open \in BOOLEAN : pciedev_upd_flr_port_handle(open)
  \/ \E n \in 1..MaxFetch : pciedev_process_reqst_packet(n)
  \/ \E l \in wl, s \in Final \cup Suppressing : TxStatus(l, s)
  \/ \E q \in Requests : FlowRingRequest(q)

Next == HostStep \/ DongleStep

Spec == Init /\ [][Next]_vars

(* The dongle's thread goes on while there is work for it: the doorbell,   *)
(* the timer, a finished fetch, a control request; wl finishes the packets *)
(* it holds and opens a closed port.  The bounds leave only finitely much  *)
(* of it, so this says as much as fairness to each kind of work.           *)
Work ==
  \/ MsgbufIntr \/ FlowScheduleTimer \/ FetchCb \/ Callback
  \/ pciedev_upd_flr_port_handle(TRUE)
  \/ \E l \in wl, s \in Final : TxStatus(l, s)
  \/ \E q \in Requests : FlowRingRequest(q)

Fairness == WF_vars(Work) /\ WF_vars(\E q \in Requests : HostResponse(q))

FairSpec == Spec /\ Fairness

-----------------------------------------------------------------------------
(* The largest count of packets in flight, a uint16.                       *)
MaxInflight == 65535

(* Every variable has its type.                                            *)
TypeOK ==
  /\ slot \in [Idx -> 0..MaxMsgs] /\ w \in Idx /\ posted \in 0..MaxMsgs
  /\ doorbell \in BOOLEAN
  /\ request \in [{"flush", "delete"} -> {"none", "sent", "taken", "answered"}]
  /\ ring.inited \in BOOLEAN /\ ring.r \in Idx /\ ring.rd \in Idx
  /\ ring.inprocess \subseteq Idx /\ ring.status_cmpl \subseteq Idx
  /\ ring.hole_pending \in BOOLEAN /\ ring.timer \in BOOLEAN
  /\ ring.pktinflight \in 0..MaxInflight /\ ring.fetch_pending \in 0..FetchMod-1
  /\ ring.fetchq \in Seq([idx : Idx, len : 1..MaxItem])
  /\ ring.bufs \in 0..BufCnt
  /\ ring.status \subseteq {"PKT_PENDING", "PORT_CLOSED", "DELETE_RESP_PENDING",
                            "FLUSH_RESP_PENDING", "FLUSH_PENDING",
                            "SUP_PENDING", "NOFLUSH_TXUPDATE"}
  /\ ring.resp \subseteq {"flush", "delete"}
  /\ cb \in [idx : Idx, todo : 0..MaxItem, len : 0..MaxItem, sentup : BOOLEAN]
  /\ wl \subseteq [idx : Idx, msg : 1..MaxMsgs]
  /\ acked \in [1..MaxMsgs -> Nat]
  /\ left \in [sup : 0..MaxSup, refuse : 0..MaxRefuse, close : 0..MaxClose,
              poll : 0..MaxPoll]

(* wl holds no packet whose buffer the host has been told is free.         *)
BufferOwned == \A l \in wl : acked[l.msg] = 0

(* The read index passes only completed messages: a slot the host may      *)
(* write again holds nothing the dongle would still fetch.                 *)
SlotsFreedAcked ==
  ring.inited =>
    \A m \in 1..(posted - NTXPACTIVE(ring.r, w, MaxItem)) : acked[m] = 1

(* The fetch index stays between the read and the write index, and         *)
(* everything between the read index and it was completed, is being        *)
(* fetched or handled, or is with wl: nothing is skipped.                  *)
Fetching ==
  (UNION {{Plus(ring.fetchq[k].idx, i) : i \in 0..ring.fetchq[k].len-1} :
             k \in 1..Len(ring.fetchq)})
    \cup {Plus(cb.idx, i) : i \in 0..cb.todo-1}

NothingSkipped ==
  ring.inited =>
    LET depth(i) == NTXPACTIVE(ring.r, i, MaxItem)
    IN  /\ depth(ring.rd) <= depth(w)
        /\ \A i \in Idx : depth(i) < depth(ring.rd) =>
             \/ acked[slot[i]] = 1
             \/ i \in Fetching
             \/ \E l \in wl : l.idx = i

(* The in-flight count is the number of packets with wl: a message is      *)
(* never sent up a second time while wl still holds it.                    *)
InflightExact == ring.inited => ring.pktinflight = Cardinality(wl)

(* "Delete Resp will come after all packets are drained": when the ring is *)
(* freed, wl holds none of its packets and no fetch into it is under way.  *)
DeleteDrained == ring.inited \/ (wl = {} /\ ring.fetchq = <<>>)

(* No message is completed twice (the host frees its buffer and packet id  *)
(* at the first tx status), and the ring takes a new message only when the *)
(* one that had its slot is complete.                                      *)
Window == INSTANCE TxWindow WITH Capacity <- MaxItem - 1
ImplementsTxWindow == Window!Spec

(* Every message posted gets its tx status, whatever suppressions, power   *)
(* save, polls and flushes come between: blocks may overtake one another's *)
(* roll-backs, and someone scans the ring after the last of them.          *)
EventuallyAcked == \A n \in 1..MaxMsgs : posted >= n ~> acked[n] >= 1

(* Every request is answered.                                              *)
EventuallyAnswered ==
  \A q \in Requests : request[q] = "sent" ~> request[q] = "answered"
=============================================================================
