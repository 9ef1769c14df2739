------------------------------ MODULE IoctlPath ------------------------------
(***************************************************************************)
(* An ioctl from the host to the dongle and back.                          *)
(*                                                                         *)
(*   The host writes the arguments into one shared buffer (ioctbuf), posts *)
(*   a request on the control submit ring, posts response buffers until    *)
(*   max_ioctlrespbufpost are out, and waits for rxlen to become non-zero  *)
(*   or for a time-out (dhd_msgbuf.c, dhd_pcie.c, dhd_linux.c).            *)
(*                                                                         *)
(*   The dongle reads control messages in blocks, but none while an ioctl  *)
(*   is served (ioctl_lock).  It fetches the arguments, waits for the      *)
(*   resources an answer needs (ioctl_pend), runs the command, queues the  *)
(*   answer on the control completion ring and releases the lock when the  *)
(*   answer's DMA is done (pciedev.c, pciedev_data.c).                     *)
(*                                                                         *)
(* A request carries the number of its call (trans_id); so does the        *)
(* content of ioctbuf and the answer.  0 stands for "none".                *)
(***************************************************************************)
EXTENDS SeqSum

CONSTANTS
  MaxPost,      (* max_ioctlrespbufpost                                    *)
  PoolMax,      (* host buffers ioctl_resp_pool can hold                   *)
  CtrlSlots,    (* messages the control submit ring can hold               *)
  ItemCnt,      (* messages in a block                                     *)
  DescCnt,      (* blocks the DMA engine's descriptors allow in flight     *)
  CplSlots,     (* messages the control completion ring can hold           *)
  MaxCalls,     (* bound: calls in a behaviour                             *)
  MaxNoMem,     (* bound: failed allocations of a response buffer          *)
  MaxOther,     (* bound: other control completions in a behaviour         *)
  MaxDmas       (* bound: DMAs of the data path under way at once          *)

ASSUME IoctlAssumption ==
  /\ MaxPost \in Nat \ {0} /\ PoolMax \in Nat /\ PoolMax > MaxPost
  /\ CtrlSlots \in Nat /\ CtrlSlots > MaxPost
  /\ ItemCnt \in Nat \ {0} /\ DescCnt \in Nat \ {0}
  /\ CplSlots \in Nat /\ CplSlots >= 2
  /\ {MaxCalls, MaxNoMem, MaxOther, MaxDmas} \subseteq Nat

VARIABLES
  hpc,          (* host caller: "idle", "post", "wait", "timed"            *)
  trans_id,     (* host: calls made, the last request's number             *)
  ioctbuf,      (* host: whose arguments the shared buffer holds           *)
  cur_posted,   (* host: cur_ioctlresp_bufs_posted                         *)
  held,         (* host: response buffers allocated and not freed          *)
  rxlen,        (* host: the answer in bus->ioct_resp, 0 when rxlen is 0   *)
  nomem,        (* history: failed allocations                             *)
  returned,     (* history: what each call returned, 0 for a failure       *)
  h2d,          (* control submit ring: messages not yet fetched           *)
  dmaq,         (* dongle: blocks fetched or being fetched, not handled    *)
  pool,         (* dongle: buffers in ioctl_resp_pool                      *)
  served,       (* dongle: ioctl_pktptr, ioctl_lock and ioctl_pend         *)
  executed,     (* history: <<request, arguments>> of the commands run     *)
  dmas,         (* dongle: DMAs of the data path under way                 *)
  cpl,          (* control completion ring: messages whose slots are taken *)
  landed,       (* of these, messages whose DMA is done                    *)
  seen,         (* of these, messages the host has processed               *)
  others        (* history: other control completions sent                 *)

hostVars   == <<hpc, trans_id, ioctbuf, cur_posted, held, nomem, returned>>
dongleVars == <<dmaq, pool, served, executed, dmas>>
cplVars    == <<cpl, landed, others>>
vars       == <<hostVars, rxlen, h2d, dongleVars, cplVars, seen>>

Buf == [kind |-> "buf", trans |-> 0, args |-> FALSE]
Req(t, args) == [kind |-> "req", trans |-> t, args |-> args]
Note == [kind |-> "note", trans |-> 0]
Answer(t) == [kind |-> "answer", trans |-> t]

NotServed == [phase |-> "none", trans |-> 0, args |-> 0]

(* pciedev->ioctl_lock: set and cleared together with ioctl_pktptr.        *)
ioctl_lock == served.phase # "none"

(* dhd_prot_init and the attach of the rings: the first buffers are posted.*)
Init ==
  /\ hpc = "idle" /\ trans_id = 0 /\ ioctbuf = 0 /\ rxlen = 0
  /\ cur_posted = MaxPost /\ held = MaxPost
  /\ nomem = 0 /\ returned = <<>>
  /\ h2d = [i \in 1..MaxPost |-> Buf]
  /\ dmaq = <<>> /\ pool = 0 /\ served = NotServed /\ executed = <<>>
  /\ dmas = 0
  /\ cpl = <<>> /\ landed = 0 /\ seen = 0 /\ others = 0

-----------------------------------------------------------------------------
(* The host's caller; the ioctl mutex admits one at a time.                *)

(* Slots are free again when the block they were in has been handled.      *)
CtrlSpace ==
  CtrlSlots - Len(h2d) - SumOf([k \in 1..Len(dmaq) |-> Len(dmaq[k])])

(* Slip: a buffer that the answer will use up is not counted.              *)
Expected_NoDecrement == cur_posted

(* dhdmsgbuf_cmplt: one posted buffer is going to be used.                 *)
Expected == IF cur_posted > 0 THEN cur_posted - 1 ELSE 0

(* dhd_fillup_ioct_reqst_ptrbased.  Without a free slot nothing is sent,   *)
(* but the caller ignores the failure and waits all the same.              *)
SendReq ==
  /\ hpc = "idle" /\ trans_id < MaxCalls
  /\ trans_id' = trans_id + 1
  /\ IF CtrlSpace = 0
     THEN UNCHANGED <<h2d, ioctbuf>>
     ELSE /\ \E args \in BOOLEAN : h2d' = Append(h2d, Req(trans_id', args))
          /\ ioctbuf' = trans_id'
  /\ cur_posted' = Expected
  /\ hpc' = "post"
  /\ UNCHANGED <<held, rxlen, nomem, returned, dongleVars, cplVars, seen>>

(* One round of dhd_msgbuf_rxbuf_post_ctrlpath.                            *)
PostBuf ==
  /\ hpc = "post" /\ cur_posted < MaxPost /\ CtrlSpace > 0
  /\ h2d' = Append(h2d, Buf)
  /\ cur_posted' = cur_posted + 1
  /\ held' = held + 1
  /\ UNCHANGED <<hpc, trans_id, ioctbuf, rxlen, nomem, returned, dongleVars,
                 cplVars, seen>>

(* Enough are out, or no slot is free, or there is no memory for one more. *)
PostDone ==
  /\ hpc = "post"
  /\ \/ (cur_posted = MaxPost \/ CtrlSpace = 0) /\ UNCHANGED nomem
     \/ cur_posted < MaxPost /\ nomem < MaxNoMem /\ nomem' = nomem + 1
  /\ hpc' = "wait"
  /\ UNCHANGED <<trans_id, ioctbuf, cur_posted, held, rxlen, returned, h2d,
                 dongleVars, cplVars, seen>>

(* Slips: the buffer is not freed; rxlen is left set.                      *)
TakeAnswer_KeepsBuf == rxlen' = 0 /\ UNCHANGED held
TakeAnswer_KeepsRxlen == held' = held - 1 /\ UNCHANGED rxlen

(* dhd_bus_rxctl empties bus->ioct_resp, dhdmsgbuf_cmplt copies the        *)
(* response out of the buffer and frees it.                                *)
TakeAnswer == rxlen' = 0 /\ held' = held - 1

(* The wait ends with an answer, whichever request it belongs to.          *)
Answered ==
  /\ hpc = "wait" /\ rxlen # 0
  /\ returned' = Append(returned, rxlen)
  /\ TakeAnswer
  /\ hpc' = "idle"
  /\ UNCHANGED <<trans_id, ioctbuf, cur_posted, nomem, h2d, dongleVars,
                 cplVars, seen>>

(* dhd_os_ioctl_resp_wait: wait_event_timeout gives up; the perimeter lock *)
(* is not yet held again.                                                  *)
Expire ==
  /\ hpc = "wait" /\ rxlen = 0
  /\ hpc' = "timed"
  /\ UNCHANGED <<trans_id, ioctbuf, cur_posted, held, rxlen, nomem, returned,
                 h2d, dongleVars, cplVars, seen>>

(* dhd_bus_rxctl after a time-out clears rxlen, with an answer in it or    *)
(* not, and the call fails.                                                *)
Fail ==
  /\ hpc = "timed"
  /\ rxlen' = 0
  /\ returned' = Append(returned, 0)
  /\ hpc' = "idle"
  /\ UNCHANGED <<trans_id, ioctbuf, cur_posted, held, nomem, h2d, dongleVars,
                 cplVars, seen>>

-----------------------------------------------------------------------------
(* The host's reader of the control completion ring.                       *)

(* Status and acknowledgement messages are only logged; an answer goes     *)
(* into bus->ioct_resp whatever its trans_id and whatever is there.        *)
ReadCpl ==
  /\ seen < landed
  /\ seen' = seen + 1
  /\ rxlen' = IF cpl[seen + 1].kind = "answer" THEN cpl[seen + 1].trans
              ELSE rxlen
  /\ UNCHANGED <<hostVars, h2d, dongleVars, cplVars>>

(* prot_upd_read_idx gives the slots back after a block of messages.       *)
UpdReadIdx ==
  /\ seen > 0
  /\ cpl' = SubSeq(cpl, seen + 1, Len(cpl))
  /\ landed' = landed - seen /\ seen' = 0
  /\ UNCHANGED <<hostVars, rxlen, h2d, dongleVars, others>>

-----------------------------------------------------------------------------
(* The dongle.                                                             *)

(* pciedev_read_host_buffer: while no ioctl is served, the next block.     *)
Scan ==
  /\ ~ioctl_lock /\ Len(dmaq) < DescCnt
  /\ \E k \in 1..ItemCnt :
       /\ k <= Len(h2d)
       /\ dmaq' = Append(dmaq, SubSeq(h2d, 1, k))
       /\ h2d' = SubSeq(h2d, k + 1, Len(h2d))
  /\ UNCHANGED <<hostVars, rxlen, pool, served, executed, dmas, cplVars, seen>>

(* pciedev_process_ioctl_pend: a response buffer, and slots for the        *)
(* acknowledgement and the answer.                                         *)
CanServe(srv, bufs, out) ==
  srv.phase = "pend" /\ bufs > 0 /\ CplSlots - Len(out) >= 2

(* What every handler ends with, pciedev_queue_d2h_req_send first: serve   *)
(* the pending ioctl if that is possible now.  The dispatch of the command *)
(* is synchronous: pciedev_send_ioctl_completion takes a buffer and clears *)
(* ioctl_pend.                                                             *)
Retry(srv, bufs, out) ==
  IF CanServe(srv, bufs, out)
  THEN /\ cpl' = out \o <<Note, Answer(srv.trans)>>
       /\ pool' = bufs - 1
       /\ served' = [srv EXCEPT !.phase = "reply"]
       /\ executed' = Append(executed, <<srv.trans, srv.args>>)
  ELSE cpl' = out /\ pool' = bufs /\ served' = srv /\ UNCHANGED executed

(* Slips: the pool is not looked at; one buffer too many fits.             *)
Accepts_NoPoolCheck(srv, bufs) == srv.phase = "none"
PoolFull_Late(bufs) == bufs > PoolMax

(* pciedev_process_ioctlptr_rqst takes a request when none is served and   *)
(* a buffer for its answer is there.                                       *)
Accepts(srv, bufs) == srv.phase = "none" /\ bufs > 0

PoolFull(bufs) == bufs = PoolMax

Begin(m) == [phase |-> IF m.args THEN "fetch" ELSE "pend",
             trans |-> m.trans, args |-> IF m.args THEN 0 ELSE m.trans]

(* A status message; without a slot for it, it is lost.                    *)
Tell(out) == IF Len(out) < CplSlots THEN Append(out, Note) ELSE out

(* One message of the switch in pciedev_handle_h2d_msg_ctrlsubmit: s holds *)
(* what it changes.  A request while one is served is dropped silently.    *)
HandleMsg(m, s) ==
  CASE m.kind = "buf" /\ PoolFull(s.bufs) -> [s EXCEPT !.out = Tell(@)]
    [] m.kind = "buf" /\ ~PoolFull(s.bufs) -> [s EXCEPT !.bufs = @ + 1]
    [] m.kind = "req" /\ Accepts(s.srv, s.bufs) -> [s EXCEPT !.srv = Begin(m)]
    [] m.kind = "req" /\ ~Accepts(s.srv, s.bufs) /\ s.srv.phase = "none" ->
         [s EXCEPT !.out = Tell(@)]
    [] OTHER -> s

(* A block that begins with a request while one is served is dropped as a  *)
(* whole, the buffers in it too.                                           *)
HandleBlock(block) ==
  LET s0 == [srv |-> served, bufs |-> pool, out |-> cpl]
  IN  IF ioctl_lock /\ block[1].kind = "req" THEN s0
      ELSE LET after[k \in 0..Len(block)] ==
                 IF k = 0 THEN s0 ELSE HandleMsg(block[k], after[k-1])
           IN  after[Len(block)]

(* A block's DMA is done: pciedev_handle_h2d_dma.                          *)
HandleCtrl ==
  /\ dmaq # <<>>
  /\ dmaq' = Tail(dmaq)
  /\ LET s == HandleBlock(Head(dmaq)) IN Retry(s.srv, s.bufs, s.out)
  /\ UNCHANGED <<hostVars, rxlen, h2d, dmas, landed, others, seen>>

(* Slip: the request is run without the arguments of its fetch.            *)
Fetched_Early == [served EXCEPT !.phase = "pend"]

(* pciedev_ioctpyld_fetch_cb: the arguments are what ioctbuf holds now.    *)
Fetched == [served EXCEPT !.phase = "pend", !.args = ioctbuf]

FetchDone ==
  /\ served.phase = "fetch"
  /\ Retry(Fetched, pool, cpl)
  /\ UNCHANGED <<hostVars, rxlen, h2d, dmaq, dmas, landed, others, seen>>

(* pciedev_process_ioctl_done, called for the DMA of an answer.            *)
Released(m) == IF m.kind = "answer" THEN NotServed ELSE served

(* The DMA of a control completion is done: pciedev_handle_d2h_dma.        *)
D2HDone ==
  /\ landed < Len(cpl)
  /\ landed' = landed + 1
  /\ Retry(Released(cpl[landed + 1]), pool, cpl)
  /\ UNCHANGED <<hostVars, rxlen, h2d, dmaq, dmas, others, seen>>

(* A flow ring response or an event goes into the completion ring.         *)
SendOther ==
  /\ others < MaxOther /\ Len(cpl) < CplSlots
  /\ others' = others + 1
  /\ cpl' = Append(cpl, Note)
  /\ UNCHANGED <<hostVars, rxlen, h2d, dongleVars, landed, seen>>

(* The data path starts a DMA.  While an ioctl is pending it sends nothing *)
(* and scans no ring: only what was begun goes on, as the fetches of a     *)
(* scheduler's timer that is on, or of a station's poll.                   *)
StartDma ==
  /\ dmas < MaxDmas
  /\ dmas' = dmas + 1
  /\ UNCHANGED <<hostVars, rxlen, h2d, dmaq, pool, served, executed, cplVars,
                 seen>>

(* Slip: its end does not look at a pending ioctl.                         *)
OtherDma_NoRetry ==
  /\ dmas > 0
  /\ dmas' = dmas - 1
  /\ UNCHANGED <<hostVars, rxlen, h2d, dmaq, pool, served, executed, cplVars,
                 seen>>

(* A DMA of the data path is done: both handlers retry a pending ioctl.    *)
OtherDma ==
  /\ dmas > 0
  /\ dmas' = dmas - 1
  /\ Retry(served, pool, cpl)
  /\ UNCHANGED <<hostVars, rxlen, h2d, dmaq, landed, others, seen>>

Next == \/ SendReq \/ PostBuf \/ PostDone \/ Answered \/ Expire \/ Fail
        \/ ReadCpl \/ UpdReadIdx
        \/ Scan \/ HandleCtrl \/ FetchDone \/ D2HDone \/ SendOther
        \/ StartDma \/ OtherDma

(* The caller and the reader of the host keep running; DMAs end; a scan    *)
(* follows every doorbell, DMA and ioctl (checked in H2DRing).  Nothing    *)
(* makes a call, a time-out, another completion or another DMA happen.     *)
Fairness ==
  /\ WF_vars(PostBuf \/ PostDone) /\ WF_vars(Answered) /\ WF_vars(Fail)
  /\ WF_vars(ReadCpl) /\ WF_vars(UpdReadIdx)
  /\ WF_vars(Scan) /\ WF_vars(HandleCtrl) /\ WF_vars(FetchDone)
  /\ WF_vars(D2HDone) /\ WF_vars(OtherDma)

Spec == Init /\ [][Next]_vars

FairSpec == Spec /\ Fairness

-----------------------------------------------------------------------------
(* Properties.                                                             *)

CtrlMsg == {Buf} \union [kind : {"req"}, trans : 1..MaxCalls, args : BOOLEAN]
CplMsg == {Note} \union [kind : {"answer"}, trans : 1..MaxCalls]

(* Every variable keeps its range: the pool never holds more buffers than  *)
(* it has entries and neither ring more messages than it has slots.        *)
TypeOK ==
  /\ hpc \in {"idle", "post", "wait", "timed"}
  /\ trans_id \in 0..MaxCalls /\ ioctbuf \in 0..MaxCalls
  /\ cur_posted \in 0..MaxPost /\ held \in Nat
  /\ rxlen \in 0..MaxCalls /\ nomem \in 0..MaxNoMem
  /\ returned \in Seq(0..MaxCalls) /\ Len(returned) <= trans_id
  /\ h2d \in Seq(CtrlMsg) /\ dmaq \in Seq(Seq(CtrlMsg)) /\ CtrlSpace >= 0
  /\ pool \in 0..PoolMax
  /\ served \in [phase : {"none", "fetch", "pend", "reply"},
                 trans : 0..MaxCalls, args : 0..MaxCalls]
  /\ executed \in Seq((1..MaxCalls) \X (0..MaxCalls)) /\ dmas \in 0..MaxDmas
  /\ cpl \in Seq(CplMsg) /\ Len(cpl) <= CplSlots
  /\ landed \in 0..Len(cpl) /\ seen \in 0..landed
  /\ others \in 0..MaxOther

Failures == CountOf(returned, {0})

(* A request is taken only when its answer is sure to find a response      *)
(* buffer: between the check in pciedev_process_ioctlptr_rqst and the use  *)
(* in pciedev_send_ioctl_completion nothing else empties the pool, or the  *)
(* lock would never be released.                                           *)
NoLockout == served.phase \in {"fetch", "pend"} => pool > 0

(* As long as no call has failed, every call returned the answer to its    *)
(* own request, and every command ran on the arguments of its own request, *)
(* although neither side compares trans_id and ioctbuf is shared.          *)
OwnUntilFailure ==
  Failures = 0 /\ hpc # "timed" =>
    /\ \A i \in DOMAIN returned : returned[i] = i
    /\ \A i \in DOMAIN executed : executed[i] = <<i, i>>

(* Of the response buffers, the host's count of posted ones misses at most *)
(* one for each failed call, and the one the current call waits for: the   *)
(* surplus a time-out leaves in the dongle's pool is bounded.              *)
SurplusBounded ==
  held <= cur_posted + Failures + (IF hpc = "idle" THEN 0 ELSE 1)

IC == INSTANCE IoctlCalls WITH asked <- trans_id

(* Whatever is late or lost, calls are answered in order and no answer is  *)
(* returned twice.                                                         *)
ImplementsCalls == IC!Spec

(* What pciedev_process_ioctl_pend's callers are for: the resources a      *)
(* pending ioctl waits for come back, and its lock is released.            *)
EventuallyUnlocked == ioctl_lock ~> ~ioctl_lock

(* An ioctl is pending and no DMA is left whose end would try it again.    *)
Starved ==
  served.phase = "pend" /\ dmaq = <<>> /\ landed = Len(cpl) /\ dmas = 0

(* The lock is kept for good in one way only: pending, with every DMA of   *)
(* the dongle done for good.  One that ends later finds the resources.     *)
UnlockedOrStarved == <>[]ioctl_lock => <>[]Starved

(* A call gets an answer without the help of its time-out, unless its      *)
(* request starves: as long as none has failed and the host did not run    *)
(* out of memory for all of its response buffers.                          *)
AnswerArrives ==
  <>[](hpc = "wait" /\ Failures = 0 /\ nomem < MaxPost) => <>[]Starved

(* What trans_id is for, by the comments in bcmmsgbuf.h: a call returns    *)
(* the answer to its own request or fails.                                 *)
AnswersOwn == \A i \in DOMAIN returned : returned[i] \in {0, i}
=============================================================================
