------------------------------- MODULE D2HRing -------------------------------
(***************************************************************************)
(* The dongle-to-host completion rings: tx statuses and rx completions, in *)
(* the build with a sync marker (a sequence number modulo 253) in every    *)
(* message and indices in dongle memory (TCM).                             *)
(*                                                                         *)
(*   The firmware queues requests (freed tx packets, received frames); its *)
(*   run-to-completion thread turns them into completions collected in a   *)
(*   local buffer per ring, and sends a buffer as one DMA when it is full, *)
(*   when the ring has no more room, or when a burst of work ends          *)
(*   (pciedev_data.c).  When the DMA engine reports the DMA done the       *)
(*   write index moves and the host is interrupted.                        *)
(*                                                                         *)
(*   What a DMA writes may reach host memory after the write index: the    *)
(*   host spins on the marker of each message before it reads it, and      *)
(*   gives a message up after 1024 tries (dhd_msgbuf.c).                   *)
(*                                                                         *)
(* Completions of a ring are numbered in the order of their requests.  The *)
(* DMA engine's descriptors are counted in entries of its queue.           *)
(***************************************************************************)
EXTENDS RingIndex, SeqSum

CONSTANTS
  MaxItem,     (* slots of a ring: RING_MAX_ITEM                           *)
  ItemCnt,     (* completions a local buffer holds: pool->item_cnt         *)
  BufCnt,      (* local buffers of a ring: pool->buf_cnt                   *)
  DescCnt,     (* DMAs the engine's descriptors allow in flight            *)
  Modulo,      (* D2H_EPOCH_MODULO                                         *)
  MaxChain,    (* frames of the longest rx chain                           *)
  Loads        (* bounds, in cases: requests per ring, messages given up   *)

Rings == {"tx", "rx"}

ASSUME D2HAssumption ==
  /\ MaxItem \in Nat /\ MaxItem >= 2
  /\ {ItemCnt, BufCnt, DescCnt, Modulo, MaxChain} \subseteq Nat \ {0}
  /\ Loads \subseteq [tx : Nat, rx : Nat, timeouts : Nat]

VARIABLES
  d2h_req_q,   (* dongle: requests <<ring, id, flag>> not yet handled      *)
  chain,       (* dongle: rx completions whose chain is not yet complete   *)
  rxcpl_list,  (* dongle: rx completions waiting for a local buffer        *)
  out,         (* dongle: ring states, DMA queue and writes under way      *)
  dpc,         (* dongle thread: "idle" or the part of the bus code it runs*)
  back,        (* dongle: where the draining of rxcpl_list returns to      *)
  chained,     (* dongle: called by pciedev_flush_chained_pkts             *)
  tcm_w,       (* TCM: write indices, written by the dongle                *)
  tcm_r,       (* TCM: read indices, written by the host                   *)
  mem,         (* host memory: id and marker in each slot                  *)
  r_offset,    (* host: ringstate->r_offset                                *)
  block,       (* host: next slot and number of messages left to process   *)
  seqnum,      (* host: ring->seqnum, the marker it expects next           *)
  got,         (* history: messages taken, 0 for one without a type        *)
  load,        (* bound: the case chosen                                   *)
  asked,       (* history: requests made                                   *)
  sent,        (* history: messages the write index has passed             *)
  timeouts     (* history: messages the host gave up                       *)

reqVars  == <<d2h_req_q, chain, rxcpl_list, asked, load>>
pcVars   == <<dpc, back, chained>>
hostVars == <<tcm_r, r_offset, block, seqnum, got, timeouts>>
vars     == <<reqVars, out, pcVars, tcm_w, sent, mem, hostVars>>

Zero == [id |-> 0, mark |-> 0]

(* Slip: the first marker is the one of cleared memory.                    *)
D2H_EPOCH_INIT_VAL_Zero == Modulo

D2H_EPOCH_INIT_VAL == Modulo + 1

Init ==
  /\ d2h_req_q = <<>> /\ chain = <<>> /\ rxcpl_list = <<>>
  /\ out = [ring |-> [r \in Rings |->
                        [in_use |-> FALSE, items |-> <<>>, availcnt |-> BufCnt,
                         pend |-> FALSE, epoch |-> D2H_EPOCH_INIT_VAL,
                         wr_pending |-> 0]],
            q |-> <<>>, flying |-> {}]
  /\ dpc = "idle" /\ back = "start" /\ chained = FALSE
  /\ tcm_w = [r \in Rings |-> 0] /\ tcm_r = [r \in Rings |-> 0]
  /\ mem = [r \in Rings |-> [i \in 0..MaxItem-1 |-> Zero]]
  /\ r_offset = [r \in Rings |-> 0]
  /\ block = [r \in Rings |-> [at |-> 0, left |-> 0]]
  /\ seqnum = [r \in Rings |-> D2H_EPOCH_INIT_VAL]
  /\ got = [r \in Rings |-> <<>>]
  /\ load \in Loads
  /\ asked = [r \in Rings |-> 0] /\ sent = [r \in Rings |-> 0]
  /\ timeouts = 0

-----------------------------------------------------------------------------
(* Operators on the dongle's output state o = [ring, q, flying].           *)

(* DMA queue entries the descriptors still allow: one is what the code     *)
(* asks for a message (MIN_TXDESC_AVAIL, MIN_RXDESC_AVAIL), two for a      *)
(* message and a payload.                                                  *)
Descs(o) == DescCnt - Len(o.q)

Space(o, r) == CHECK_WRITE_SPACE(tcm_r[r], o.ring[r].wr_pending, MaxItem)

(* pciedev_xmit_msgbuf_packet: ring space, then a DMA of the local buffer. *)
xmit_msgbuf_packet(o, r) ==
  LET s == o.ring[r]
      n == Len(s.items)
  IN  [ring   |-> [o.ring EXCEPT ![r] =
                    [in_use |-> FALSE, items |-> <<>>, availcnt |-> s.availcnt,
                     pend |-> FALSE, epoch |-> s.epoch,
                     wr_pending |-> ADVANCE(s.wr_pending, n, MaxItem)]],
       q      |-> Append(o.q, [ring |-> r, len |-> n]),
       flying |-> o.flying \cup
                    {[ring |-> r, slot |-> s.wr_pending + (i - 1),
                      msg |-> s.items[i]] : i \in 1..n}]

(* pciedev_xmit_txstatus, pciedev_xmit_rxcomplete.                         *)
xmit(o, r) ==
  LET n == Len(o.ring[r].items)
  IN  IF n = 0 THEN o
      ELSE IF Descs(o) < 1 \/ Space(o, r) < n
           THEN [o EXCEPT !.ring[r].pend = TRUE]
           ELSE xmit_msgbuf_packet(o, r)

NoBuffer(o, r) == ~o.ring[r].in_use /\ o.ring[r].availcnt = 0

(* Slip: every completion takes a local buffer.                            *)
Insert_TakesEach(o, r, id) ==
  [o EXCEPT !.ring[r].in_use = TRUE,
            !.ring[r].availcnt = IF @ = 0 THEN 0 ELSE @ - 1,
            !.ring[r].items = Append(@, [id |-> id,
                                    mark |-> o.ring[r].epoch % Modulo]),
            !.ring[r].epoch = @ + 1]

(* The next completion, with its marker, put into the local buffer.        *)
Insert(o, r, id) ==
  LET s == o.ring[r] IN
  [o EXCEPT !.ring[r] =
    [in_use |-> TRUE, pend |-> s.pend, wr_pending |-> s.wr_pending,
     availcnt |-> IF s.in_use THEN s.availcnt ELSE s.availcnt - 1,
     items |-> Append(s.items, [id |-> id, mark |-> s.epoch % Modulo]),
     epoch |-> s.epoch + 1]]

(* The buffer is full, or holds all the ring has room for.                 *)
BatchFull(o, r) == Len(o.ring[r].items) >= MIN(ItemCnt, Space(o, r))

(* pciedev_queue_txstatus and a round of pciedev_queue_rxcomplete_msgring. *)
Queue(o, r, id) ==
  LET i == Insert(o, r, id) IN
  IF NoBuffer(o, r) THEN o ELSE IF BatchFull(i, r) THEN xmit(i, r) ELSE i

-----------------------------------------------------------------------------
(* wl, in its dpc, between two uses of the dongle thread by the bus.       *)

(* pciedev_lbuf_callback: a tx packet is freed; its metadata may go to the *)
(* host as a payload of its own.                                           *)
FreeTxPacket ==
  /\ dpc = "idle" /\ asked["tx"] < load.tx
  /\ \E metadata \in BOOLEAN :
       d2h_req_q' = Append(d2h_req_q, <<"tx", asked["tx"] + 1, metadata>>)
  /\ asked' = [asked EXCEPT !["tx"] = @ + 1]
  /\ UNCHANGED <<load, chain, rxcpl_list, out, pcVars, tcm_w, sent, mem, hostVars>>

(* pciedev_create_d2h_messages: the frames of a chain are sent up, the     *)
(* last one flagged to complete the chain (PKTNEEDRXCPL).                  *)
ReceiveChain ==
  /\ dpc = "idle"
  /\ \E n \in 1..MaxChain :
       /\ asked["rx"] + n <= load.rx
       /\ d2h_req_q' = d2h_req_q \o
                         [i \in 1..n |-> <<"rx", asked["rx"] + i, i = n>>]
       /\ asked' = [asked EXCEPT !["rx"] = @ + n]
  /\ UNCHANGED <<load, chain, rxcpl_list, out, pcVars, tcm_w, sent, mem, hostVars>>

-----------------------------------------------------------------------------
(* The bus.                                                                *)

RetryPending(o, r) ==
  IF o.ring[r].pend THEN xmit(o, r) ELSE o

(* pciedev_queue_d2h_req_send up to its draining of rxcpl_list.            *)
StartSend(o, by_wl) ==
  /\ out' = RetryPending(RetryPending(o, "rx"), "tx")
  /\ dpc' = "list" /\ back' = "start" /\ chained' = by_wl

(* pciedev_flush_chained_pkts, at the end of wl's dpc.  With nothing       *)
(* waiting it would have no effect.                                        *)
FlushChainedPkts ==
  /\ dpc = "idle"
  /\ \/ d2h_req_q # <<>> \/ rxcpl_list # <<>>
     \/ \E r \in Rings : out.ring[r].items # <<>>
  /\ StartSend(out, TRUE)
  /\ UNCHANGED <<reqVars, tcm_w, sent, mem, hostVars>>

(* pciedev_handle_d2h_dma: the oldest DMA is done.  For a message the      *)
(* write index moves and the local buffer is free again.                   *)
HandleD2HDma ==
  LET e == out.q[1]
      o == [out EXCEPT !.q = Tail(@)]
  IN
  /\ dpc = "idle" /\ out.q # <<>>
  /\ IF e.ring \in Rings
     THEN /\ tcm_w' = [tcm_w EXCEPT ![e.ring] = ADVANCE(@, e.len, MaxItem)]
          /\ sent' = [sent EXCEPT ![e.ring] = @ + e.len]
          /\ StartSend([o EXCEPT !.ring[e.ring].availcnt = @ + 1], FALSE)
     ELSE /\ StartSend(o, FALSE)
          /\ UNCHANGED <<tcm_w, sent>>
  /\ UNCHANGED <<reqVars, mem, hostVars>>

Return == dpc' = IF chained THEN "flush" ELSE "idle"

(* The loop over the request queue goes on unless a send has failed.       *)
Continue(o) == dpc' = IF \E r \in Rings : o.ring[r].pend THEN "end" ELSE "loop"

(* One round of pciedev_queue_rxcomplete_msgring ...                       *)
DrainList ==
  /\ dpc = "list"
  /\ rxcpl_list # <<>> /\ ~out.ring["rx"].pend /\ ~NoBuffer(out, "rx")
  /\ out' = Queue(out, "rx", rxcpl_list[1])
  /\ rxcpl_list' = Tail(rxcpl_list)
  /\ UNCHANGED <<load, d2h_req_q, chain, asked, pcVars, tcm_w, sent, mem, hostVars>>

(* ... and its return to the start of pciedev_queue_d2h_req_send, which    *)
(* ends there when no request is queued, or to its loop.                   *)
EndDrain ==
  /\ dpc = "list"
  /\ rxcpl_list = <<>> \/ out.ring["rx"].pend \/ NoBuffer(out, "rx")
  /\ IF back = "loop" THEN Continue(out)
     ELSE IF d2h_req_q = <<>> THEN Return
     ELSE dpc' = "loop"
  /\ UNCHANGED <<reqVars, out, back, chained, tcm_w, sent, mem, hostVars>>

(* Slip: no check for a free local buffer.                                 *)
Handled_NoBufCheck ==
  /\ d2h_req_q # <<>>
  /\ Descs(out) >= 2 /\ Space(out, d2h_req_q[1][1]) > 0

(* pciedev_check_process_d2h_message: descriptors for a payload and a      *)
(* message, a local buffer and room in the ring.                           *)
Handled ==
  /\ d2h_req_q # <<>>
  /\ Descs(out) >= 2 /\ Space(out, d2h_req_q[1][1]) > 0
  /\ out.ring[d2h_req_q[1][1]].availcnt > 0

Payload(o) == [o EXCEPT !.q = Append(@, [ring |-> "payload", len |-> 0])]

(* pciedev_process_d2h_txmetadata.                                         *)
HandleTxMetadata ==
  LET m == d2h_req_q[1] IN
  /\ dpc = "loop" /\ Handled /\ m[1] = "tx"
  /\ d2h_req_q' = Tail(d2h_req_q)
  /\ out' = Queue(IF m[3] THEN Payload(out) ELSE out, "tx", m[2])
  /\ Continue(out')
  /\ UNCHANGED <<load, chain, rxcpl_list, asked, back, chained, tcm_w, sent, mem,
                 hostVars>>

(* pciedev_process_d2h_rxpyld and pciedev_queue_rxcomplete_local: the last *)
(* frame of a chain puts the completions of the chain on the list.         *)
HandleRxPayload ==
  LET m == d2h_req_q[1]
      c == Append(chain, m[2])
  IN
  /\ dpc = "loop" /\ Handled /\ m[1] = "rx"
  /\ d2h_req_q' = Tail(d2h_req_q)
  /\ out' = Payload(out)
  /\ IF m[3] THEN /\ rxcpl_list' = rxcpl_list \o c /\ chain' = <<>>
                  /\ dpc' = "list" /\ back' = "loop"
             ELSE /\ chain' = c /\ Continue(out') /\ UNCHANGED <<rxcpl_list, back>>
  /\ UNCHANGED <<load, asked, chained, tcm_w, sent, mem, hostVars>>

(* The end of pciedev_queue_d2h_req_send: "Send rx complete for the chain  *)
(* of pkts".                                                               *)
EndSend ==
  /\ \/ dpc = "end"
     \/ dpc = "loop" /\ ~Handled
  /\ out' = xmit(out, "rx")
  /\ Return
  /\ UNCHANGED <<reqVars, back, chained, tcm_w, sent, mem, hostVars>>

(* The end of pciedev_flush_chained_pkts: "Send out tx completes".         *)
FlushTx ==
  /\ dpc = "flush"
  /\ out' = xmit(out, "tx")
  /\ dpc' = "idle"
  /\ UNCHANGED <<reqVars, back, chained, tcm_w, sent, mem, hostVars>>

(* A message reaches host memory; writes to one slot keep their order.     *)
Land ==
  \E f \in out.flying :
    /\ \A g \in out.flying :
         g.ring = f.ring /\ g.slot = f.slot => f.msg.id <= g.msg.id
    /\ mem' = [mem EXCEPT ![f.ring][f.slot] = f.msg]
    /\ out' = [out EXCEPT !.flying = @ \ {f}]
    /\ UNCHANGED <<reqVars, pcVars, tcm_w, sent, hostVars>>

-----------------------------------------------------------------------------
(* The host's receive loop, ring by ring.                                  *)

(* prot_get_src_addr: the read index moves over the whole block at once.   *)
GetBlock(r) ==
  LET avail == READ_AVAIL_SPACE(tcm_w[r], r_offset[r], MaxItem) IN
  /\ block[r].left = 0 /\ tcm_r[r] = r_offset[r] /\ avail # 0
  /\ block' = [block EXCEPT ![r] = [at |-> r_offset[r], left |-> avail]]
  /\ r_offset' = [r_offset EXCEPT ![r] = ADVANCE(@, avail, MaxItem)]
  /\ UNCHANGED <<reqVars, out, pcVars, tcm_w, sent, mem, tcm_r, seqnum, got,
                 timeouts>>

Synced(r) == mem[r][block[r].at].mark = seqnum[r] % Modulo

(* A message of the given type handed to its handler, the next one is due. *)
Process(r, id) ==
  /\ got' = [got EXCEPT ![r] = Append(@, id)]
  /\ seqnum' = [seqnum EXCEPT ![r] = @ + 1]
  /\ block' = [block EXCEPT ![r] = [at |-> @.at + 1, left |-> @.left - 1]]
  /\ UNCHANGED <<reqVars, out, pcVars, tcm_w, sent, mem, tcm_r, r_offset>>

(* dhd_prot_d2h_sync_seqnum finds the marker it waits for.                 *)
Take(r) ==
  /\ block[r].left # 0 /\ Synced(r)
  /\ Process(r, mem[r][block[r].at].id)
  /\ UNCHANGED timeouts

(* Slip: the sequence number is left alone when a message is given up.     *)
GiveUp_KeepsSeq(r) ==
  /\ block[r].left # 0 /\ ~Synced(r) /\ timeouts < load.timeouts
  /\ timeouts' = timeouts + 1
  /\ got' = [got EXCEPT ![r] = Append(@, 0)]
  /\ block' = [block EXCEPT ![r] = [at |-> @.at + 1, left |-> @.left - 1]]
  /\ UNCHANGED <<reqVars, out, pcVars, tcm_w, sent, mem, tcm_r, r_offset,
                 seqnum>>

(* It has tried 1024 times: the message is skipped, and with it its packet.*)
GiveUp(r) ==
  /\ block[r].left # 0 /\ ~Synced(r) /\ timeouts < load.timeouts
  /\ timeouts' = timeouts + 1
  /\ Process(r, 0)

(* prot_upd_read_idx.                                                      *)
UpdReadIdx(r) ==
  /\ block[r].left = 0 /\ tcm_r[r] # r_offset[r]
  /\ tcm_r' = [tcm_r EXCEPT ![r] = r_offset[r]]
  /\ UNCHANGED <<reqVars, out, pcVars, tcm_w, sent, mem, r_offset, block,
                 seqnum, got, timeouts>>

-----------------------------------------------------------------------------
BusStep == \/ DrainList \/ EndDrain \/ HandleTxMetadata \/ HandleRxPayload
           \/ EndSend \/ FlushTx

HostStep(r) == GetBlock(r) \/ Take(r) \/ GiveUp(r) \/ UpdReadIdx(r)

Next == \/ FreeTxPacket \/ ReceiveChain
        \/ FlushChainedPkts \/ HandleD2HDma \/ BusStep \/ Land
        \/ \E r \in Rings : HostStep(r)

Spec == Init /\ [][Next]_vars

(* Writes land, the DMA engine reports what it has done, wl's dpc runs     *)
(* again and again (every radio interrupt), the bus code finishes what it  *)
(* began, and the host's dpc serves each ring.  The host giving a message  *)
(* up is not assumed.                                                      *)
Fairness ==
  /\ WF_vars(BusStep) /\ WF_vars(Land)
  /\ SF_vars(HandleD2HDma) /\ SF_vars(FlushChainedPkts)
  /\ \A r \in Rings : WF_vars(GetBlock(r) \/ Take(r) \/ UpdReadIdx(r))

FairSpec == Spec /\ Fairness

-----------------------------------------------------------------------------
Id == UNION {0..l.tx + l.rx : l \in Loads}

Message == [id : Id, mark : 0..Modulo-1]

(* Every variable has its type.                                            *)
TypeOK ==
  /\ d2h_req_q \in Seq(Rings \X Id \X BOOLEAN)
  /\ chain \in Seq(Id) /\ rxcpl_list \in Seq(Id)
  /\ \A r \in Rings :
       /\ out.ring[r].in_use \in BOOLEAN /\ out.ring[r].pend \in BOOLEAN
       /\ out.ring[r].items \in Seq(Message) /\ out.ring[r].epoch \in Nat
       /\ out.ring[r].availcnt \in 0..BufCnt
       /\ out.ring[r].wr_pending \in 0..MaxItem-1
  /\ \A i \in 1..Len(out.q) : out.q[i].len \in 0..MaxItem-1
  /\ out.flying \subseteq [ring : Rings, slot : 0..MaxItem-1, msg : Message]
  /\ dpc \in {"idle", "list", "loop", "end", "flush"}
  /\ back \in {"start", "loop"} /\ chained \in BOOLEAN
  /\ tcm_w \in [Rings -> 0..MaxItem-1] /\ tcm_r \in [Rings -> 0..MaxItem-1]
  /\ mem \in [Rings -> [0..MaxItem-1 -> Message]]
  /\ r_offset \in [Rings -> 0..MaxItem-1]
  /\ block \in [Rings -> [at : 0..MaxItem, left : 0..MaxItem-1]]
  /\ seqnum \in [Rings -> Nat] /\ got \in [Rings -> Seq(Id)]
  /\ asked \in [Rings -> Id] /\ sent \in [Rings -> Id]
  /\ timeouts \in 0..load.timeouts /\ load \in Loads

(* Messages of a ring in DMAs the engine has not yet reported.             *)
InDma(r) ==
  SumOf([k \in 1..Len(out.q) |-> IF out.q[k].ring = r THEN out.q[k].len ELSE 0])

(* Every completion asked for is in exactly one place: its request, the    *)
(* rx chain or list, the local buffer, a DMA, or behind the write index.   *)
(* No status is lost for want of a local buffer, and none is sent twice.   *)
NothingLost ==
  \A r \in Rings :
    asked[r] = CountOf(d2h_req_q, {r} \X Id \X BOOLEAN)
               + (IF r = "rx" THEN Len(chain) + Len(rxcpl_list) ELSE 0)
               + Len(out.ring[r].items) + InDma(r) + sent[r]

(* A local buffer is free, being filled, or the source of one DMA.         *)
BuffersConserved ==
  \A r \in Rings :
    out.ring[r].availcnt + (IF out.ring[r].in_use THEN 1 ELSE 0)
      + CountOf(out.q, [ring : {r}, len : 0..MaxItem-1]) = BufCnt

(* What the host takes when it finds the marker it waits for.              *)
Found(r) == mem[r][block[r].at].id
Due(r) == Len(got[r]) + 1

(* The comment in dhd_prot_d2h_sync_seqnum, "dma upto last word done": a   *)
(* marker that agrees is that of the message due.                          *)
DmaDone ==
  \A r \in Rings : block[r].left # 0 /\ Synced(r) => Found(r) = Due(r)

(* What the marker does tell apart: never a message of another round, only *)
(* cleared memory, and that for a message whose own marker is 0 in a slot  *)
(* that no DMA has reached since the ring was set up.                      *)
MarkerTrusted ==
  \A r \in Rings : block[r].left # 0 /\ Synced(r) =>
    \/ Found(r) = Due(r)
    \/ /\ Found(r) = 0 /\ Due(r) % Modulo = 0
       /\ Due(r) <= (timeouts + 1) * MaxItem

(* Each ring is an in-order, exactly-once channel; a message given up, or  *)
(* taken out of cleared memory, counts as received: the loss of one never  *)
(* shifts or repeats the others.                                           *)
Taken(r) == [i \in 1..Len(got[r]) |-> IF got[r][i] = 0 THEN i ELSE got[r][i]]
TxChannel == INSTANCE MsgChannel WITH Capacity <- MaxItem - 1,
               sent <- sent["tx"], log <- Taken("tx")
RxChannel == INSTANCE MsgChannel WITH Capacity <- MaxItem - 1,
               sent <- sent["rx"], log <- Taken("rx")
ImplementsChannel == TxChannel!Spec /\ RxChannel!Spec

(* Every completion reaches the host: no batch, list or request is left    *)
(* behind when buffers, descriptors or ring slots run short for a while.   *)
(* Only rx completions put into a local buffer with no request queued, too *)
(* few to fill it, may be left there: pciedev_queue_d2h_req_send returns   *)
(* before it sends them, however often wl's dpc calls it.                  *)
EventuallyTaken ==
  /\ []<>(Len(got["tx"]) = asked["tx"])
  /\ []<>(LET left == asked["rx"] - Len(got["rx"])
          IN \/ left = 0
             \/ /\ d2h_req_q = <<>> /\ rxcpl_list = <<>>
                /\ left = Len(out.ring["rx"].items) /\ left < ItemCnt)
=============================================================================
