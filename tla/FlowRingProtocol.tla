--------------------------- MODULE FlowRingProtocol ---------------------------
(***************************************************************************)
(* The life of tx flow rings on both sides: the host looks a flow's ring   *)
(* up or creates it when it sends a packet (dhd_flowring.c, dhd_pcie.c),   *)
(* deletes the rings of an interface that lost its link, and uses their    *)
(* ids again; the dongle answers the requests (pciedev.c).                 *)
(*                                                                         *)
(* On the host each interface has a sender, the stack's transmit path, and *)
(* all share one DPC, which takes responses and events and pushes queued   *)
(* packets.  With the perimeter lock (dhd_linux.c) each runs its handler   *)
(* undisturbed; in builds without it they interleave ("threads" in Races). *)
(* A flow is one priority of a station interface, here the only one.       *)
(***************************************************************************)
EXTENDS RingIndex, Integers, Sequences, FiniteSets

CONSTANTS
  Flows,       (* the flows, each with its own interface                   *)
  Ids,         (* ids of flow rings                                        *)
  MaxItem,     (* slots of a flow ring                                     *)
  Races,       (* "threads": the host's threads interleave; "index": the   *)
               (* dongle may be ahead of the host's clearing of an index   *)
  MaxPkts,     (* bound: packets sent                                      *)
  MaxDown,     (* bound: times a link is lost                              *)
  MaxFail      (* bound: times the dongle cannot create a ring             *)

ASSUME ProtocolAssumption ==
  /\ MaxItem \in Nat /\ MaxItem >= 2
  /\ Races \subseteq {"threads", "index"}
  /\ {MaxPkts, MaxDown, MaxFail} \subseteq Nat

(* Neither a flow nor an id.                                               *)
None == "none"

ASSUME NoneAssumption == None \notin Flows \cup Ids

(* node[i].status (dhd_flowring.h).                                        *)
OPEN == 0
PENDING == 1
CLOSED == 2
DELETE_PENDING == 3

VARIABLES
  link,        (* host: if_flow_lkup[].status of each flow's interface     *)
  lookup,      (* host: the id each flow hashes to                         *)
  free,        (* host: ids the allocator has                              *)
  node,        (* host: flow_ring_table                                    *)
  list,        (* host: const_flowring, the rings the DPC walks            *)
  tx,          (* host: where each flow's sender is, and with which id     *)
  dpc,         (* host: where the DPC is                                   *)
  h2d, d2h,    (* control messages under way in each direction             *)
  tcm_w,       (* TCM: write index of each flow ring                       *)
  mem,         (* host memory of each ring: the flow of each slot's packet *)
  ring,        (* dongle: flow_ring_msgbuf, the read index with it         *)
  left         (* what is left of the bounds                               *)

table == <<link, lookup, free, node, list>>
chan  == <<h2d, d2h>>
slots == <<tcm_w, mem>>
vars  == <<table, tx, dpc, chan, slots, ring, left>>

Idx == 0..MaxItem-1
IdleTx == [pc |-> "idle", id |-> None]
IdleDpc == [pc |-> "idle", id |-> None, del |-> FALSE, todo |-> {}, flow |-> None]
Empty == [i \in Idx |-> None]

Init ==
  /\ link = [f \in Flows |-> FALSE]
  /\ lookup = [f \in Flows |-> None] /\ free = Ids
  /\ node = [i \in Ids |-> [active |-> FALSE, status |-> CLOSED, flow |-> None,
                            queue |-> <<>>, prot |-> FALSE]]
  /\ list = {}
  /\ tx = [f \in Flows |-> IdleTx] /\ dpc = IdleDpc
  /\ h2d = <<>> /\ d2h = <<>>
  /\ tcm_w = [i \in Ids |-> 0] /\ mem = [i \in Ids |-> Empty]
  /\ ring = [i \in Ids |-> [inited |-> FALSE, flow |-> None, r |-> 0,
                            deleting |-> FALSE]]
  /\ left = [pkts |-> MaxPkts, down |-> MaxDown, fail |-> MaxFail]

-----------------------------------------------------------------------------
(* The threads.  Whoever is within a handler holds the perimeter lock.     *)
Undisturbed(busy) == "threads" \in Races \/ ~busy

TxTurn(f) == Undisturbed(\/ dpc.pc # "idle"
                         \/ \E g \in Flows \ {f} : tx[g].pc # "idle")
DpcTurn == Undisturbed(\E f \in Flows : tx[f].pc # "idle")

Go(f, pc) == tx' = [tx EXCEPT ![f] = IF pc = "idle" THEN IdleTx
                                     ELSE [@ EXCEPT !.pc = pc]]

DpcGo(pc) == dpc' = IF pc = "idle" THEN IdleDpc ELSE [dpc EXCEPT !.pc = pc]

(* Slips: the modulo is forgotten; a queue is posted whole or not at all.  *)
ScheduleQueue_NoWrap(i) ==
  LET q   == node[i].queue
      k   == MIN(Len(q), WRITE_SPACE_AVAIL(ring[i].r, tcm_w[i], MaxItem))
  IN  /\ tcm_w' = [tcm_w EXCEPT ![i] = @ + k]
      /\ node' = [node EXCEPT ![i].queue = SubSeq(q, k + 1, Len(q))]
      /\ UNCHANGED mem

ScheduleQueue_Whole(i) ==
  LET q   == node[i].queue
      off(s) == NTXPACTIVE(tcm_w[i], s, MaxItem)
      fits == Len(q) <= WRITE_SPACE_AVAIL(ring[i].r, tcm_w[i], MaxItem)
      k   == IF fits THEN Len(q) ELSE 0
  IN  /\ mem' = [mem EXCEPT ![i] = [s \in Idx |->
                    IF off(s) < k THEN q[off(s) + 1] ELSE @[s]]]
      /\ tcm_w' = [tcm_w EXCEPT ![i] = (@ + k) % MaxItem]
      /\ node' = [node EXCEPT ![i].queue = SubSeq(q, k + 1, Len(q))]

(* dhd_bus_schedule_queue: post what is queued, as far as there is room.   *)
ScheduleQueue(i) ==
  LET q   == node[i].queue
      k   == MIN(Len(q), WRITE_SPACE_AVAIL(ring[i].r, tcm_w[i], MaxItem))
      off(s) == NTXPACTIVE(tcm_w[i], s, MaxItem)
  IN  /\ mem' = [mem EXCEPT ![i] = [s \in Idx |->
                    IF off(s) < k THEN q[off(s) + 1] ELSE @[s]]]
      /\ tcm_w' = [tcm_w EXCEPT ![i] = (@ + k) % MaxItem]
      /\ node' = [node EXCEPT ![i].queue = SubSeq(q, k + 1, Len(q))]

-----------------------------------------------------------------------------
(* The sender.  dhd_flowid_lookup: the flow's ring, or a new id when the   *)
(* interface is up and one is free; a ring in use is used as it is.        *)
Lookup(f) ==
  /\ tx[f].pc = "idle" /\ TxTurn(f)
  /\ left.pkts > 0
  /\ left' = [left EXCEPT !.pkts = @ - 1]
  /\ \E i \in IF lookup[f] # None THEN {lookup[f]} ELSE free :
       /\ lookup[f] = None => link[f]
       /\ lookup' = [lookup EXCEPT ![f] = i]
       /\ free' = free \ {i}
       /\ IF node[i].active
          THEN /\ tx' = [tx EXCEPT ![f] = [pc |-> "post", id |-> i]]
               /\ UNCHANGED node
          ELSE /\ tx' = [tx EXCEPT ![f] = [pc |-> "create", id |-> i]]
               /\ node' = [node EXCEPT ![i].flow = f]
  /\ UNCHANGED <<link, list, dpc, chan, slots, ring>>

(* dhd_prot_flow_ring_create: new memory, and the request is sent ...      *)
CreateSend(f) ==
  LET i == tx[f].id
  IN
  /\ tx[f].pc = "create" /\ TxTurn(f)
  /\ node' = [node EXCEPT ![i].prot = TRUE]
  /\ mem' = [mem EXCEPT ![i] = Empty]
  /\ h2d' = Append(h2d, [type |-> "create", id |-> i, flow |-> f])
  /\ Go(f, "clear")
  /\ UNCHANGED <<link, lookup, free, list, dpc, d2h, tcm_w, ring, left>>

(* Slip: the write index of the id's previous use stays.                   *)
CreateClear_Stale(f) ==
  /\ tx[f].pc = "clear" /\ TxTurn(f)
  /\ Go(f, "mark")
  /\ UNCHANGED <<table, dpc, chan, slots, ring, left>>

(* ... then the write index is cleared ...                                 *)
CreateClear(f) ==
  /\ tx[f].pc = "clear" /\ TxTurn(f)
  /\ tcm_w' = [tcm_w EXCEPT ![tx[f].id] = 0]
  /\ Go(f, "mark")
  /\ UNCHANGED <<table, dpc, chan, mem, ring, left>>

(* Slip: ... and dhd_bus_flow_ring_create_request forgets the status.      *)
CreateMark_NoStatus(f) ==
  LET i == tx[f].id
  IN
  /\ tx[f].pc = "mark" /\ TxTurn(f)
  /\ list' = list \cup {i}
  /\ Go(f, "activate")
  /\ UNCHANGED <<link, lookup, free, node, dpc, chan, slots, ring, left>>

(* ... and dhd_bus_flow_ring_create_request marks the ring ...             *)
CreateMark(f) ==
  LET i == tx[f].id
  IN
  /\ tx[f].pc = "mark" /\ TxTurn(f)
  /\ node' = [node EXCEPT ![i].status = PENDING]
  /\ list' = list \cup {i}
  /\ Go(f, "activate")
  /\ UNCHANGED <<link, lookup, free, dpc, chan, slots, ring, left>>

(* ... which is in use then.                                               *)
Activate(f) ==
  /\ tx[f].pc = "activate" /\ TxTurn(f)
  /\ node' = [node EXCEPT ![tx[f].id].active = TRUE]
  /\ Go(f, "post")
  /\ UNCHANGED <<link, lookup, free, list, dpc, chan, slots, ring, left>>

(* Slip: the status is not looked at.                                      *)
Post_NoCheck(f) ==
  /\ tx[f].pc = "post" /\ TxTurn(f)
  /\ Go(f, IF node[tx[f].id].active THEN "enqueue" ELSE "idle")
  /\ UNCHANGED <<table, dpc, chan, slots, ring, left>>

(* dhd_bus_txdata: a packet for a ring that goes is dropped ...            *)
Post(f) ==
  LET n == node[tx[f].id]
  IN
  /\ tx[f].pc = "post" /\ TxTurn(f)
  /\ Go(f, IF n.active /\ n.status # DELETE_PENDING THEN "enqueue" ELSE "idle")
  /\ UNCHANGED <<table, dpc, chan, slots, ring, left>>

(* ... others are queued, and pushed when the ring is open.                *)
Enqueue(f) ==
  LET i == tx[f].id
  IN
  /\ tx[f].pc = "enqueue" /\ TxTurn(f)
  /\ node' = [node EXCEPT ![i].queue = Append(node[i].queue, f)]
  /\ Go(f, IF node[i].status = OPEN THEN "schedule" ELSE "idle")
  /\ UNCHANGED <<link, lookup, free, list, dpc, chan, slots, ring, left>>

Schedule(f) ==
  /\ tx[f].pc = "schedule" /\ TxTurn(f)
  /\ ScheduleQueue(tx[f].id)
  /\ Go(f, "idle")
  /\ UNCHANGED <<link, lookup, free, list, dpc, chan, ring, left>>

-----------------------------------------------------------------------------
(* The DPC.  A link comes up, or is lost: every ring of the interface that *)
(* is in use is asked to be deleted (dhd_flow_rings_delete).               *)
LinkUp(f) ==
  /\ dpc.pc = "idle" /\ DpcTurn
  /\ ~link[f]
  /\ link' = [link EXCEPT ![f] = TRUE]
  /\ UNCHANGED <<lookup, free, node, list, tx, dpc, chan, slots, ring, left>>

LinkDown(f) ==
  /\ dpc.pc = "idle" /\ DpcTurn
  /\ link[f] /\ left.down > 0
  /\ left' = [left EXCEPT !.down = @ - 1]
  /\ link' = [link EXCEPT ![f] = FALSE]
  /\ dpc' = [dpc EXCEPT !.pc = "delete", !.todo = Ids, !.flow = f]
  /\ UNCHANGED <<lookup, free, node, list, tx, chan, slots, ring>>

(* dhd_bus_flow_ring_delete_request refuses by a test of bits,             *)
(* status & FLOW_RING_STATUS_DELETE_PENDING; else it empties the queue ... *)
Refused(status) == status % (DELETE_PENDING + 1) # 0

DeleteRequest(i) ==
  /\ dpc.pc = "delete" /\ DpcTurn /\ i \in dpc.todo
  /\ IF node[i].active /\ node[i].flow = dpc.flow /\ ~Refused(node[i].status)
     THEN /\ node' = [node EXCEPT ![i].queue = <<>>]
          /\ dpc' = [dpc EXCEPT !.todo = @ \ {i}, !.pc = "send", !.id = i]
     ELSE /\ dpc' = [dpc EXCEPT !.todo = @ \ {i}]
          /\ UNCHANGED node
  /\ UNCHANGED <<link, lookup, free, list, tx, chan, slots, ring, left>>

DeleteEnd ==
  /\ dpc.pc = "delete" /\ DpcTurn /\ dpc.todo = {}
  /\ DpcGo("idle")
  /\ UNCHANGED <<table, tx, chan, slots, ring, left>>

(* ... sends the request, and marks the ring after that.                   *)
DeleteSend ==
  /\ dpc.pc = "send" /\ DpcTurn
  /\ h2d' = Append(h2d, [type |-> "delete", id |-> dpc.id, flow |-> dpc.flow])
  /\ DpcGo("sent")
  /\ UNCHANGED <<table, tx, d2h, slots, ring, left>>

DeleteMark ==
  /\ dpc.pc = "sent" /\ DpcTurn
  /\ node' = [node EXCEPT ![dpc.id].status = DELETE_PENDING]
  /\ DpcGo("delete")
  /\ UNCHANGED <<link, lookup, free, list, tx, chan, slots, ring, left>>

(* dhd_bus_flow_ring_create_response and _delete_response.  A ring created *)
(* is open; one deleted or not created is cleaned up.                      *)
Response ==
  LET m  == d2h[1]
      ok == m.status = "success"
  IN
  /\ dpc.pc = "idle" /\ DpcTurn /\ d2h # <<>>
  /\ d2h' = Tail(d2h)
  /\ IF m.type = "create" /\ ok
     THEN /\ node' = [node EXCEPT ![m.id].status = OPEN]
          /\ dpc' = [dpc EXCEPT !.pc = "push", !.id = m.id]
     ELSE /\ dpc' = IF m.type = "delete" /\ ~ok THEN dpc
                    ELSE [dpc EXCEPT !.pc = "clean", !.id = m.id,
                                     !.del = m.type = "delete"]
          /\ UNCHANGED node
  /\ UNCHANGED <<link, lookup, free, list, tx, h2d, slots, ring, left>>

Push ==
  /\ dpc.pc = "push" /\ DpcTurn
  /\ ScheduleQueue(dpc.id)
  /\ DpcGo("idle")
  /\ UNCHANGED <<link, lookup, free, list, tx, chan, ring, left>>

(* Slip: the flow's entry in the look-up table stays.                      *)
Clean_KeepsEntry ==
  /\ dpc.pc = "clean" /\ DpcTurn
  /\ node' = [node EXCEPT ![dpc.id].prot = FALSE]
  /\ free' = free \cup {dpc.id}
  /\ DpcGo("empty")
  /\ UNCHANGED <<link, lookup, list, tx, chan, slots, ring, left>>

(* dhd_bus_clean_flow_ring: the ring's memory and its id are given back,   *)
(* the queue is emptied, and the ring is no longer in use.                 *)
Clean ==
  LET i == dpc.id
      f == node[i].flow
  IN
  /\ dpc.pc = "clean" /\ DpcTurn
  /\ node' = [node EXCEPT ![i].prot = FALSE]
  /\ IF f # None /\ lookup[f] = i
     THEN lookup' = [lookup EXCEPT ![f] = None] /\ free' = free \cup {i}
     ELSE UNCHANGED <<lookup, free>>
  /\ DpcGo("empty")
  /\ UNCHANGED <<link, list, tx, chan, slots, ring, left>>

CleanQueue ==
  /\ dpc.pc = "empty" /\ DpcTurn
  /\ node' = [node EXCEPT ![dpc.id].queue = <<>>]
  /\ DpcGo("retire")
  /\ UNCHANGED <<link, lookup, free, list, tx, chan, slots, ring, left>>

CleanActive ==
  /\ dpc.pc = "retire" /\ DpcTurn
  /\ node' = [node EXCEPT ![dpc.id].active = FALSE]
  /\ list' = list \ {dpc.id}
  /\ DpcGo(IF dpc.del THEN "reset" ELSE "idle")
  /\ UNCHANGED <<link, lookup, free, tx, chan, slots, ring, left>>

(* The end of dhd_bus_flow_ring_delete_response.                           *)
Reset ==
  /\ dpc.pc = "reset" /\ DpcTurn
  /\ node' = [node EXCEPT ![dpc.id] = [@ EXCEPT !.status = OPEN, !.active = FALSE]]
  /\ DpcGo("idle")
  /\ UNCHANGED <<link, lookup, free, list, tx, chan, slots, ring, left>>

(* dhd_update_txflowrings pushes the queue of every ring on the list,      *)
(* whatever its status.                                                    *)
Walk(i) ==
  /\ dpc.pc = "idle" /\ DpcTurn
  /\ i \in list /\ node[i].queue # <<>>
  /\ ScheduleQueue(i)
  /\ UNCHANGED <<link, lookup, free, list, tx, dpc, chan, ring, left>>

-----------------------------------------------------------------------------
(* The dongle.                                                             *)
Answer(type, i, status) ==
  d2h' = Append(d2h, [type |-> type, id |-> i, status |-> status])

Freed(i) == ring' = [ring EXCEPT ![i] = [inited |-> FALSE, flow |-> None,
                                         r |-> 0, deleting |-> FALSE]]

(* pciedev_process_flow_ring_create_rqst.  An index cleared late by the    *)
(* host is late by a few bus cycles, the request by a DMA.                 *)
CreateRqst ==
  LET m == h2d[1]
  IN
  /\ h2d # <<>> /\ m.type = "create"
  /\ "index" \in Races \/ \A f \in Flows : tx[f] # [pc |-> "clear", id |-> m.id]
  /\ h2d' = Tail(h2d)
  /\ \/ /\ ring[m.id].inited
        /\ Answer("create", m.id, "in use")
        /\ UNCHANGED <<ring, left>>
     \/ /\ ~ring[m.id].inited
        /\ ring' = [ring EXCEPT ![m.id] = [@ EXCEPT !.inited = TRUE, !.flow = m.flow]]
        /\ Answer("create", m.id, "success")
        /\ UNCHANGED left
     \/ /\ ~ring[m.id].inited /\ left.fail > 0
        /\ left' = [left EXCEPT !.fail = @ - 1]
        /\ Answer("create", m.id, "no memory")
        /\ UNCHANGED ring
  /\ UNCHANGED <<table, tx, dpc, slots>>

(* Slip: the answer does not wait for the packets still in the ring.       *)
DeleteRqst_NoDrain ==
  LET m == h2d[1]
  IN
  /\ h2d # <<>> /\ m.type = "delete"
  /\ h2d' = Tail(h2d)
  /\ Answer("delete", m.id, "success")
  /\ UNCHANGED <<table, tx, dpc, slots, ring, left>>

(* pciedev_process_flow_ring_delete_rqst.                                  *)
DeleteRqst ==
  LET m == h2d[1]
      i == m.id
  IN
  /\ h2d # <<>> /\ m.type = "delete"
  /\ h2d' = Tail(h2d)
  /\ IF ~ring[i].inited
     THEN Answer("delete", i, "not found") /\ Freed(i)
     ELSE IF tcm_w[i] = ring[i].r
     THEN Answer("delete", i, "success") /\ Freed(i)
     ELSE /\ ring' = [ring EXCEPT ![i].deleting = TRUE]
          /\ UNCHANGED d2h
  /\ UNCHANGED <<table, tx, dpc, slots, left>>

(* A message of the ring is dealt with (FlowRingTx); the last one of a     *)
(* ring that is deleted brings the answer.                                 *)
Deal(i) ==
  LET r == NEXTTXP(ring[i].r, MaxItem)
  IN
  /\ ring[i].inited /\ ring[i].r # tcm_w[i]
  /\ IF ring[i].deleting /\ r = tcm_w[i]
     THEN Answer("delete", i, "success") /\ Freed(i)
     ELSE ring' = [ring EXCEPT ![i].r = r] /\ UNCHANGED d2h
  /\ UNCHANGED <<table, tx, dpc, h2d, slots, left>>

-----------------------------------------------------------------------------
TxStep(f) == \/ CreateSend(f) \/ CreateClear(f) \/ CreateMark(f) \/ Activate(f)
             \/ Post(f) \/ Enqueue(f) \/ Schedule(f)

DpcStep == \/ DeleteEnd \/ DeleteSend \/ DeleteMark \/ Response \/ Push
           \/ Clean \/ CleanQueue \/ CleanActive \/ Reset
           \/ \E i \in Ids : DeleteRequest(i) \/ Walk(i)

DongleStep == CreateRqst \/ DeleteRqst \/ \E i \in Ids : Deal(i)

Next == \/ \E f \in Flows : Lookup(f) \/ TxStep(f) \/ LinkUp(f) \/ LinkDown(f)
        \/ DpcStep \/ DongleStep

Spec == Init /\ [][Next]_vars

(* Handlers are run to their end, the DPC is run while there is something  *)
(* for it, and the dongle serves its rings.                                *)
FairSpec == /\ Spec /\ WF_vars(DpcStep) /\ WF_vars(DongleStep)
            /\ \A f \in Flows : WF_vars(TxStep(f))

-----------------------------------------------------------------------------
(* Every variable has its type.                                            *)
TypeOK ==
  /\ link \in [Flows -> BOOLEAN]
  /\ lookup \in [Flows -> Ids \cup {None}] /\ free \subseteq Ids
  /\ \A i \in Ids :
       /\ node[i].active \in BOOLEAN /\ node[i].prot \in BOOLEAN
       /\ node[i].status \in {OPEN, PENDING, CLOSED, DELETE_PENDING}
       /\ node[i].flow \in Flows \cup {None} /\ node[i].queue \in Seq(Flows)
       /\ tcm_w[i] \in Idx /\ mem[i] \in [Idx -> Flows \cup {None}]
       /\ ring[i] \in [inited : BOOLEAN, flow : Flows \cup {None}, r : Idx,
                       deleting : BOOLEAN]
  /\ list \subseteq Ids
  /\ \A f \in Flows : tx[f].id \in Ids \cup {None}
  /\ h2d \in Seq([type : {"create", "delete"}, id : Ids, flow : Flows])
  /\ \A k \in 1..Len(d2h) : d2h[k].id \in Ids

(* No id is lost and none has two owners: it is with the allocator or with *)
(* exactly one flow.                                                       *)
IdsConserved ==
  \A i \in Ids : Cardinality({f \in Flows : lookup[f] = i})
                   = IF i \in free THEN 0 ELSE 1

(* A ring the host takes for open is one the dongle has created for the    *)
(* same flow, and nothing about it is under way.                           *)
OpenAgreed ==
  \A i \in Ids : i \in list /\ node[i].status = OPEN /\ dpc.id # i =>
    /\ ring[i].inited /\ ring[i].flow = node[i].flow /\ ~ring[i].deleting
    /\ lookup[node[i].flow] = i
    /\ \A k \in 1..Len(h2d) : h2d[k].id # i

(* The messages the dongle would take from a ring are packets of the flow  *)
(* it was created for, posted since then.                                  *)
WindowOwned ==
  \A i \in Ids : ring[i].inited =>
    \A s \in Idx : NTXPACTIVE(ring[i].r, s, MaxItem)
                     < NTXPACTIVE(ring[i].r, tcm_w[i], MaxItem)
                   => mem[i][s] = ring[i].flow

(* Nothing is posted on a ring once its delete request is sent: FlowRingTx *)
(* relies on it.                                                           *)
NoPostOnDelete ==
  [][\A i \in Ids :
       (\/ \E k \in 1..Len(h2d) : h2d[k].type = "delete" /\ h2d[k].id = i
        \/ ring[i].deleting)
       => tcm_w'[i] = tcm_w[i]]_vars

(* A ring has one owner at a time, and the dongle keeps to it.             *)
OwnerOf(i) == IF \E f \in Flows : lookup[f] = i
              THEN CHOOSE f \in Flows : lookup[f] = i ELSE None
Lease == INSTANCE RingLease WITH
           Rings <- Ids, Nobody <- None,
           lease <- [i \in Ids |-> OwnerOf(i)],
           use <- [i \in Ids |-> IF ring[i].inited THEN ring[i].flow ELSE None]
ImplementsLease == Lease!Spec

(* What is queued on a ring is posted or dropped in the end.               *)
QueuesDrain == \A i \in Ids : node[i].queue # <<>> ~> node[i].queue = <<>>

(* "Delete all Flow rings associated with the given Interface": an         *)
(* interface that lost its link keeps no ring.                             *)
LinkDownDeletes == \A f \in Flows : ~link[f] ~> (link[f] \/ lookup[f] = None)
=============================================================================
