----------------------- MODULE FlowRingProtocolProofs -----------------------
(***************************************************************************)
(* Proofs about FlowRingProtocol, for any number of flows, ids and slots.  *)
(***************************************************************************)
EXTENDS FlowRingProtocol, FiniteSetTheorems, SequenceTheorems, TLAPS

(* Where a handler can be, and what a node, a ring and a message look like. *)
TxPc == {"create", "clear", "mark", "activate", "post", "enqueue", "schedule"}
DpcPc == {"idle", "delete", "send", "sent", "push", "clean", "empty", "retire",
          "reset"}
(* The handlers of the DPC that work on one ring.                          *)
DpcBusy == {"send", "sent", "push", "clean", "empty", "retire", "reset"}

Status == {OPEN, PENDING, CLOSED, DELETE_PENDING}
Type == {"create", "delete"}
Verdict == {"success", "no memory", "in use", "not found"}
Node == [active : BOOLEAN, status : Status, flow : Flows \cup {None},
         queue : Seq(Flows), prot : BOOLEAN]
Ring == [inited : BOOLEAN, flow : Flows \cup {None}, r : Idx,
         deleting : BOOLEAN]
ReqMsg == [type : Type, id : Ids, flow : Flows]
RspMsg == [type : Type, id : Ids, status : Verdict]

(* Every variable has its type; a handler under way has a ring.            *)
TypeInv ==
  /\ link \in [Flows -> BOOLEAN]
  /\ lookup \in [Flows -> Ids \cup {None}] /\ free \in SUBSET Ids
  /\ node \in [Ids -> Node] /\ list \in SUBSET Ids
  /\ tx \in [Flows -> {IdleTx} \cup [pc : TxPc, id : Ids]]
  /\ dpc \in [pc : DpcPc, id : Ids \cup {None}, del : BOOLEAN,
              todo : SUBSET Ids, flow : Flows \cup {None}]
  /\ dpc.pc \in DpcBusy => dpc.id \in Ids
  /\ dpc.pc \in {"delete", "send", "sent"} => dpc.flow \in Flows
  /\ h2d \in Seq(ReqMsg) /\ d2h \in Seq(RspMsg)
  /\ tcm_w \in [Ids -> Idx] /\ mem \in [Ids -> [Idx -> Flows \cup {None}]]
  /\ ring \in [Ids -> Ring]
  /\ left \in [pkts : Nat, down : Nat, fail : Nat]

(* An id is free or exactly one flow has it.                               *)
OwnerInv ==
  /\ \A f, g \in Flows : lookup[f] = lookup[g] /\ lookup[f] # None => f = g
  /\ \A f \in Flows : lookup[f] \notin free
  /\ \A i \in Ids : i \in free \/ \E f \in Flows : lookup[f] = i

(* The perimeter lock: one handler at a time.                              *)
LockInv ==
  /\ dpc.pc # "idle" => \A f \in Flows : tx[f].pc = "idle"
  /\ \A f, g \in Flows : tx[f].pc # "idle" /\ tx[g].pc # "idle" => f = g

-----------------------------------------------------------------------------
(* The messages of q about ring i: none, or m alone.                       *)
NoMail(q, i) == \A k \in 1..Len(q) : q[k].id # i
OnlyMail(q, m) == \E k \in 1..Len(q) :
                    q[k] = m /\ \A l \in 1..Len(q) : q[l].id = m.id => l = k

(* What is under way about ring i: nothing, a request, or its answer.      *)
Quiet(i) == NoMail(h2d, i) /\ NoMail(d2h, i)
Requested(i, t, f) == OnlyMail(h2d, [type |-> t, id |-> i, flow |-> f])
                      /\ NoMail(d2h, i)
Answered(i, t, s) == NoMail(h2d, i)
                     /\ OnlyMail(d2h, [type |-> t, id |-> i, status |-> s])

(* The dongle's ring i: unused, or in use for flow f.                      *)
Unused(i) == ring[i] = [inited |-> FALSE, flow |-> None, r |-> 0,
                        deleting |-> FALSE]
Up(i, f) == ring[i].inited /\ ring[i].flow = f

(* The messages in the window of ring i are packets of flow f.             *)
Owned(i, f) ==
  "index" \notin Races =>
    \A s \in Idx : NTXPACTIVE(ring[i].r, s, MaxItem)
                     < NTXPACTIVE(ring[i].r, tcm_w[i], MaxItem)
                   => mem[i][s] = f

Creating(i, f) == \/ Requested(i, "create", f) /\ Unused(i)
                  \/ Answered(i, "create", "success") /\ Up(i, f)
                     /\ ~ring[i].deleting
                  \/ Answered(i, "create", "no memory") /\ Unused(i)

Deleting(i, f) == \/ Requested(i, "delete", f) /\ Up(i, f) /\ ~ring[i].deleting
                     /\ Owned(i, f)
                  \/ Quiet(i) /\ Up(i, f) /\ ring[i].deleting /\ Owned(i, f)
                  \/ Answered(i, "delete", "success") /\ Unused(i)

(* The handler that works on ring i: a sender's, or the DPC's.             *)
TxOn(i) == \E f \in Flows : tx[f].id = i
DpcOn(i) == dpc.pc \in DpcBusy /\ dpc.id = i
TxAt(i, f, pcs) == \A g \in Flows : tx[g].id = i => g = f /\ tx[g].pc \in pcs

-----------------------------------------------------------------------------
(* The stages of a ring.  It is free, ...                                  *)
Free(i) ==
  /\ i \in free /\ (\A g \in Flows : lookup[g] # i)
  /\ ~TxOn(i) /\ ~DpcOn(i)
  /\ ~node[i].active /\ i \notin list /\ node[i].queue = <<>>
  /\ Quiet(i) /\ Unused(i)

(* ... its creation is prepared by the sender of flow f, ...               *)
Starting(i, f) ==
  /\ tx[f].id = i /\ TxAt(i, f, {"create", "clear", "mark", "activate"})
  /\ ~DpcOn(i)
  /\ ~node[i].active /\ node[i].queue = <<>>
  /\ tx[f].pc # "activate" => i \notin list
  /\ tx[f].pc = "activate" => i \in list /\ node[i].status = PENDING
  /\ tx[f].pc = "create" => Quiet(i) /\ Unused(i)
  /\ tx[f].pc # "create" => Creating(i, f)
  /\ tx[f].pc = "clear" /\ "index" \notin Races => Requested(i, "create", f)
                                                   /\ Unused(i)
  /\ tx[f].pc \in {"mark", "activate"} => Owned(i, f)

(* ... flow f works with it while its creation is pending, ...             *)
Pending(i, f) ==
  /\ node[i].status = PENDING
  /\ TxAt(i, f, {"post", "enqueue"}) /\ ~DpcOn(i)
  /\ Creating(i, f) /\ Owned(i, f)

(* ... it is open, ...                                                     *)
Open(i, f) ==
  /\ node[i].status = OPEN
  /\ TxAt(i, f, {"post", "enqueue", "schedule"})
  /\ DpcOn(i) => \/ dpc.pc = "push"
                 \/ dpc.pc = "send" /\ dpc.flow = f /\ node[i].queue = <<>>
  /\ Quiet(i) /\ Up(i, f) /\ ~ring[i].deleting /\ Owned(i, f)

(* ... its deletion is requested, ...                                      *)
Going(i, f) ==
  /\ \/ DpcOn(i) /\ dpc.pc = "sent" /\ node[i].status = OPEN
     \/ ~DpcOn(i) /\ node[i].status = DELETE_PENDING
  /\ TxAt(i, f, {"post"}) /\ node[i].queue = <<>>
  /\ Deleting(i, f)

(* ... and it is cleaned up, first as a ring of flow f, ...                *)
Cleaning(i, f) ==
  /\ DpcOn(i) /\ dpc.pc = "clean" /\ ~TxOn(i)
  /\ Quiet(i) /\ Unused(i)

(* ... then as a ring that is free again.                                  *)
Released(i) ==
  /\ DpcOn(i) /\ dpc.pc \in {"empty", "retire", "reset"} /\ ~TxOn(i)
  /\ i \in free /\ (\A g \in Flows : lookup[g] # i)
  /\ dpc.pc # "empty" => node[i].queue = <<>>
  /\ dpc.pc = "reset" => ~node[i].active /\ i \notin list
  /\ Quiet(i) /\ Unused(i)

QueueOf(i, f) == \A k \in 1..Len(node[i].queue) : node[i].queue[k] = f

Held(i, f) == /\ i \notin free /\ node[i].flow = f
              /\ \A g \in Flows : lookup[g] = i <=> g = f

Working(i, f) == /\ node[i].active /\ i \in list /\ QueueOf(i, f)
                 /\ \/ Pending(i, f) \/ Open(i, f) \/ Going(i, f)
                    \/ Cleaning(i, f)

Stage(i) == \/ Free(i) \/ Released(i)
            \/ \E f \in Flows : Held(i, f) /\ (Starting(i, f) \/ Working(i, f))

(* The DPC's record is that of an idle DPC when it is idle.                *)
DpcInv == dpc.pc = "idle" => dpc = IdleDpc

IInv == TypeInv /\ LockInv /\ DpcInv /\ \A i \in Ids : Stage(i)

-----------------------------------------------------------------------------
LEMMA RingSize == MaxItem \in Nat /\ MaxItem >= 2 /\ 0 \in Idx
  BY ProtocolAssumption DEF Idx

LEMMA NoneNot == None \notin Flows /\ None \notin Ids
  BY NoneAssumption

(* What dhd_bus_schedule_queue does: k packets leave the queue, for the k  *)
(* slots from the write index on, and the ring is not filled.              *)
LEMMA ScheduleEffect ==
  ASSUME TypeInv, NEW i \in Ids, ScheduleQueue(i)
  PROVE  \E k \in 0..Len(node[i].queue) :
           /\ k <= WRITE_SPACE_AVAIL(ring[i].r, tcm_w[i], MaxItem)
           /\ tcm_w' = [tcm_w EXCEPT ![i] = (@ + k) % MaxItem]
           /\ mem' = [mem EXCEPT ![i] = [s \in Idx |->
                IF NTXPACTIVE(tcm_w[i], s, MaxItem) < k
                THEN node[i].queue[NTXPACTIVE(tcm_w[i], s, MaxItem) + 1]
                ELSE mem[i][s]]]
           /\ node' = [node EXCEPT ![i].queue =
                         SubSeq(node[i].queue, k + 1, Len(node[i].queue))]
  <1> DEFINE q == node[i].queue
             a == WRITE_SPACE_AVAIL(ring[i].r, tcm_w[i], MaxItem)
  <1>1. q \in Seq(Flows) /\ ring[i].r \in Idx /\ tcm_w[i] \in Idx
    BY DEF TypeInv, Node, Ring
  <1>2. Len(q) \in Nat
    BY <1>1
  <1>3. a \in Nat
    BY <1>1, RingSize DEF Idx, WRITE_SPACE_AVAIL, NTXPACTIVE
  <1>4. MIN(Len(q), a) \in 0..Len(q) /\ MIN(Len(q), a) <= a
    BY <1>2, <1>3 DEF MIN
  <1> QED
    BY <1>4 DEF ScheduleQueue

LEMMA ScheduleType ==
  ASSUME TypeInv, NEW i \in Ids, ScheduleQueue(i)
  PROVE  /\ tcm_w' \in [Ids -> Idx]
         /\ mem' \in [Ids -> [Idx -> Flows \cup {None}]]
         /\ node' \in [Ids -> Node]
  <1> DEFINE q == node[i].queue
             off(s) == NTXPACTIVE(tcm_w[i], s, MaxItem)
  <1>1. q \in Seq(Flows) /\ tcm_w[i] \in Idx /\ mem[i] \in [Idx -> Flows \cup {None}]
    BY DEF TypeInv, Node
  <1>2. PICK k \in 0..Len(q) :
           /\ tcm_w' = [tcm_w EXCEPT ![i] = (@ + k) % MaxItem]
           /\ mem' = [mem EXCEPT ![i] = [s \in Idx |->
                IF off(s) < k THEN q[off(s) + 1] ELSE mem[i][s]]]
           /\ node' = [node EXCEPT ![i].queue = SubSeq(q, k + 1, Len(q))]
    BY ScheduleEffect
  <1>3. Len(q) \in Nat /\ k \in Nat /\ \A j \in 1..Len(q) : q[j] \in Flows
    BY <1>1, <1>2, ElementOfSeq
  <1>4. \A w \in Idx : (w + k) % MaxItem \in Idx
    BY <1>3, RingSize DEF Idx
  <1>5. \A s \in Idx : off(s) < k => q[off(s) + 1] \in Flows
    <2> SUFFICES ASSUME NEW s \in Idx, off(s) < k
                 PROVE  off(s) + 1 \in 1..Len(q)
      BY <1>3
    <2>1. off(s) \in Nat
      BY <1>1, RingSize DEF Idx, NTXPACTIVE
    <2> QED
      BY <2>1, <1>2, <1>3
  <1>6. SubSeq(q, k + 1, Len(q)) \in Seq(Flows)
    <2>1. \A j \in k + 1..Len(q) : q[j] \in Flows
      BY <1>3
    <2> QED
      BY <2>1, <1>3, SubSeqProperties
  <1>7. tcm_w' \in [Ids -> Idx]
    BY <1>2, <1>4 DEF TypeInv
  <1>8. mem' \in [Ids -> [Idx -> Flows \cup {None}]]
    <2>1. [s \in Idx |-> IF off(s) < k THEN q[off(s) + 1] ELSE mem[i][s]]
            \in [Idx -> Flows \cup {None}]
      BY <1>1, <1>5
    <2> QED
      BY <2>1, <1>2 DEF TypeInv
  <1>9. node' \in [Ids -> Node]
    <2>1. node \in [Ids -> Node]
      BY DEF TypeInv
    <2> DEFINE nq == SubSeq(q, k + 1, Len(q))
    <2>2. node' = [node EXCEPT ![i].queue = nq] /\ nq \in Seq(Flows)
      BY <1>2, <1>6
    <2> HIDE DEF nq
    <2> QED
      BY ONLY <2>1, <2>2, i \in Ids DEF Node
  <1> QED
    BY <1>7, <1>8, <1>9

(* An assignment to a field of a node.                                     *)
LEMMA NodeType ==
  ASSUME TypeInv, NEW i \in Ids
  PROVE  /\ \A b \in BOOLEAN : /\ [node EXCEPT ![i].active = b] \in [Ids -> Node]
                               /\ [node EXCEPT ![i].prot = b] \in [Ids -> Node]
         /\ \A s \in Status : [node EXCEPT ![i].status = s] \in [Ids -> Node]
         /\ \A f \in Flows : [node EXCEPT ![i].flow = f] \in [Ids -> Node]
         /\ \A q \in Seq(Flows) : [node EXCEPT ![i].queue = q] \in [Ids -> Node]
  <1>1. node \in [Ids -> Node]
    BY DEF TypeInv
  <1> QED
    BY ONLY <1>1, i \in Ids DEF Node

LEMMA StatusType == {OPEN, PENDING, CLOSED, DELETE_PENDING} \subseteq Status
  BY DEF Status

-----------------------------------------------------------------------------
LEMMA InitType == Init => TypeInv
  <1> SUFFICES ASSUME Init PROVE TypeInv
    OBVIOUS
  <1>1. node \in [Ids -> Node]
    BY DEF Init, Node, Status, CLOSED
  <1>2. /\ tx \in [Flows -> {IdleTx} \cup [pc : TxPc, id : Ids]]
        /\ dpc \in [pc : DpcPc, id : Ids \cup {None}, del : BOOLEAN,
                    todo : SUBSET Ids, flow : Flows \cup {None}]
        /\ dpc.pc = "idle"
    BY DEF Init, IdleDpc, DpcPc
  <1>3. tcm_w \in [Ids -> Idx] /\ mem \in [Ids -> [Idx -> Flows \cup {None}]]
    BY RingSize DEF Init, Empty
  <1>4. ring \in [Ids -> Ring]
    BY RingSize DEF Init, Ring
  <1>5. left \in [pkts : Nat, down : Nat, fail : Nat]
    BY ProtocolAssumption DEF Init
  <1>6. /\ link \in [Flows -> BOOLEAN]
        /\ lookup \in [Flows -> Ids \cup {None}] /\ free \in SUBSET Ids
        /\ list \in SUBSET Ids /\ h2d \in Seq(ReqMsg) /\ d2h \in Seq(RspMsg)
    BY DEF Init
  <1> QED
    BY <1>1, <1>2, <1>3, <1>4, <1>5, <1>6 DEF TypeInv, DpcBusy

(* The record of a sender or of the DPC that goes on or ends.              *)
LEMMA GoType ==
  ASSUME TypeInv, NEW f \in Flows, tx[f].pc # "idle",
         NEW pc \in TxPc \cup {"idle"}, Go(f, pc)
  PROVE  /\ tx' \in [Flows -> {IdleTx} \cup [pc : TxPc, id : Ids]]
         /\ tx[f].id \in Ids
         /\ \A g \in Flows \ {f} : tx'[g] = tx[g]
         /\ pc = "idle" => tx'[f] = IdleTx
         /\ pc # "idle" => tx'[f] = [pc |-> pc, id |-> tx[f].id]
  <1>1. tx[f] \in [pc : TxPc, id : Ids]
    BY DEF TypeInv, IdleTx
  <1>2. CASE pc = "idle"
    BY <1>1, <1>2 DEF Go, TypeInv
  <1>3. CASE pc # "idle"
    <2>1. [tx[f] EXCEPT !.pc = pc] = [pc |-> pc, id |-> tx[f].id]
      BY <1>1
    <2>2. [pc |-> pc, id |-> tx[f].id] \in [pc : TxPc, id : Ids]
      BY <1>1, <1>3
    <2>3. tx' = [tx EXCEPT ![f] = [pc |-> pc, id |-> tx[f].id]]
      BY <2>1, <1>3 DEF Go
    <2>4. tx \in [Flows -> {IdleTx} \cup [pc : TxPc, id : Ids]]
      BY DEF TypeInv
    <2> QED
      BY ONLY <1>1, <1>3, <2>2, <2>3, <2>4, f \in Flows
  <1> QED
    BY <1>2, <1>3

LEMMA DpcGoType ==
  ASSUME TypeInv, NEW pc \in DpcPc, DpcGo(pc)
  PROVE  /\ dpc' \in [pc : DpcPc, id : Ids \cup {None}, del : BOOLEAN,
                      todo : SUBSET Ids, flow : Flows \cup {None}]
         /\ dpc'.pc = pc
         /\ pc # "idle" => /\ dpc'.id = dpc.id /\ dpc'.flow = dpc.flow
                           /\ dpc'.del = dpc.del
         /\ pc = "idle" => dpc' = IdleDpc
  BY DEF DpcGo, TypeInv, IdleDpc, DpcPc

(* What a handler that is under way works on.                              *)
LEMMA Types ==
  ASSUME TypeInv
  PROVE  /\ \A f \in Flows : tx[f].pc # "idle" => /\ tx[f] \in [pc : TxPc, id : Ids]
                                                  /\ tx[f].id \in Ids
         /\ \A f \in Flows : tx[f].pc = "idle" => tx[f] = IdleTx
         /\ dpc.pc \in DpcBusy => dpc.id \in Ids
         /\ \A k \in 1..Len(h2d) : h2d[k] \in ReqMsg
         /\ \A k \in 1..Len(d2h) : d2h[k] \in RspMsg
         /\ Len(h2d) \in Nat /\ Len(d2h) \in Nat
         /\ h2d # <<>> => /\ 1 \in 1..Len(h2d) /\ Tail(h2d) \in Seq(ReqMsg)
                          /\ h2d[1] \in ReqMsg /\ h2d[1].id \in Ids
                          /\ h2d[1].flow \in Flows
         /\ d2h # <<>> => /\ 1 \in 1..Len(d2h) /\ Tail(d2h) \in Seq(RspMsg)
                          /\ d2h[1] \in RspMsg /\ d2h[1].id \in Ids
         /\ \A i \in Ids : /\ node[i] \in Node /\ ring[i] \in Ring
                           /\ tcm_w[i] \in Idx /\ ring[i].r \in Idx
                           /\ node[i].flow \in Flows \cup {None}
                           /\ node[i].queue \in Seq(Flows)
  <1>1. \A f \in Flows : tx[f] = IdleTx \/ tx[f] \in [pc : TxPc, id : Ids]
    BY DEF TypeInv
  <1>2. "idle" \notin TxPc /\ IdleTx.pc = "idle"
    BY DEF TxPc, IdleTx
  <1>3. /\ \A f \in Flows : tx[f].pc # "idle" => /\ tx[f] \in [pc : TxPc, id : Ids]
                                                 /\ tx[f].id \in Ids
        /\ \A f \in Flows : tx[f].pc = "idle" => tx[f] = IdleTx
    BY ONLY <1>1, <1>2
  <1>4. h2d \in Seq(ReqMsg) /\ d2h \in Seq(RspMsg)
    BY DEF TypeInv
  <1>5. /\ \A k \in 1..Len(h2d) : h2d[k] \in ReqMsg
        /\ \A k \in 1..Len(d2h) : d2h[k] \in RspMsg
        /\ Len(h2d) \in Nat /\ Len(d2h) \in Nat
    BY <1>4
  <1>6. h2d # <<>> => 1 \in 1..Len(h2d) /\ Tail(h2d) \in Seq(ReqMsg)
    BY <1>4, EmptySeq, HeadTailProperties
  <1>7. d2h # <<>> => 1 \in 1..Len(d2h) /\ Tail(d2h) \in Seq(RspMsg)
    BY <1>4, EmptySeq, HeadTailProperties
  <1>8. \A i \in Ids : /\ node[i] \in Node /\ ring[i] \in Ring
                       /\ tcm_w[i] \in Idx /\ ring[i].r \in Idx
                       /\ node[i].flow \in Flows \cup {None}
                       /\ node[i].queue \in Seq(Flows)
    BY DEF TypeInv, Node, Ring
  <1>9. /\ \A m \in ReqMsg : m.id \in Ids /\ m.flow \in Flows
        /\ \A m \in RspMsg : m.id \in Ids
    BY DEF ReqMsg, RspMsg
  <1>10. dpc.pc \in DpcBusy => dpc.id \in Ids
    BY DEF TypeInv
  <1> QED
    BY ONLY <1>3, <1>5, <1>6, <1>7, <1>8, <1>9, <1>10

LEMMA TxType ==
  ASSUME TypeInv, NEW f \in Flows, Lookup(f) \/ TxStep(f)
  PROVE  TypeInv'
  <1> USE DEF TxPc
  <1>1. CASE Lookup(f)
    <2>1. PICK i \in IF lookup[f] # None THEN {lookup[f]} ELSE free :
            /\ lookup' = [lookup EXCEPT ![f] = i] /\ free' = free \ {i}
            /\ IF node[i].active
               THEN /\ tx' = [tx EXCEPT ![f] = [pc |-> "post", id |-> i]]
                    /\ UNCHANGED node
               ELSE /\ tx' = [tx EXCEPT ![f] = [pc |-> "create", id |-> i]]
                    /\ node' = [node EXCEPT ![i].flow = f]
      BY <1>1 DEF Lookup
    <2>2. i \in Ids
      BY <2>1 DEF TypeInv
    <2>3. lookup' \in [Flows -> Ids \cup {None}] /\ free' \in SUBSET Ids
      BY <2>1, <2>2 DEF TypeInv
    <2>4. tx' \in [Flows -> {IdleTx} \cup [pc : TxPc, id : Ids]]
      BY <2>1, <2>2 DEF TypeInv
    <2>5. node' \in [Ids -> Node]
      <3>1. node \in [Ids -> Node]
        BY DEF TypeInv
      <3> QED
        BY <2>1, <2>2, <3>1, NodeType
    <2>6. left' \in [pkts : Nat, down : Nat, fail : Nat]
      <3>1. /\ left \in [pkts : Nat, down : Nat, fail : Nat] /\ left.pkts > 0
            /\ left' = [left EXCEPT !.pkts = @ - 1]
        BY <1>1 DEF Lookup, TypeInv
      <3> QED
        BY ONLY <3>1
    <2> QED
      BY <1>1, <2>3, <2>4, <2>5, <2>6 DEF Lookup, TypeInv, chan, slots
  <1>2. ASSUME TxStep(f) PROVE tx[f].id \in Ids /\ tx[f].pc # "idle"
    BY <1>2, Types DEF TxStep, CreateSend, CreateClear, CreateMark, Activate,
         Post, Enqueue, Schedule
  <1>3. CASE CreateSend(f)
    <2>1. node' \in [Ids -> Node]
      BY <1>2, <1>3, NodeType DEF CreateSend, TxStep
    <2>2. mem' \in [Ids -> [Idx -> Flows \cup {None}]]
      BY <1>2, <1>3 DEF CreateSend, TypeInv, Empty, TxStep
    <2>3. h2d' \in Seq(ReqMsg)
      BY <1>2, <1>3 DEF CreateSend, TypeInv, ReqMsg, Type, TxStep
    <2>4. tx' \in [Flows -> {IdleTx} \cup [pc : TxPc, id : Ids]]
      BY <1>2, <1>3, GoType DEF CreateSend, TxStep
    <2> QED
      BY <1>3, <2>1, <2>2, <2>3, <2>4 DEF CreateSend, TypeInv
  <1>4. CASE CreateClear(f)
    <2>1. tcm_w' \in [Ids -> Idx]
      BY <1>4, RingSize DEF CreateClear, TypeInv
    <2>2. tx' \in [Flows -> {IdleTx} \cup [pc : TxPc, id : Ids]]
      BY <1>4, GoType DEF CreateClear
    <2> QED
      BY <1>4, <2>1, <2>2 DEF CreateClear, TypeInv, table, chan
  <1>5. CASE CreateMark(f)
    <2>1. node' \in [Ids -> Node] /\ list' \in SUBSET Ids
      BY <1>2, <1>5, NodeType, StatusType DEF CreateMark, TypeInv, TxStep
    <2>2. tx' \in [Flows -> {IdleTx} \cup [pc : TxPc, id : Ids]]
      BY <1>5, GoType DEF CreateMark
    <2> QED
      BY <1>5, <2>1, <2>2 DEF CreateMark, TypeInv, chan, slots
  <1>6. CASE Activate(f)
    <2>1. node' \in [Ids -> Node]
      BY <1>2, <1>6, NodeType DEF Activate, TxStep
    <2>2. tx' \in [Flows -> {IdleTx} \cup [pc : TxPc, id : Ids]]
      BY <1>6, GoType DEF Activate
    <2> QED
      BY <1>6, <2>1, <2>2 DEF Activate, TypeInv, chan, slots
  <1>7. CASE Post(f)
    <2>1. tx' \in [Flows -> {IdleTx} \cup [pc : TxPc, id : Ids]]
      BY <1>7, GoType DEF Post
    <2> QED
      BY <1>7, <2>1 DEF Post, TypeInv, table, chan, slots
  <1>8. CASE Enqueue(f)
    <2>1. node' \in [Ids -> Node]
      <3>1. Append(node[tx[f].id].queue, f) \in Seq(Flows)
        BY <1>2, <1>8, Types DEF TxStep
      <3> QED
        BY <1>2, <1>8, <3>1, NodeType DEF Enqueue, TxStep
    <2>2. tx' \in [Flows -> {IdleTx} \cup [pc : TxPc, id : Ids]]
      BY <1>8, GoType DEF Enqueue
    <2> QED
      BY <1>8, <2>1, <2>2 DEF Enqueue, TypeInv, chan, slots
  <1>9. CASE Schedule(f)
    <2>1. /\ tcm_w' \in [Ids -> Idx] /\ node' \in [Ids -> Node]
          /\ mem' \in [Ids -> [Idx -> Flows \cup {None}]]
      BY <1>2, <1>9, ScheduleType DEF Schedule, TxStep
    <2>2. tx' \in [Flows -> {IdleTx} \cup [pc : TxPc, id : Ids]]
      BY <1>9, GoType DEF Schedule
    <2> QED
      BY <1>9, <2>1, <2>2 DEF Schedule, TypeInv, chan
  <1> QED
    BY <1>1, <1>3, <1>4, <1>5, <1>6, <1>7, <1>8, <1>9 DEF TxStep

LEMMA DpcType ==
  ASSUME TypeInv,
         DpcStep \/ \E f \in Flows : LinkUp(f) \/ LinkDown(f)
  PROVE  TypeInv'
  <1> DEFINE T == [pc : DpcPc, id : Ids \cup {None}, del : BOOLEAN,
                   todo : SUBSET Ids, flow : Flows \cup {None}]
  <1>0. dpc \in T
    BY DEF TypeInv
  <1>1. CASE \E f \in Flows : LinkUp(f) \/ LinkDown(f)
    <2>1. PICK f \in Flows : LinkUp(f) \/ LinkDown(f)
      BY <1>1
    <2>2. CASE LinkUp(f)
      BY <2>2 DEF LinkUp, TypeInv, chan, slots
    <2>3. CASE LinkDown(f)
      <3>1. /\ dpc' \in T /\ dpc'.pc = "delete" /\ dpc'.flow \in Flows
        <4>1. dpc' = [dpc EXCEPT !.pc = "delete", !.todo = Ids, !.flow = f]
          BY <2>3 DEF LinkDown
        <4> QED
          BY ONLY <1>0, <4>1, f \in Flows DEF DpcPc
      <3>2. left' \in [pkts : Nat, down : Nat, fail : Nat]
        <4>1. /\ left \in [pkts : Nat, down : Nat, fail : Nat] /\ left.down > 0
              /\ left' = [left EXCEPT !.down = @ - 1]
          BY <2>3 DEF LinkDown, TypeInv
        <4> QED
          BY ONLY <4>1
      <3>3. link' \in [Flows -> BOOLEAN]
        BY <2>3 DEF LinkDown, TypeInv
      <3> QED
        BY <2>3, <3>1, <3>2, <3>3 DEF LinkDown, TypeInv, DpcBusy, chan, slots
    <2> QED
      BY <2>1, <2>2, <2>3
  <1>2. CASE DeleteEnd
    <2>1. dpc' \in T /\ dpc'.pc = "idle"
      BY <1>2, DpcGoType DEF DeleteEnd, DpcPc
    <2> QED
      BY <1>2, <2>1 DEF DeleteEnd, TypeInv, DpcBusy, table, chan, slots
  <1>3. CASE DeleteSend
    <2>1. /\ dpc' \in T /\ dpc'.pc = "sent" /\ dpc'.id = dpc.id
          /\ dpc'.flow = dpc.flow
      BY <1>3, DpcGoType DEF DeleteSend, DpcPc
    <2>2. dpc.id \in Ids /\ dpc.flow \in Flows
      BY <1>3 DEF DeleteSend, TypeInv, DpcBusy
    <2>3. h2d' \in Seq(ReqMsg)
      BY <1>3, <2>2 DEF DeleteSend, TypeInv, ReqMsg, Type
    <2> QED
      BY <1>3, <2>1, <2>2, <2>3 DEF DeleteSend, TypeInv, DpcBusy, table, slots
  <1>4. CASE DeleteMark
    <2>1. /\ dpc' \in T /\ dpc'.pc = "delete" /\ dpc'.flow = dpc.flow
      BY <1>4, DpcGoType DEF DeleteMark, DpcPc
    <2>2. dpc.id \in Ids /\ dpc.flow \in Flows
      BY <1>4 DEF DeleteMark, TypeInv, DpcBusy
    <2>3. node' \in [Ids -> Node]
      BY <1>4, <2>2, NodeType, StatusType DEF DeleteMark
    <2> QED
      BY <1>4, <2>1, <2>2, <2>3 DEF DeleteMark, TypeInv, DpcBusy, chan, slots
  <1>5. CASE Response
    <2>1. /\ d2h # <<>> /\ d2h[1].id \in Ids /\ Tail(d2h) \in Seq(RspMsg)
      BY <1>5, Types DEF Response
    <2>2. node' \in [Ids -> Node]
      <3>1. node \in [Ids -> Node]
        BY DEF TypeInv
      <3> QED
        BY <1>5, <2>1, <3>1, NodeType, StatusType DEF Response
    <2>3. dpc' \in T /\ (dpc'.pc \in DpcBusy => dpc'.id \in Ids)
          /\ dpc'.pc \notin {"delete", "send", "sent"}
      <3>1. /\ dpc.pc = "idle"
            /\ \/ dpc' = [dpc EXCEPT !.pc = "push", !.id = d2h[1].id]
               \/ dpc' = dpc
               \/ dpc' = [dpc EXCEPT !.pc = "clean", !.id = d2h[1].id,
                                     !.del = (d2h[1].type = "delete")]
        BY <1>5 DEF Response
      <3> QED
        BY ONLY <1>0, <2>1, <3>1 DEF DpcPc, DpcBusy
    <2> QED
      BY <1>5, <2>1, <2>2, <2>3 DEF Response, TypeInv, slots
  <1>6. CASE Push
    <2>1. dpc' \in T /\ dpc'.pc = "idle" /\ dpc.id \in Ids
      BY <1>6, DpcGoType DEF Push, DpcPc, TypeInv, DpcBusy
    <2> QED
      BY <1>6, <2>1, ScheduleType DEF Push, TypeInv, DpcBusy, chan
  <1>7. CASE Clean
    <2>1. dpc' \in T /\ dpc'.pc = "empty" /\ dpc'.id = dpc.id /\ dpc.id \in Ids
      BY <1>7, DpcGoType DEF Clean, DpcPc, TypeInv, DpcBusy
    <2>2. node' \in [Ids -> Node]
      BY <1>7, <2>1, NodeType DEF Clean
    <2>3. lookup' \in [Flows -> Ids \cup {None}] /\ free' \in SUBSET Ids
      BY <1>7, <2>1 DEF Clean, TypeInv
    <2> QED
      BY <1>7, <2>1, <2>2, <2>3 DEF Clean, TypeInv, DpcBusy, chan, slots
  <1>8. CASE CleanQueue
    <2>1. dpc' \in T /\ dpc'.pc = "retire" /\ dpc'.id = dpc.id /\ dpc.id \in Ids
      BY <1>8, DpcGoType DEF CleanQueue, DpcPc, TypeInv, DpcBusy
    <2>2. node' \in [Ids -> Node]
      <3>1. <<>> \in Seq(Flows)
        OBVIOUS
      <3> QED
        BY <1>8, <2>1, <3>1, NodeType DEF CleanQueue
    <2> QED
      BY <1>8, <2>1, <2>2 DEF CleanQueue, TypeInv, DpcBusy, chan, slots
  <1>9. CASE CleanActive
    <2>1. /\ dpc' \in T /\ dpc'.pc \in {"reset", "idle"} /\ dpc.id \in Ids
          /\ dpc'.pc = "reset" => dpc'.id = dpc.id
      BY <1>9, DpcGoType DEF CleanActive, DpcPc, TypeInv, DpcBusy
    <2>2. node' \in [Ids -> Node]
      BY <1>9, <2>1, NodeType DEF CleanActive
    <2> QED
      BY <1>9, <2>1, <2>2 DEF CleanActive, TypeInv, DpcBusy, chan, slots
  <1>10. CASE Reset
    <2>1. dpc' \in T /\ dpc'.pc = "idle" /\ dpc.id \in Ids
      BY <1>10, DpcGoType DEF Reset, DpcPc, TypeInv, DpcBusy
    <2>2. node' \in [Ids -> Node]
      <3>1. node \in [Ids -> Node] /\ OPEN \in Status
        BY StatusType DEF TypeInv
      <3>2. node' = [node EXCEPT ![dpc.id] = [@ EXCEPT !.status = OPEN, !.active = FALSE]]
        BY <1>10 DEF Reset
      <3> DEFINE n == [node[dpc.id] EXCEPT !.status = OPEN, !.active = FALSE]
      <3>3. n \in Node
        <4>1. node[dpc.id] \in Node
          BY <2>1, <3>1
        <4>2. [node[dpc.id] EXCEPT !.status = OPEN] \in Node
          BY ONLY <3>1, <4>1 DEF Node
        <4>3. n = [[node[dpc.id] EXCEPT !.status = OPEN] EXCEPT !.active = FALSE]
          BY ONLY <4>1 DEF Node
        <4> QED
          BY ONLY <4>2, <4>3 DEF Node
      <3>4. node' = [node EXCEPT ![dpc.id] = n]
        BY ONLY <3>2
      <3> HIDE DEF n
      <3> QED
        BY ONLY <2>1, <3>1, <3>3, <3>4
    <2> QED
      BY <1>10, <2>1, <2>2 DEF Reset, TypeInv, DpcBusy, chan, slots
  <1>11. CASE \E i \in Ids : DeleteRequest(i) \/ Walk(i)
    <2>1. PICK i \in Ids : DeleteRequest(i) \/ Walk(i)
      BY <1>11
    <2>2. CASE DeleteRequest(i)
      <3>1. node' \in [Ids -> Node]
        <4>1. <<>> \in Seq(Flows) /\ node \in [Ids -> Node]
          BY DEF TypeInv
        <4>2. node' = node \/ node' = [node EXCEPT ![i].queue = <<>>]
          BY <2>2 DEF DeleteRequest
        <4>3. [node EXCEPT ![i].queue = <<>>] \in [Ids -> Node]
          BY <4>1, NodeType
        <4> QED
          BY <4>1, <4>2, <4>3
      <3>2. dpc' \in T /\ dpc'.pc \in {"send", "delete"} /\ dpc'.flow \in Flows
            /\ (dpc'.pc = "send" => dpc'.id \in Ids)
        <4>1. /\ dpc.pc = "delete" /\ dpc.flow \in Flows
              /\ \/ dpc' = [dpc EXCEPT !.todo = @ \ {i}, !.pc = "send", !.id = i]
                 \/ dpc' = [dpc EXCEPT !.todo = @ \ {i}]
          BY <2>2 DEF DeleteRequest, TypeInv
        <4> QED
          BY ONLY <1>0, <4>1, i \in Ids DEF DpcPc
      <3> QED
        BY <2>2, <3>1, <3>2 DEF DeleteRequest, TypeInv, DpcBusy, chan, slots
    <2>3. CASE Walk(i)
      BY <2>3, ScheduleType DEF Walk, TypeInv, chan
    <2> QED
      BY <2>1, <2>2, <2>3
  <1> QED
    BY <1>1, <1>2, <1>3, <1>4, <1>5, <1>6, <1>7, <1>8, <1>9, <1>10, <1>11
       DEF DpcStep

LEMMA DongleType ==
  ASSUME TypeInv, DongleStep
  PROVE  TypeInv'
  <1>0. ring \in [Ids -> Ring] /\ 0 \in Idx
    BY RingSize DEF TypeInv
  <1>1. ASSUME NEW i \in Ids, NEW t \in Type, NEW s \in Verdict, Answer(t, i, s)
        PROVE  d2h' \in Seq(RspMsg)
    BY <1>1 DEF Answer, TypeInv, RspMsg
  <1>2. ASSUME NEW i \in Ids, Freed(i)
        PROVE  ring' \in [Ids -> Ring]
    BY ONLY <1>0, <1>2 DEF Freed, Ring
  <1>3. CASE CreateRqst
    <2>1. /\ h2d[1].id \in Ids /\ h2d[1].flow \in Flows /\ h2d' \in Seq(ReqMsg)
      BY <1>3, Types DEF CreateRqst
    <2>2. d2h' \in Seq(RspMsg)
      BY <1>1, <1>3, <2>1 DEF CreateRqst, Type, Verdict
    <2>3. ring' \in [Ids -> Ring]
      <3>1. \/ ring' = ring
            \/ ring' = [ring EXCEPT ![h2d[1].id] =
                              [@ EXCEPT !.inited = TRUE, !.flow = h2d[1].flow]]
        BY <1>3 DEF CreateRqst
      <3> QED
        BY ONLY <1>0, <2>1, <3>1 DEF Ring
    <2>4. left' \in [pkts : Nat, down : Nat, fail : Nat]
      <3>1. /\ left \in [pkts : Nat, down : Nat, fail : Nat]
            /\ \/ left' = left
               \/ left.fail > 0 /\ left' = [left EXCEPT !.fail = @ - 1]
        BY <1>3 DEF CreateRqst, TypeInv
      <3> QED
        BY ONLY <3>1
    <2> QED
      BY <1>3, <2>1, <2>2, <2>3, <2>4 DEF CreateRqst, TypeInv, table, slots
  <1>4. CASE DeleteRqst
    <2>1. /\ h2d[1].id \in Ids /\ h2d' \in Seq(ReqMsg)
      BY <1>4, Types DEF DeleteRqst
    <2>2. d2h' \in Seq(RspMsg)
      BY <1>1, <1>4, <2>1 DEF DeleteRqst, Type, Verdict, TypeInv
    <2>3. ring' \in [Ids -> Ring]
      <3>1. \/ Freed(h2d[1].id)
            \/ ring' = [ring EXCEPT ![h2d[1].id].deleting = TRUE]
        BY <1>4 DEF DeleteRqst
      <3>2. CASE Freed(h2d[1].id)
        BY <1>2, <2>1, <3>2
      <3>3. CASE ring' = [ring EXCEPT ![h2d[1].id].deleting = TRUE]
        BY ONLY <1>0, <2>1, <3>3 DEF Ring
      <3> QED
        BY <3>1, <3>2, <3>3
    <2> QED
      BY <1>4, <2>1, <2>2, <2>3 DEF DeleteRqst, TypeInv, table, slots
  <1>5. CASE \E i \in Ids : Deal(i)
    <2>1. PICK i \in Ids : Deal(i)
      BY <1>5
    <2>2. NEXTTXP(ring[i].r, MaxItem) \in Idx
      BY Types, RingSize DEF NEXTTXP, Idx
    <2>3. d2h' \in Seq(RspMsg)
      BY <1>1, <2>1 DEF Deal, Type, Verdict, TypeInv
    <2>4. ring' \in [Ids -> Ring]
      <3>1. \/ Freed(i)
            \/ ring' = [ring EXCEPT ![i].r = NEXTTXP(ring[i].r, MaxItem)]
        BY <2>1 DEF Deal
      <3>2. CASE Freed(i)
        BY <1>2, <3>2
      <3>3. CASE ring' = [ring EXCEPT ![i].r = NEXTTXP(ring[i].r, MaxItem)]
        BY ONLY <1>0, <2>2, <3>3, i \in Ids DEF Ring
      <3> QED
        BY <3>1, <3>2, <3>3
    <2> QED
      BY <2>1, <2>3, <2>4 DEF Deal, TypeInv, table, slots
  <1> QED
    BY <1>3, <1>4, <1>5 DEF DongleStep

LEMMA NextType == TypeInv /\ [Next]_vars => TypeInv'
  <1> SUFFICES ASSUME TypeInv, [Next]_vars PROVE TypeInv'
    OBVIOUS
  <1>1. CASE UNCHANGED vars
    BY <1>1 DEF vars, table, chan, slots, TypeInv
  <1> QED
    BY <1>1, TxType, DpcType, DongleType DEF Next

-----------------------------------------------------------------------------
LEMMA InitOwner == Init => OwnerInv
  BY NoneNot DEF Init, OwnerInv

(* Only a look-up that takes a free id and a clean-up that returns one     *)
(* change an owner.                                                        *)
LEMMA LookupOwner ==
  ASSUME TypeInv, OwnerInv, NEW f \in Flows, Lookup(f)
  PROVE  OwnerInv'
  <1>1. PICK i \in IF lookup[f] # None THEN {lookup[f]} ELSE free :
          lookup' = [lookup EXCEPT ![f] = i] /\ free' = free \ {i}
    BY DEF Lookup
  <1>2. lookup \in [Flows -> Ids \cup {None}] /\ free \in SUBSET Ids
    BY DEF TypeInv
  <1>3. CASE lookup[f] # None
    <2>1. lookup' = lookup /\ free' = free
      BY <1>1, <1>2, <1>3 DEF OwnerInv
    <2> QED
      BY <2>1 DEF OwnerInv
  <1>4. CASE lookup[f] = None
    <2>1. i \in free /\ i # None
      BY <1>1, <1>2, <1>4, NoneNot
    <2>2. \A g \in Flows : lookup'[g] = IF g = f THEN i ELSE lookup[g]
      BY <1>1, <1>2
    <2>3. free' = free \ {i}
      BY <1>1
    <2>4. \A g \in Flows : lookup[g] # i
      BY <2>1 DEF OwnerInv
    <2>5. \A g, h \in Flows : lookup'[g] = lookup'[h] /\ lookup'[g] # None => g = h
      BY <2>2, <2>4 DEF OwnerInv
    <2>6. \A g \in Flows : lookup'[g] \notin free'
      BY <2>2, <2>3 DEF OwnerInv
    <2>7. ASSUME NEW j \in Ids, j \notin free'
          PROVE  \E g \in Flows : lookup'[g] = j
      <3>1. CASE j = i
        BY <2>2, <3>1
      <3>2. CASE j # i
        <4>1. PICK g \in Flows : lookup[g] = j
          BY <2>3, <2>7, <3>2 DEF OwnerInv
        <4>2. g # f
          BY <1>4, <4>1, NoneNot
        <4> QED
          BY <2>2, <4>1, <4>2
      <3> QED
        BY <3>1, <3>2
    <2> QED
      BY <2>5, <2>6, <2>7 DEF OwnerInv
  <1> QED
    BY <1>3, <1>4

LEMMA CleanOwner ==
  ASSUME TypeInv, OwnerInv, Clean
  PROVE  OwnerInv'
  <1> DEFINE i == dpc.id
             f == node[i].flow
  <1>1. lookup \in [Flows -> Ids \cup {None}] /\ i \in Ids
        /\ f \in Flows \cup {None}
    BY Types DEF Clean, TypeInv, DpcBusy
  <1>2. CASE f # None /\ lookup[f] = i
    <2>1. f \in Flows /\ lookup' = [lookup EXCEPT ![f] = None]
          /\ free' = free \cup {i}
      BY <1>1, <1>2 DEF Clean
    <2> HIDE DEF f, i
    <2>2. \A g \in Flows : lookup'[g] = IF g = f THEN None ELSE lookup[g]
      BY <1>1, <2>1
    <2>3. \A g \in Flows : lookup[g] = i => g = f
      BY <1>1, <1>2, <2>1, NoneNot DEF OwnerInv
    <2>4. \A g, h \in Flows : lookup'[g] = lookup'[h] /\ lookup'[g] # None => g = h
      BY <2>2 DEF OwnerInv
    <2>5. \A g \in Flows : lookup'[g] \notin free'
      <3>1. None \notin free /\ None # i
        BY <1>1, NoneNot DEF TypeInv
      <3> QED
        BY <2>1, <2>2, <2>3, <3>1 DEF OwnerInv
    <2>6. ASSUME NEW j \in Ids, j \notin free'
          PROVE  \E g \in Flows : lookup'[g] = j
      <3>1. PICK g \in Flows : lookup[g] = j
        BY <2>1, <2>6 DEF OwnerInv
      <3>2. g # f
        BY <1>2, <2>1, <2>6, <3>1
      <3> QED
        BY <2>2, <3>1, <3>2
    <2> QED
      BY <2>4, <2>5, <2>6 DEF OwnerInv
  <1>3. CASE ~(f # None /\ lookup[f] = i)
    BY <1>3 DEF Clean, OwnerInv
  <1> QED
    BY <1>2, <1>3

LEMMA NextOwner == TypeInv /\ OwnerInv /\ [Next]_vars => OwnerInv'
  <1> SUFFICES ASSUME TypeInv, OwnerInv, [Next]_vars PROVE OwnerInv'
    OBVIOUS
  <1>1. CASE UNCHANGED <<lookup, free>>
    BY <1>1 DEF OwnerInv
  <1>2. CASE \E f \in Flows : Lookup(f)
    BY <1>2, LookupOwner
  <1>3. CASE Clean
    BY <1>3, CleanOwner
  <1>4. ASSUME NEW f \in Flows, TxStep(f) \/ LinkUp(f) \/ LinkDown(f)
        PROVE  UNCHANGED <<lookup, free>>
    BY <1>4 DEF TxStep, CreateSend, CreateClear, CreateMark, Activate, Post,
         Enqueue, Schedule, LinkUp, LinkDown, table
  <1>5. ASSUME DpcStep, ~Clean
        PROVE  UNCHANGED <<lookup, free>>
    BY <1>5 DEF DpcStep, DeleteEnd, DeleteSend, DeleteMark, Response, Push,
         CleanQueue, CleanActive, Reset, DeleteRequest, Walk, table
  <1>6. ASSUME DongleStep
        PROVE  UNCHANGED <<lookup, free>>
    BY <1>6 DEF DongleStep, CreateRqst, DeleteRqst, Deal, table
  <1>7. CASE UNCHANGED vars
    BY <1>1, <1>7 DEF vars, table
  <1> QED
    BY <1>1, <1>2, <1>3, <1>4, <1>5, <1>6, <1>7 DEF Next

LEMMA OwnerCount ==
  ASSUME TypeInv, OwnerInv
  PROVE  IdsConserved
  <1> SUFFICES ASSUME NEW i \in Ids
               PROVE  Cardinality({f \in Flows : lookup[f] = i})
                        = IF i \in free THEN 0 ELSE 1
    BY DEF IdsConserved
  <1>1. CASE i \in free
    <2>1. {f \in Flows : lookup[f] = i} = {}
      BY <1>1 DEF OwnerInv
    <2> QED
      BY <1>1, <2>1, FS_EmptySet
  <1>2. CASE i \notin free
    <2>1. PICK f \in Flows : lookup[f] = i
      BY <1>2 DEF OwnerInv
    <2>2. {g \in Flows : lookup[g] = i} = {f}
      BY <2>1, NoneNot DEF OwnerInv
    <2> QED
      BY <1>2, <2>2, FS_Singleton
  <1> QED
    BY <1>1, <1>2

LEMMA TypeImplied == TypeInv => TypeOK
  <1> SUFFICES ASSUME TypeInv PROVE TypeOK
    OBVIOUS
  <1>1. /\ link \in [Flows -> BOOLEAN]
        /\ lookup \in [Flows -> Ids \cup {None}] /\ free \subseteq Ids
        /\ list \subseteq Ids
    BY DEF TypeInv
  <1>2. ASSUME NEW i \in Ids
        PROVE  /\ node[i].active \in BOOLEAN /\ node[i].prot \in BOOLEAN
               /\ node[i].status \in {OPEN, PENDING, CLOSED, DELETE_PENDING}
               /\ node[i].flow \in Flows \cup {None} /\ node[i].queue \in Seq(Flows)
    <2>1. node[i] \in Node
      BY Types
    <2> QED
      BY ONLY <2>1 DEF Node, Status
  <1>3. ASSUME NEW i \in Ids
        PROVE  /\ tcm_w[i] \in Idx /\ mem[i] \in [Idx -> Flows \cup {None}]
               /\ ring[i] \in [inited : BOOLEAN, flow : Flows \cup {None}, r : Idx,
                               deleting : BOOLEAN]
    BY DEF TypeInv, Ring
  <1>4. \A f \in Flows : tx[f].id \in Ids \cup {None}
    BY Types DEF IdleTx
  <1>5. h2d \in Seq([type : {"create", "delete"}, id : Ids, flow : Flows])
    BY DEF TypeInv, ReqMsg, Type
  <1>6. \A k \in 1..Len(d2h) : d2h[k].id \in Ids
    BY Types DEF RspMsg
  <1> QED
    BY <1>1, <1>2, <1>3, <1>4, <1>5, <1>6 DEF TypeOK

(* Every variable keeps its type: in particular the DPC and every sender   *)
(* works on a ring that exists, and indices stay inside the ring.          *)
THEOREM TypeCorrect == Spec => []TypeOK
  BY InitType, NextType, TypeImplied, PTL DEF Spec

(* dhd_flowid_alloc and dhd_flowid_free: no id is lost and none has two    *)
(* owners, with or without the perimeter lock.                             *)
THEOREM IdsSafe == Spec => []IdsConserved
  BY InitType, NextType, InitOwner, NextOwner, OwnerCount, PTL DEF Spec

-----------------------------------------------------------------------------
(* Adding to an index, at most once round.                                 *)
LEMMA ModStep ==
  ASSUME NEW a \in Nat, a < 2 * MaxItem
  PROVE  a % MaxItem = IF a < MaxItem THEN a ELSE a - MaxItem
  <1> DEFINE q == IF a < MaxItem THEN 0 ELSE 1
             b == IF a < MaxItem THEN a ELSE a - MaxItem
  <1>1. MaxItem \in Nat \ {0}
    BY RingSize
  <1>2. b \in 0..MaxItem-1 /\ q \in Int /\ a = MaxItem * q + b
    BY <1>1
  <1> QED
    BY <1>1, <1>2

(* The slots of the window after k more are written.                       *)
LEMMA WindowGrows ==
  ASSUME NEW r \in Idx, NEW w \in Idx, NEW s \in Idx, NEW k \in Nat,
         k <= WRITE_SPACE_AVAIL(r, w, MaxItem),
         NTXPACTIVE(r, s, MaxItem) < NTXPACTIVE(r, (w + k) % MaxItem, MaxItem)
  PROVE  \/ NTXPACTIVE(r, s, MaxItem) < NTXPACTIVE(r, w, MaxItem)
         \/ NTXPACTIVE(w, s, MaxItem) < k
  <1>1. /\ MaxItem \in Nat /\ MaxItem >= 2
        /\ r \in 0..MaxItem-1 /\ w \in 0..MaxItem-1 /\ s \in 0..MaxItem-1
    BY RingSize DEF Idx
  <1>2. k < MaxItem
    BY <1>1 DEF WRITE_SPACE_AVAIL, NTXPACTIVE
  <1>3. (w + k) % MaxItem = IF w + k < MaxItem THEN w + k ELSE w + k - MaxItem
    BY <1>1, <1>2, ModStep
  <1> QED
    BY <1>1, <1>2, <1>3 DEF WRITE_SPACE_AVAIL, NTXPACTIVE

(* The slots of the window after one is read.                              *)
LEMMA WindowShrinks ==
  ASSUME NEW r \in Idx, NEW w \in Idx, NEW s \in Idx, r # w,
         LET n == NEXTTXP(r, MaxItem)
         IN  NTXPACTIVE(n, s, MaxItem) < NTXPACTIVE(n, w, MaxItem)
  PROVE  NTXPACTIVE(r, s, MaxItem) < NTXPACTIVE(r, w, MaxItem)
  BY RingSize DEF Idx, NTXPACTIVE, NEXTTXP

LEMMA NextIndex ==
  ASSUME NEW r \in Idx PROVE NEXTTXP(r, MaxItem) \in Idx
  BY RingSize DEF NEXTTXP, Idx

-----------------------------------------------------------------------------
LEMMA Appended ==
  ASSUME NEW S, NEW q \in Seq(S), NEW m
  PROVE  /\ Len(q) \in Nat /\ Len(Append(q, m)) = Len(q) + 1
         /\ Append(q, m)[Len(q) + 1] = m
         /\ \A k \in 1..Len(q) : Append(q, m)[k] = q[k]
  OBVIOUS

(* Sending a message, and taking the oldest.                               *)
LEMMA MailSent ==
  ASSUME NEW S, NEW q \in Seq(S), NEW m
  PROVE  /\ \A i : i # m.id /\ NoMail(q, i) => NoMail(Append(q, m), i)
         /\ \A n : n.id # m.id /\ OnlyMail(q, n) => OnlyMail(Append(q, m), n)
         /\ NoMail(q, m.id) => OnlyMail(Append(q, m), m)
  <1>1. /\ Len(q) \in Nat /\ Len(Append(q, m)) = Len(q) + 1
        /\ Append(q, m)[Len(q) + 1] = m
        /\ \A k \in 1..Len(q) : Append(q, m)[k] = q[k]
    BY Appended
  <1>2. ASSUME NEW i, i # m.id, NoMail(q, i) PROVE NoMail(Append(q, m), i)
    BY <1>1, <1>2 DEF NoMail
  <1>3. ASSUME NEW n, n.id # m.id, OnlyMail(q, n) PROVE OnlyMail(Append(q, m), n)
    <2>1. PICK k \in 1..Len(q) :
            q[k] = n /\ \A l \in 1..Len(q) : q[l].id = n.id => l = k
      BY <1>3 DEF OnlyMail
    <2>2. \A l \in 1..Len(q) + 1 : Append(q, m)[l].id = n.id => l = k
      BY <1>1, <1>3, <2>1
    <2>3. k \in 1..Len(q) + 1 /\ Append(q, m)[k] = n
      BY <1>1, <2>1
    <2> QED
      BY <1>1, <2>2, <2>3 DEF OnlyMail
  <1>4. ASSUME NoMail(q, m.id) PROVE OnlyMail(Append(q, m), m)
    <2>1. \A l \in 1..Len(q) + 1 : Append(q, m)[l].id = m.id => l = Len(q) + 1
      BY <1>1, <1>4 DEF NoMail
    <2>2. Len(q) + 1 \in 1..Len(q) + 1
      BY <1>1
    <2> QED
      BY <1>1, <2>1, <2>2 DEF OnlyMail
  <1> QED
    BY <1>2, <1>3, <1>4

LEMMA MailTaken ==
  ASSUME NEW S, NEW q \in Seq(S), q # <<>>
  PROVE  /\ \A i : NoMail(q, i) => NoMail(Tail(q), i)
         /\ \A n : q[1].id # n.id /\ OnlyMail(q, n) => OnlyMail(Tail(q), n)
         /\ \A n : q[1].id = n.id /\ OnlyMail(q, n)
              => q[1] = n /\ NoMail(Tail(q), n.id)
         /\ ~NoMail(q, q[1].id)
  <1>1. /\ Len(q) \in Nat \ {0} /\ Len(Tail(q)) = Len(q) - 1
        /\ \A k \in 1..Len(q) - 1 : Tail(q)[k] = q[k + 1]
    BY EmptySeq, HeadTailProperties
  <1>2. ASSUME NEW i, NoMail(q, i) PROVE NoMail(Tail(q), i)
    BY <1>1, <1>2 DEF NoMail
  <1>3. ASSUME NEW n, q[1].id # n.id, OnlyMail(q, n) PROVE OnlyMail(Tail(q), n)
    <2>1. PICK k \in 1..Len(q) :
            q[k] = n /\ \A l \in 1..Len(q) : q[l].id = n.id => l = k
      BY <1>3 DEF OnlyMail
    <2>2. k - 1 \in 1..Len(q) - 1 /\ Tail(q)[k - 1] = n
      BY <1>1, <1>3, <2>1
    <2>3. \A l \in 1..Len(q) - 1 : Tail(q)[l].id = n.id => l = k - 1
      <3> SUFFICES ASSUME NEW l \in 1..Len(q) - 1, Tail(q)[l].id = n.id
                   PROVE  l = k - 1
        OBVIOUS
      <3>1. l + 1 \in 1..Len(q) /\ q[l + 1].id = n.id
        BY <1>1
      <3>2. l + 1 = k
        BY <2>1, <3>1
      <3> QED
        BY <3>2
    <2> QED
      BY <1>1, <2>2, <2>3 DEF OnlyMail
  <1>4. ASSUME NEW n, q[1].id = n.id, OnlyMail(q, n)
        PROVE  q[1] = n /\ NoMail(Tail(q), n.id)
    <2>1. PICK k \in 1..Len(q) :
            q[k] = n /\ \A l \in 1..Len(q) : q[l].id = n.id => l = k
      BY <1>4 DEF OnlyMail
    <2>2. k = 1
      BY <1>1, <1>4, <2>1
    <2>3. ASSUME NEW l \in 1..Len(q) - 1 PROVE Tail(q)[l].id # n.id
      <3>1. l + 1 \in 1..Len(q) /\ l + 1 # 1
        BY <1>1
      <3> QED
        BY <1>1, <2>1, <2>2, <3>1
    <2> QED
      BY <1>1, <2>1, <2>2, <2>3 DEF NoMail
  <1>5. ~NoMail(q, q[1].id)
    BY <1>1 DEF NoMail
  <1> QED
    BY <1>2, <1>3, <1>4, <1>5

-----------------------------------------------------------------------------
(* The build with the perimeter lock.                                      *)
Serial == "threads" \notin Races

LEMMA InitLock == Init => LockInv /\ DpcInv
  BY DEF Init, LockInv, DpcInv, IdleTx, IdleDpc

LEMMA TxAlone ==
  ASSUME Serial, TypeInv, LockInv, NEW f \in Flows, Lookup(f) \/ TxStep(f)
  PROVE  /\ dpc.pc = "idle" /\ dpc' = dpc
         /\ \A g \in Flows \ {f} : tx[g].pc = "idle" /\ tx'[g] = tx[g]
  <1>1. TxTurn(f) /\ dpc' = dpc
    BY DEF Lookup, TxStep, CreateSend, CreateClear, CreateMark, Activate, Post,
       Enqueue, Schedule
  <1>2. dpc.pc = "idle" /\ \A g \in Flows \ {f} : tx[g].pc = "idle"
    BY <1>1 DEF TxTurn, Undisturbed, Serial
  <1>3. \E n : tx' = [tx EXCEPT ![f] = n]
    BY DEF Lookup, TxStep, CreateSend, CreateClear, CreateMark, Activate, Post,
       Enqueue, Schedule, Go
  <1>4. \A g \in Flows \ {f} : tx'[g] = tx[g]
    BY <1>3 DEF TypeInv
  <1> QED
    BY <1>1, <1>2, <1>4

LEMMA DpcAlone ==
  ASSUME Serial, DpcStep \/ \E f \in Flows : LinkUp(f) \/ LinkDown(f)
  PROVE  tx' = tx /\ \A f \in Flows : tx[f].pc = "idle"
  <1>1. DpcTurn /\ tx' = tx
    BY DEF DpcStep, LinkUp, LinkDown, DeleteEnd, DeleteSend, DeleteMark,
       Response, Push, Clean, CleanQueue, CleanActive, Reset, DeleteRequest, Walk
  <1> QED
    BY <1>1 DEF DpcTurn, Undisturbed, Serial

LEMMA DongleAlone ==
  ASSUME DongleStep
  PROVE  /\ UNCHANGED <<table, tx, dpc, slots>>
  BY DEF DongleStep, CreateRqst, DeleteRqst, Deal

LEMMA NextLock ==
  ASSUME Serial, TypeInv, LockInv, DpcInv, [Next]_vars
  PROVE  LockInv' /\ DpcInv'
  <1>1. CASE \E f \in Flows : Lookup(f) \/ TxStep(f)
    <2>1. PICK f \in Flows : Lookup(f) \/ TxStep(f)
      BY <1>1
    <2>2. /\ dpc.pc = "idle" /\ dpc' = dpc
          /\ \A g \in Flows \ {f} : tx[g].pc = "idle" /\ tx'[g] = tx[g]
      BY <2>1, TxAlone
    <2> QED
      BY <2>2 DEF LockInv, DpcInv
  <1>2. CASE DpcStep \/ \E f \in Flows : LinkUp(f) \/ LinkDown(f)
    <2>1. tx' = tx /\ \A f \in Flows : tx[f].pc = "idle"
      BY <1>2, DpcAlone
    <2>2. DpcInv'
      <3>1. CASE dpc' = dpc
        BY <3>1 DEF DpcInv
      <3>2. CASE \E pc : DpcGo(pc)
        <4>1. PICK pc : DpcGo(pc)
          BY <3>2
        <4>2. dpc \in [pc : DpcPc, id : Ids \cup {None}, del : BOOLEAN,
                       todo : SUBSET Ids, flow : Flows \cup {None}]
          BY DEF TypeInv
        <4> QED
          BY ONLY <4>1, <4>2 DEF DpcInv, DpcGo
      <3>3. CASE dpc'.pc # "idle"
        BY <3>3 DEF DpcInv
      <3>4. ASSUME NEW f \in Flows, LinkDown(f) PROVE dpc'.pc # "idle"
        BY <3>4 DEF LinkDown, TypeInv
      <3>5. ASSUME NEW i \in Ids, DeleteRequest(i) PROVE dpc'.pc # "idle"
        <4>1. /\ dpc.pc = "delete"
              /\ \/ dpc' = [dpc EXCEPT !.todo = @ \ {i}, !.pc = "send", !.id = i]
                 \/ dpc' = [dpc EXCEPT !.todo = @ \ {i}]
          BY <3>5 DEF DeleteRequest
        <4> QED
          BY <4>1 DEF TypeInv
      <3>6. ASSUME Response PROVE dpc' = dpc \/ dpc'.pc # "idle"
        BY <3>6 DEF Response, TypeInv
      <3> QED
        BY <1>2, <3>1, <3>2, <3>3, <3>4, <3>5, <3>6 DEF DpcStep, LinkUp,
           DeleteEnd, DeleteSend, DeleteMark, Push, Clean, CleanQueue,
           CleanActive, Reset, Walk
    <2> QED
      BY <2>1, <2>2 DEF LockInv
  <1>3. CASE DongleStep
    BY <1>3, DongleAlone DEF LockInv, DpcInv
  <1>4. CASE UNCHANGED vars
    BY <1>4 DEF vars, LockInv, DpcInv
  <1> QED
    BY <1>1, <1>2, <1>3, <1>4 DEF Next

-----------------------------------------------------------------------------
(* A step that keeps what the stage of ring j looks at keeps the stage.    *)
MailKept(j) == /\ Quiet(j) => Quiet(j)'
               /\ \A t, f : Requested(j, t, f) => Requested(j, t, f)'
               /\ \A t, s : Answered(j, t, s) => Answered(j, t, s)'

DongleKept(j) == /\ ring'[j] = ring[j] /\ tcm_w'[j] = tcm_w[j] /\ mem'[j] = mem[j]
                 /\ MailKept(j)

TxKept(j) == \A g \in Flows : /\ tx'[g].id = j <=> tx[g].id = j
                              /\ tx[g].id = j => tx'[g] = tx[g]

DpcKept(j) == /\ DpcOn(j)' <=> DpcOn(j)
              /\ DpcOn(j) => dpc'.pc = dpc.pc /\ dpc'.flow = dpc.flow

HostKept(j) == /\ node'[j] = node[j]
               /\ j \in free' <=> j \in free
               /\ j \in list' <=> j \in list
               /\ \A g \in Flows : lookup'[g] = j <=> lookup[g] = j

LEMMA DongleFrame ==
  ASSUME NEW j \in Ids, NEW f \in Flows, DongleKept(j)
  PROVE  /\ Quiet(j) => Quiet(j)'
         /\ Unused(j) => Unused(j)'
         /\ Up(j, f) => Up(j, f)'
         /\ Owned(j, f) => Owned(j, f)'
         /\ Creating(j, f) => Creating(j, f)'
         /\ Deleting(j, f) => Deleting(j, f)'
         /\ Requested(j, "create", f) => Requested(j, "create", f)'
         /\ ring'[j].deleting = ring[j].deleting
  <1>1. /\ Unused(j) => Unused(j)'
        /\ Up(j, f) => Up(j, f)'
        /\ ring'[j].deleting = ring[j].deleting
    BY DEF DongleKept, Unused, Up
  <1>2. Owned(j, f) => Owned(j, f)'
    BY DEF DongleKept, Owned
  <1>3. MailKept(j)
    BY DEF DongleKept
  <1>4. /\ Quiet(j) => Quiet(j)'
        /\ \A t, g : Requested(j, t, g) => Requested(j, t, g)'
        /\ \A t, s : Answered(j, t, s) => Answered(j, t, s)'
    BY <1>3 DEF MailKept
  <1>5. Creating(j, f) => Creating(j, f)'
    BY <1>1, <1>4 DEF Creating
  <1>6. Deleting(j, f) => Deleting(j, f)'
    BY <1>1, <1>2, <1>4 DEF Deleting
  <1> QED
    BY <1>1, <1>2, <1>4, <1>5, <1>6

LEMMA TxFrame ==
  ASSUME NEW j \in Ids, NEW f \in Flows, NEW pcs, TxKept(j)
  PROVE  /\ TxAt(j, f, pcs) => TxAt(j, f, pcs)'
         /\ ~TxOn(j) => ~TxOn(j)'
         /\ tx[f].id = j => tx'[f] = tx[f]
  BY DEF TxKept, TxAt, TxOn

LEMMA Framed ==
  ASSUME NEW j \in Ids, Stage(j),
         DongleKept(j), TxKept(j), DpcKept(j), HostKept(j)
  PROVE  Stage(j)'
  <1>1. /\ node'[j] = node[j]
        /\ j \in free' <=> j \in free
        /\ j \in list' <=> j \in list
        /\ \A g \in Flows : lookup'[g] = j <=> lookup[g] = j
    BY DEF HostKept
  <1>2. /\ DpcOn(j)' <=> DpcOn(j)
        /\ DpcOn(j) => dpc'.pc = dpc.pc /\ dpc'.flow = dpc.flow
    BY DEF DpcKept
  <1>3. /\ Quiet(j) => Quiet(j)'
        /\ Unused(j) => Unused(j)'
    BY DEF DongleKept, MailKept, Unused
  <1>4. ~TxOn(j) => ~TxOn(j)'
    BY DEF TxKept, TxOn
  <1>5. CASE Free(j)
    <2>1. Free(j)'
      BY <1>1, <1>2, <1>3, <1>4, <1>5 DEF Free
    <2> QED
      BY <2>1 DEF Stage
  <1>6. CASE Released(j)
    <2>1. Released(j)'
      BY <1>1, <1>2, <1>3, <1>4, <1>6 DEF Released
    <2> QED
      BY <2>1 DEF Stage
  <1>7. ASSUME NEW f \in Flows, Held(j, f), Starting(j, f) \/ Working(j, f)
        PROVE  Stage(j)'
    <2>1. Held(j, f)'
      BY <1>1, <1>7 DEF Held
    <2>2. CASE Starting(j, f)
      <3>1. Starting(j, f)'
        BY <1>1, <1>2, <2>2, DongleFrame, TxFrame DEF Starting
      <3> QED
        BY <2>1, <3>1 DEF Stage
    <2>3. CASE Working(j, f)
      <3>1. QueueOf(j, f)'
        BY <1>1, <2>3 DEF Working, QueueOf
      <3>2. ASSUME Pending(j, f) PROVE Pending(j, f)'
        BY <1>1, <1>2, <3>2, DongleFrame, TxFrame DEF Pending
      <3>3. ASSUME Open(j, f) PROVE Open(j, f)'
        BY <1>1, <1>2, <3>3, DongleFrame, TxFrame DEF Open
      <3>4. ASSUME Going(j, f) PROVE Going(j, f)'
        BY <1>1, <1>2, <3>4, DongleFrame, TxFrame DEF Going
      <3>5. ASSUME Cleaning(j, f) PROVE Cleaning(j, f)'
        BY <1>1, <1>2, <1>3, <1>4, <3>5 DEF Cleaning
      <3>6. Working(j, f)'
        BY <1>1, <2>3, <3>1, <3>2, <3>3, <3>4, <3>5 DEF Working
      <3> QED
        BY <2>1, <3>6 DEF Stage
    <2> QED
      BY <1>7, <2>2, <2>3
  <1> QED
    BY <1>5, <1>6, <1>7 DEF Stage

-----------------------------------------------------------------------------
(* What a message about one ring does to the mail of the others.           *)
LEMMA SameMail ==
  ASSUME UNCHANGED chan
  PROVE  \A j : MailKept(j)
  BY DEF chan, MailKept, Quiet, Requested, Answered

LEMMA MailStep ==
  ASSUME NEW S, NEW q \in Seq(S), NEW p, NEW i,
         \/ p = q
         \/ \E m : m.id = i /\ p = Append(q, m)
         \/ q # <<>> /\ q[1].id = i /\ p = Tail(q)
  PROVE  /\ \A j : j # i /\ NoMail(q, j) => NoMail(p, j)
         /\ \A n : n.id # i /\ OnlyMail(q, n) => OnlyMail(p, n)
  <1>1. CASE p = q
    BY <1>1
  <1>2. CASE \E m : m.id = i /\ p = Append(q, m)
    <2>1. PICK m : m.id = i /\ p = Append(q, m)
      BY <1>2
    <2>2. /\ \A j : j # m.id /\ NoMail(q, j) => NoMail(Append(q, m), j)
          /\ \A n : n.id # m.id /\ OnlyMail(q, n) => OnlyMail(Append(q, m), n)
      BY MailSent
    <2> QED
      BY <2>1, <2>2
  <1>3. CASE q # <<>> /\ q[1].id = i /\ p = Tail(q)
    BY <1>3, MailTaken
  <1> QED
    BY <1>1, <1>2, <1>3

LEMMA MailOthers ==
  ASSUME TypeInv, NEW i \in Ids,
         \/ h2d' = h2d
         \/ \E m : m.id = i /\ h2d' = Append(h2d, m)
         \/ h2d # <<>> /\ h2d[1].id = i /\ h2d' = Tail(h2d),
         \/ d2h' = d2h
         \/ \E m : m.id = i /\ d2h' = Append(d2h, m)
         \/ d2h # <<>> /\ d2h[1].id = i /\ d2h' = Tail(d2h)
  PROVE  \A j : j # i => MailKept(j)
  <1>1. h2d \in Seq(ReqMsg) /\ d2h \in Seq(RspMsg)
    BY DEF TypeInv
  <1>2. /\ \A j : j # i /\ NoMail(h2d, j) => NoMail(h2d', j)
        /\ \A n : n.id # i /\ OnlyMail(h2d, n) => OnlyMail(h2d', n)
    BY <1>1, MailStep
  <1>3. /\ \A j : j # i /\ NoMail(d2h, j) => NoMail(d2h', j)
        /\ \A n : n.id # i /\ OnlyMail(d2h, n) => OnlyMail(d2h', n)
    BY <1>1, MailStep
  <1> SUFFICES ASSUME NEW j, j # i PROVE MailKept(j)
    OBVIOUS
  <1>4. Quiet(j) => Quiet(j)'
    BY <1>2, <1>3 DEF Quiet
  <1>5. ASSUME NEW t, NEW f, Requested(j, t, f) PROVE Requested(j, t, f)'
    BY <1>2, <1>3, <1>5 DEF Requested
  <1>6. ASSUME NEW t, NEW s, Answered(j, t, s) PROVE Answered(j, t, s)'
    BY <1>2, <1>3, <1>6 DEF Answered
  <1> QED
    BY <1>4, <1>5, <1>6 DEF MailKept

-----------------------------------------------------------------------------
(* A sender's step is about its ring: the others keep their stage.         *)
LEMMA TxStage ==
  ASSUME IInv, NEW f \in Flows, tx[f].pc # "idle"
  PROVE  /\ tx[f].id \in Ids /\ Held(tx[f].id, f) /\ Stage(tx[f].id)
         /\ tx[f].pc \in {"create", "clear", "mark", "activate"}
              => Starting(tx[f].id, f)
         /\ tx[f].pc \in {"post", "enqueue", "schedule"}
              => /\ Working(tx[f].id, f)
                 /\ \/ Pending(tx[f].id, f) \/ Open(tx[f].id, f)
                    \/ Going(tx[f].id, f)
  <1> DEFINE i == tx[f].id
  <1>1. i \in Ids /\ Stage(i)
    BY Types DEF IInv
  <1>2. ~Free(i) /\ ~Released(i)
    BY DEF Free, Released, TxOn
  <1>3. PICK g \in Flows : Held(i, g) /\ (Starting(i, g) \/ Working(i, g))
    BY <1>1, <1>2 DEF Stage
  <1>4. ASSUME Starting(i, g)
        PROVE  g = f /\ tx[f].pc \in {"create", "clear", "mark", "activate"}
    BY <1>4 DEF Starting, TxAt
  <1>5. ASSUME Working(i, g)
        PROVE  /\ g = f /\ tx[f].pc \in {"post", "enqueue", "schedule"}
               /\ Pending(i, g) \/ Open(i, g) \/ Going(i, g)
    <2>1. ~Cleaning(i, g)
      BY DEF Cleaning, TxOn
    <2> QED
      BY <1>5, <2>1 DEF Working, Pending, Open, Going, TxAt
  <1> QED
    BY <1>1, <1>3, <1>4, <1>5

LEMMA TxOthers ==
  ASSUME Serial, IInv, NEW f \in Flows, TxStep(f),
         NEW j \in Ids, j # tx[f].id
  PROVE  Stage(j)'
  <1> DEFINE i == tx[f].id
  <1>1. /\ dpc' = dpc /\ \A g \in Flows \ {f} : tx'[g] = tx[g]
        /\ tx[f].pc # "idle"
    BY TxAlone DEF IInv, TxStep, CreateSend, CreateClear, CreateMark, Activate,
       Post, Enqueue, Schedule
  <1>2. i \in Ids /\ Stage(j) /\ TypeInv
    BY <1>1, TxStage DEF IInv
  <1>3. tx'[f].id \in {i, None}
    <2>1. tx[f] \in [pc : TxPc, id : Ids]
      BY <1>1, <1>2, Types
    <2>2. \E pc : Go(f, pc)
      BY DEF TxStep, CreateSend, CreateClear, CreateMark, Activate,
         Post, Enqueue, Schedule
    <2> QED
      BY <1>2, <2>1, <2>2 DEF Go, TypeInv, IdleTx
  <1>4. TxKept(j)
    BY <1>1, <1>3, NoneNot DEF TxKept
  <1>5. DpcKept(j)
    BY <1>1 DEF DpcKept, DpcOn
  <1>6. /\ lookup' = lookup /\ free' = free
        /\ \/ list' = list
           \/ list' = list \cup {i}
        /\ ring' = ring /\ d2h' = d2h
        /\ \/ h2d' = h2d
           \/ h2d' = Append(h2d, [type |-> "create", id |-> i, flow |-> f])
    BY DEF TxStep, CreateSend, CreateClear, CreateMark, Activate, Post,
       Enqueue, Schedule, table, chan
  <1>7. node'[j] = node[j] /\ tcm_w'[j] = tcm_w[j] /\ mem'[j] = mem[j]
    <2>1. /\ node \in [Ids -> Node] /\ DOMAIN tcm_w = Ids /\ DOMAIN mem = Ids
          /\ j # i
      BY <1>2 DEF TypeInv
    <2>2. CASE CreateSend(f) \/ CreateClear(f) \/ CreateMark(f)
      BY ONLY <2>1, <2>2, j \in Ids DEF CreateSend, CreateClear, CreateMark, table, slots
    <2>3. CASE Activate(f) \/ Post(f) \/ Enqueue(f)
      BY ONLY <2>1, <2>3, j \in Ids DEF Activate, Post, Enqueue, table, slots
    <2>4. CASE Schedule(f)
      BY ONLY <2>1, <2>4, j \in Ids DEF Schedule, ScheduleQueue, table, slots
    <2> QED
      BY <2>2, <2>3, <2>4 DEF TxStep
  <1>8. HostKept(j)
    BY <1>6, <1>7 DEF HostKept
  <1>9. MailKept(j)
    <2>1. \/ h2d' = h2d
          \/ \E m : m.id = i /\ h2d' = Append(h2d, m)
      BY <1>6
    <2> QED
      BY <1>2, <1>6, <2>1, MailOthers
  <1>10. DongleKept(j)
    BY <1>6, <1>7, <1>9 DEF DongleKept
  <1> QED
    BY <1>2, <1>4, <1>5, <1>8, <1>10, Framed

(* A sender's step, for its own ring.                                      *)
LEMMA TxSelf ==
  ASSUME Serial, IInv, NEW f \in Flows, TxStep(f), NEW i, i = tx[f].id,
         NEW pc \in TxPc \cup {"idle"}, Go(f, pc)
  PROVE  /\ i \in Ids /\ Held(i, f)
         /\ ~DpcOn(i) /\ ~DpcOn(i)'
         /\ pc # "idle" => tx'[f].pc = pc /\ tx'[f].id = i
         /\ \A pcs : pc \in pcs \cup {"idle"} => TxAt(i, f, pcs)'
         /\ node'[i].flow = node[i].flow => Held(i, f)'
         /\ UNCHANGED ring
         /\ UNCHANGED h2d => MailKept(i)
  <1>1. /\ dpc.pc = "idle" /\ dpc' = dpc
        /\ \A g \in Flows \ {f} : tx[g].pc = "idle" /\ tx'[g] = tx[g]
        /\ tx[f].pc # "idle" /\ TypeInv
    BY TxAlone DEF IInv, TxStep, CreateSend, CreateClear, CreateMark, Activate,
       Post, Enqueue, Schedule
  <1>2. i \in Ids /\ Held(i, f)
    BY <1>1, TxStage
  <1>3. ~DpcOn(i) /\ ~DpcOn(i)'
    BY <1>1 DEF DpcOn, DpcBusy
  <1>4. \A g \in Flows \ {f} : tx'[g].id # i
    BY <1>1, <1>2, Types, NoneNot DEF IdleTx
  <1>5. /\ pc = "idle" => tx'[f] = IdleTx
        /\ pc # "idle" => tx'[f] = [pc |-> pc, id |-> i]
    BY <1>1, GoType
  <1>6. /\ pc # "idle" => tx'[f].pc = pc /\ tx'[f].id = i
        /\ pc = "idle" => tx'[f].id # i
    BY <1>2, <1>5, NoneNot DEF IdleTx
  <1>7. \A pcs : pc \in pcs \cup {"idle"} => TxAt(i, f, pcs)'
    BY <1>4, <1>6 DEF TxAt
  <1>8. /\ lookup' = lookup /\ free' = free /\ ring' = ring /\ d2h' = d2h
    BY DEF TxStep, CreateSend, CreateClear, CreateMark, Activate, Post,
       Enqueue, Schedule, table, chan
  <1>9. node'[i].flow = node[i].flow => Held(i, f)'
    BY <1>2, <1>8 DEF Held
  <1>10. UNCHANGED h2d => MailKept(i)
    BY <1>8, SameMail DEF chan
  <1> QED
    BY <1>2, <1>3, <1>6, <1>7, <1>8, <1>9, <1>10

(* What holds of a ring whose mail and dongle side stay.                   *)
LEMMA StillCreating ==
  ASSUME NEW i \in Ids, NEW f \in Flows, UNCHANGED ring, MailKept(i)
  PROVE  /\ Creating(i, f) => Creating(i, f)'
         /\ Unused(i) => Unused(i)'
         /\ Up(i, f) => Up(i, f)'
         /\ Quiet(i) => Quiet(i)'
         /\ Requested(i, "create", f) => Requested(i, "create", f)'
  <1>1. Unused(i) => Unused(i)'
    BY DEF Unused
  <1>2. Up(i, f) => Up(i, f)'
    BY DEF Up
  <1> QED
    BY <1>1, <1>2 DEF Creating, MailKept

LEMMA StillOwned ==
  ASSUME NEW i \in Ids, NEW f \in Flows, UNCHANGED <<ring, slots>>
  PROVE  Owned(i, f) => Owned(i, f)'
  BY DEF Owned, slots

LEMMA CreateSendSelf ==
  ASSUME Serial, IInv, NEW f \in Flows, CreateSend(f), NEW i, i = tx[f].id
  PROVE  Stage(i)'
  <1>1. TxStep(f) /\ Go(f, "clear") /\ tx[f].pc = "create"
    BY DEF TxStep, CreateSend
  <1>2. /\ i \in Ids /\ ~DpcOn(i)' /\ tx'[f].pc = "clear" /\ tx'[f].id = i
        /\ TxAt(i, f, {"create", "clear", "mark", "activate"})'
        /\ node'[i].flow = node[i].flow => Held(i, f)'
        /\ UNCHANGED ring
    BY <1>1, TxSelf DEF TxPc
  <1>3. Starting(i, f)
    BY <1>1, TxStage
  <1>4. Unused(i) /\ Quiet(i) /\ ~node[i].active /\ node[i].queue = <<>>
        /\ i \notin list
    BY <1>1, <1>3 DEF Starting
  <1>5. /\ node'[i].flow = node[i].flow /\ node'[i].active = node[i].active
        /\ node'[i].queue = node[i].queue /\ list' = list
    BY <1>2, Types DEF CreateSend, IInv, TypeInv, Node
  <1>6. Requested(i, "create", f)'
    <2> DEFINE m == [type |-> "create", id |-> i, flow |-> f]
    <2>1. /\ h2d \in Seq(ReqMsg) /\ h2d' = Append(h2d, m) /\ d2h' = d2h
          /\ NoMail(h2d, m.id) /\ NoMail(d2h, i)
      BY <1>4 DEF CreateSend, IInv, TypeInv, Quiet
    <2>2. OnlyMail(h2d', m)
      BY <2>1, MailSent
    <2> QED
      BY <2>1, <2>2 DEF Requested
  <1>7. Unused(i)'
    BY <1>2, <1>4 DEF Unused
  <1>8. Creating(i, f)'
    BY <1>6, <1>7 DEF Creating
  <1>9. Starting(i, f)'
    BY <1>2, <1>4, <1>5, <1>6, <1>7, <1>8 DEF Starting
  <1> QED
    BY <1>2, <1>5, <1>9 DEF Stage

LEMMA CreateClearSelf ==
  ASSUME Serial, IInv, NEW f \in Flows, CreateClear(f), NEW i, i = tx[f].id
  PROVE  Stage(i)'
  <1>1. TxStep(f) /\ Go(f, "mark") /\ tx[f].pc = "clear" /\ UNCHANGED <<table, chan>>
    BY DEF TxStep, CreateClear
  <1>2. /\ i \in Ids /\ ~DpcOn(i)' /\ tx'[f].pc = "mark" /\ tx'[f].id = i
        /\ TxAt(i, f, {"create", "clear", "mark", "activate"})'
        /\ node'[i].flow = node[i].flow => Held(i, f)'
        /\ UNCHANGED ring /\ (UNCHANGED h2d => MailKept(i))
    BY <1>1, TxSelf DEF TxPc
  <1>3. Starting(i, f)
    BY <1>1, TxStage
  <1>4. Creating(i, f)'
    BY <1>1, <1>2, <1>3, StillCreating DEF Starting, chan
  <1>5. Owned(i, f)'
    <2>1. SUFFICES ASSUME "index" \notin Races, NEW s \in Idx
                   PROVE  ~(NTXPACTIVE(ring'[i].r, s, MaxItem)
                              < NTXPACTIVE(ring'[i].r, tcm_w'[i], MaxItem))
      BY DEF Owned
    <2>2. ring'[i].r = 0
      BY <1>1, <1>2, <1>3, <2>1 DEF Starting, Unused
    <2>3. tcm_w'[i] = 0
      BY <1>2 DEF CreateClear, IInv, TypeInv
    <2> QED
      BY <2>2, <2>3, RingSize DEF NTXPACTIVE, Idx
  <1>6. Starting(i, f)'
    BY <1>1, <1>2, <1>3, <1>4, <1>5 DEF Starting, table
  <1> QED
    BY <1>1, <1>2, <1>6 DEF Stage, table

LEMMA CreateMarkSelf ==
  ASSUME Serial, IInv, NEW f \in Flows, CreateMark(f), NEW i, i = tx[f].id
  PROVE  Stage(i)'
  <1>1. TxStep(f) /\ Go(f, "activate") /\ tx[f].pc = "mark" /\ UNCHANGED <<chan, slots>>
    BY DEF TxStep, CreateMark
  <1>2. /\ i \in Ids /\ ~DpcOn(i)' /\ tx'[f].pc = "activate" /\ tx'[f].id = i
        /\ TxAt(i, f, {"create", "clear", "mark", "activate"})'
        /\ node'[i].flow = node[i].flow => Held(i, f)'
        /\ UNCHANGED ring /\ (UNCHANGED h2d => MailKept(i))
    BY <1>1, TxSelf DEF TxPc
  <1>3. Starting(i, f)
    BY <1>1, TxStage
  <1>4. Creating(i, f)' /\ Owned(i, f)'
    BY <1>1, <1>2, <1>3, StillCreating, StillOwned DEF Starting, chan
  <1>5. /\ node'[i].flow = node[i].flow /\ node'[i].active = node[i].active
        /\ node'[i].queue = node[i].queue /\ node'[i].status = PENDING
        /\ i \in list'
    BY <1>2, Types DEF CreateMark, IInv, TypeInv, Node
  <1>6. Starting(i, f)'
    BY <1>2, <1>3, <1>4, <1>5 DEF Starting
  <1> QED
    BY <1>2, <1>5, <1>6 DEF Stage

LEMMA ActivateSelf ==
  ASSUME Serial, IInv, NEW f \in Flows, Activate(f), NEW i, i = tx[f].id
  PROVE  Stage(i)'
  <1>1. TxStep(f) /\ Go(f, "post") /\ tx[f].pc = "activate" /\ UNCHANGED <<chan, slots>>
    BY DEF TxStep, Activate
  <1>2. /\ i \in Ids /\ ~DpcOn(i)' /\ TxAt(i, f, {"post", "enqueue"})'
        /\ node'[i].flow = node[i].flow => Held(i, f)'
        /\ UNCHANGED ring /\ (UNCHANGED h2d => MailKept(i))
    BY <1>1, TxSelf DEF TxPc
  <1>3. Starting(i, f)
    BY <1>1, TxStage
  <1>4. Creating(i, f)' /\ Owned(i, f)'
    BY <1>1, <1>2, <1>3, StillCreating, StillOwned DEF Starting, chan
  <1>5. /\ node'[i].flow = node[i].flow /\ node'[i].active
        /\ node'[i].queue = node[i].queue /\ node'[i].status = node[i].status
        /\ list' = list
    BY <1>2, Types DEF Activate, IInv, TypeInv, Node
  <1>6. Pending(i, f)' /\ i \in list'
    BY <1>1, <1>2, <1>3, <1>4, <1>5 DEF Starting, Pending
  <1>7. QueueOf(i, f)'
    BY <1>3, <1>5 DEF Starting, QueueOf
  <1> QED
    BY <1>2, <1>5, <1>6, <1>7 DEF Stage, Working

(* Pushing the queue of a ring whose packets are all of flow f.            *)
LEMMA ScheduleOwned ==
  ASSUME TypeInv, NEW i \in Ids, NEW f \in Flows, ScheduleQueue(i),
         UNCHANGED ring, Owned(i, f), QueueOf(i, f)
  PROVE  /\ Owned(i, f)' /\ QueueOf(i, f)'
         /\ node'[i].flow = node[i].flow /\ node'[i].active = node[i].active
         /\ node'[i].status = node[i].status
  <1> DEFINE q == node[i].queue
             off(s) == NTXPACTIVE(tcm_w[i], s, MaxItem)
  <1>1. PICK k \in 0..Len(q) :
           /\ k <= WRITE_SPACE_AVAIL(ring[i].r, tcm_w[i], MaxItem)
           /\ tcm_w' = [tcm_w EXCEPT ![i] = (@ + k) % MaxItem]
           /\ mem' = [mem EXCEPT ![i] = [s \in Idx |->
                IF off(s) < k THEN q[off(s) + 1] ELSE mem[i][s]]]
           /\ node' = [node EXCEPT ![i].queue = SubSeq(q, k + 1, Len(q))]
    BY ScheduleEffect
  <1>2. /\ q \in Seq(Flows) /\ tcm_w[i] \in Idx /\ ring[i].r \in Idx
        /\ Len(q) \in Nat /\ k \in Nat
        /\ node \in [Ids -> Node]
    BY Types DEF TypeInv
  <1>3. /\ tcm_w'[i] = (tcm_w[i] + k) % MaxItem
        /\ \A s \in Idx : mem'[i][s] = IF off(s) < k THEN q[off(s) + 1]
                                       ELSE mem[i][s]
    BY <1>1 DEF TypeInv
  <1>4. Owned(i, f)'
    <2>1. SUFFICES ASSUME "index" \notin Races, NEW s \in Idx,
                          NTXPACTIVE(ring[i].r, s, MaxItem)
                            < NTXPACTIVE(ring[i].r, tcm_w'[i], MaxItem)
                   PROVE  mem'[i][s] = f
      BY DEF Owned
    <2>2. CASE off(s) < k
      <3>1. off(s) \in Nat
        BY <1>2, RingSize DEF NTXPACTIVE, Idx
      <3>2. off(s) + 1 \in 1..Len(q)
        BY <1>1, <1>2, <2>2, <3>1
      <3> QED
        BY <1>3, <2>2, <3>2 DEF QueueOf
    <2>3. CASE ~(off(s) < k)
      <3>1. NTXPACTIVE(ring[i].r, s, MaxItem)
              < NTXPACTIVE(ring[i].r, tcm_w[i], MaxItem)
        BY <1>1, <1>2, <1>3, <2>1, <2>3, WindowGrows
      <3> QED
        BY <1>3, <2>1, <2>3, <3>1 DEF Owned
    <2> QED
      BY <2>2, <2>3
  <1> DEFINE p == SubSeq(q, k + 1, Len(q))
  <1>5. /\ Len(p) \in Nat /\ \A l \in 1..Len(p) : p[l] = f
    <2>1. /\ Len(p) = IF k + 1 <= Len(q) THEN Len(q) - (k + 1) + 1 ELSE 0
          /\ \A l \in 1..Len(q) - (k + 1) + 1 : p[l] = q[k + 1 + l - 1]
      <3>1. /\ k + 1 \in Int /\ Len(q) \in Int
            /\ \A l \in k + 1..Len(q) : q[l] \in Flows
        BY <1>2
      <3> QED
        BY <3>1, SubSeqProperties
    <2>2. ASSUME NEW l \in 1..Len(p) PROVE p[l] = f
      <3>1. /\ l \in 1..Len(q) - (k + 1) + 1
            /\ k + 1 + l - 1 \in 1..Len(q)
        BY <1>2, <2>1
      <3> QED
        BY <2>1, <3>1 DEF QueueOf
    <2> QED
      BY <1>2, <2>1, <2>2
  <1>6. /\ node'[i].queue = p
        /\ node'[i].flow = node[i].flow /\ node'[i].active = node[i].active
        /\ node'[i].status = node[i].status
    <2>1. node' = [node EXCEPT ![i].queue = p]
      BY <1>1
    <2> HIDE DEF p
    <2> QED
      BY ONLY <1>2, <2>1, i \in Ids DEF Node
  <1>7. QueueOf(i, f)'
    <2> HIDE DEF p
    <2> QED
      BY <1>5, <1>6 DEF QueueOf
  <1> QED
    BY <1>4, <1>6, <1>7

LEMMA PostSelf ==
  ASSUME Serial, IInv, NEW f \in Flows, Post(f), NEW i, i = tx[f].id
  PROVE  Stage(i)'
  <1>1. TxStep(f) /\ tx[f].pc = "post" /\ UNCHANGED <<table, chan, slots>>
    BY DEF TxStep, Post
  <1>2. PICK pc \in {"enqueue", "idle"} :
          /\ Go(f, pc)
          /\ pc = "enqueue" => node[i].status # DELETE_PENDING
    BY DEF Post
  <1>3. /\ i \in Ids /\ ~DpcOn(i) /\ ~DpcOn(i)'
        /\ \A pcs : pc \in pcs \cup {"idle"} => TxAt(i, f, pcs)'
        /\ node'[i].flow = node[i].flow => Held(i, f)'
        /\ UNCHANGED ring /\ (UNCHANGED h2d => MailKept(i))
    BY <1>1, <1>2, TxSelf DEF TxPc
  <1>4. Working(i, f) /\ (Pending(i, f) \/ Open(i, f) \/ Going(i, f))
    BY <1>1, TxStage
  <1>5. /\ Held(i, f)' /\ DongleKept(i) /\ QueueOf(i, f)'
        /\ UNCHANGED <<node, list>>
    BY <1>1, <1>3, <1>4 DEF table, chan, slots, DongleKept, Working, QueueOf
  <1>6. ASSUME Pending(i, f) PROVE Pending(i, f)'
    BY <1>2, <1>3, <1>5, <1>6, DongleFrame DEF Pending
  <1>7. ASSUME Open(i, f) PROVE Open(i, f)'
    BY <1>2, <1>3, <1>5, <1>7, DongleFrame DEF Open
  <1>8. ASSUME Going(i, f) PROVE Going(i, f)'
    BY <1>2, <1>3, <1>5, <1>8, DongleFrame DEF Going
  <1> QED
    BY <1>3, <1>4, <1>5, <1>6, <1>7, <1>8 DEF Stage, Working

LEMMA EnqueueSelf ==
  ASSUME Serial, IInv, NEW f \in Flows, Enqueue(f), NEW i, i = tx[f].id
  PROVE  Stage(i)'
  <1>1. TxStep(f) /\ tx[f].pc = "enqueue" /\ UNCHANGED <<list, chan, slots>>
    BY DEF TxStep, Enqueue
  <1>2. PICK pc \in {"schedule", "idle"} :
          /\ Go(f, pc)
          /\ pc = "schedule" => node[i].status = OPEN
    BY DEF Enqueue
  <1>3. /\ i \in Ids /\ ~DpcOn(i) /\ ~DpcOn(i)'
        /\ \A pcs : pc \in pcs \cup {"idle"} => TxAt(i, f, pcs)'
        /\ node'[i].flow = node[i].flow => Held(i, f)'
        /\ UNCHANGED ring /\ (UNCHANGED h2d => MailKept(i))
    BY <1>1, <1>2, TxSelf DEF TxPc
  <1>4. Working(i, f) /\ (Pending(i, f) \/ Open(i, f))
    <2>1. Working(i, f) /\ (Pending(i, f) \/ Open(i, f) \/ Going(i, f))
      BY <1>1, TxStage
    <2>2. ~Going(i, f)
      BY <1>1 DEF Going, TxAt
    <2> QED
      BY <2>1, <2>2
  <1>5. /\ node'[i].flow = node[i].flow /\ node'[i].active = node[i].active
        /\ node'[i].status = node[i].status
        /\ node'[i].queue = Append(node[i].queue, f)
    <2>1. node \in [Ids -> Node]
      BY DEF IInv, TypeInv
    <2> DEFINE q == Append(node[i].queue, f)
    <2>2. node' = [node EXCEPT ![i].queue = q]
      BY DEF Enqueue
    <2> HIDE DEF q
    <2>3. /\ node'[i].flow = node[i].flow /\ node'[i].active = node[i].active
          /\ node'[i].status = node[i].status /\ node'[i].queue = q
      BY ONLY <1>3, <2>1, <2>2 DEF Node
    <2> QED
      BY <2>3 DEF q
  <1>6. QueueOf(i, f)'
    <2>1. node[i].queue \in Seq(Flows) /\ QueueOf(i, f)
      BY <1>3, <1>4, Types DEF IInv, Working
    <2>2. /\ Len(Append(node[i].queue, f)) = Len(node[i].queue) + 1
          /\ Len(node[i].queue) \in Nat
          /\ Append(node[i].queue, f)[Len(node[i].queue) + 1] = f
          /\ \A k \in 1..Len(node[i].queue) :
               Append(node[i].queue, f)[k] = node[i].queue[k]
      <3>1. \A u \in Seq(Flows) : /\ Len(Append(u, f)) = Len(u) + 1
                                   /\ Len(u) \in Nat
                                   /\ Append(u, f)[Len(u) + 1] = f
                                   /\ \A k \in 1..Len(u) : Append(u, f)[k] = u[k]
        BY Appended
      <3> QED
        BY ONLY <2>1, <3>1
    <2>3. \A k \in 1..Len(node[i].queue) + 1 : Append(node[i].queue, f)[k] = f
      <3> SUFFICES ASSUME NEW k \in 1..Len(node[i].queue) + 1
                   PROVE  Append(node[i].queue, f)[k] = f
        OBVIOUS
      <3>1. CASE k = Len(node[i].queue) + 1
        BY <2>2, <3>1
      <3>2. CASE k \in 1..Len(node[i].queue)
        BY <2>1, <2>2, <3>2 DEF QueueOf
      <3> QED
        BY <2>2, <3>1, <3>2
    <2> DEFINE q == Append(node[i].queue, f)
    <2>4. /\ node'[i].queue = q /\ \A k \in 1..Len(q) : q[k] = f
      BY <1>5, <2>2, <2>3
    <2> HIDE DEF q
    <2> QED
      BY <2>4 DEF QueueOf
  <1>7. DongleKept(i)
    BY <1>1, <1>3 DEF DongleKept, chan, slots
  <1>8. ASSUME Pending(i, f) PROVE Pending(i, f)'
    <2>1. pc = "idle"
      BY <1>2, <1>8 DEF Pending, OPEN, PENDING
    <2> QED
      BY <2>1, <1>3, <1>5, <1>7, <1>8, DongleFrame DEF Pending
  <1>9. ASSUME Open(i, f) PROVE Open(i, f)'
    BY <1>2, <1>3, <1>5, <1>7, <1>9, DongleFrame DEF Open
  <1> QED
    BY <1>1, <1>3, <1>4, <1>5, <1>6, <1>8, <1>9 DEF Stage, Working

LEMMA ScheduleSelf ==
  ASSUME Serial, IInv, NEW f \in Flows, Schedule(f), NEW i, i = tx[f].id
  PROVE  Stage(i)'
  <1>1. /\ TxStep(f) /\ tx[f].pc = "schedule" /\ Go(f, "idle")
        /\ UNCHANGED <<list, chan>> /\ ScheduleQueue(i)
    BY DEF TxStep, Schedule
  <1>2. /\ i \in Ids /\ ~DpcOn(i) /\ ~DpcOn(i)'
        /\ TxAt(i, f, {"post", "enqueue", "schedule"})'
        /\ node'[i].flow = node[i].flow => Held(i, f)'
        /\ UNCHANGED ring /\ (UNCHANGED h2d => MailKept(i))
    BY <1>1, TxSelf
  <1>3. Working(i, f) /\ Open(i, f)
    <2>1. Working(i, f) /\ (Pending(i, f) \/ Open(i, f) \/ Going(i, f))
      BY <1>1, TxStage
    <2>2. ~Going(i, f) /\ ~Pending(i, f)
      BY <1>1 DEF Going, Pending, TxAt
    <2> QED
      BY <2>1, <2>2
  <1>4. /\ Owned(i, f)' /\ QueueOf(i, f)'
        /\ node'[i].flow = node[i].flow /\ node'[i].active = node[i].active
        /\ node'[i].status = node[i].status
    BY <1>1, <1>2, <1>3, ScheduleOwned DEF IInv, Working, Open
  <1>5. Quiet(i)' /\ Up(i, f)' /\ ring'[i].deleting = ring[i].deleting
    BY <1>1, <1>2, <1>3, StillCreating DEF Open, chan
  <1>6. Open(i, f)'
    BY <1>2, <1>3, <1>4, <1>5 DEF Open
  <1> QED
    BY <1>1, <1>2, <1>3, <1>4, <1>6 DEF Stage, Working

LEMMA LookupStage ==
  ASSUME Serial, IInv, NEW f \in Flows, Lookup(f)
  PROVE  \A j \in Ids : Stage(j)'
  <1>1. PICK i \in IF lookup[f] # None THEN {lookup[f]} ELSE free :
            /\ lookup' = [lookup EXCEPT ![f] = i] /\ free' = free \ {i}
            /\ IF node[i].active
               THEN /\ tx' = [tx EXCEPT ![f] = [pc |-> "post", id |-> i]]
                    /\ UNCHANGED node
               ELSE /\ tx' = [tx EXCEPT ![f] = [pc |-> "create", id |-> i]]
                    /\ node' = [node EXCEPT ![i].flow = f]
    BY DEF Lookup
  <1>2. /\ TypeInv /\ i \in Ids /\ i # None /\ tx[f].pc = "idle" /\ tx[f] = IdleTx
        /\ tx[f].id = None
        /\ UNCHANGED <<list, dpc, chan, slots, ring>>
    BY <1>1, NoneNot, Types DEF IInv, TypeInv, IdleTx, Lookup
  <1>3. /\ dpc.pc = "idle"
        /\ \A g \in Flows \ {f} : /\ tx[g].pc = "idle" /\ tx'[g] = tx[g]
                                  /\ tx[g].id = None
    <2>1. /\ dpc.pc = "idle"
          /\ \A g \in Flows \ {f} : tx[g].pc = "idle" /\ tx'[g] = tx[g]
      BY TxAlone DEF IInv
    <2> QED
      BY <1>2, <2>1, Types DEF IdleTx
  <1>4. /\ \A g \in Flows : lookup'[g] = IF g = f THEN i ELSE lookup[g]
        /\ lookup[f] \in {None, i}
    BY <1>1, <1>2 DEF TypeInv
  <1>5. ASSUME NEW j \in Ids, j # i PROVE Stage(j)'
    <2>1. tx'[f].id = i
      BY <1>1, <1>2 DEF TypeInv
    <2>2. TxKept(j)
      BY <1>2, <1>3, <1>5, <2>1, NoneNot DEF TxKept
    <2>3. DpcKept(j)
      BY <1>2 DEF DpcKept, DpcOn
    <2>4. HostKept(j)
      <3>1. node'[j] = node[j]
        BY <1>1, <1>2, <1>5 DEF TypeInv
      <3>2. \A g \in Flows : lookup'[g] = j <=> lookup[g] = j
        BY <1>4, <1>5, NoneNot
      <3> QED
        BY <1>1, <1>2, <1>5, <3>1, <3>2 DEF HostKept
    <2>5. DongleKept(j)
      BY <1>2, SameMail DEF DongleKept, slots
    <2> QED
      BY <2>2, <2>3, <2>4, <2>5, Framed DEF IInv
  <1>6. MailKept(i) /\ DongleKept(i)
    BY <1>2, SameMail DEF DongleKept, slots
  <1>7. ~DpcOn(i) /\ ~DpcOn(i)'
    BY <1>2, <1>3 DEF DpcOn, DpcBusy
  <1>8. Stage(i)
    BY <1>2 DEF IInv
  <1>9. ASSUME lookup[f] # None PROVE Stage(i)'
    <2>1. i = lookup[f]
      BY <1>1, <1>9
    <2>2. Held(i, f) /\ (Starting(i, f) \/ Working(i, f))
      BY <1>8, <2>1 DEF Stage, Free, Released, Held
    <2>3. Working(i, f)
      BY <1>2, <2>2 DEF Starting
    <2>4. tx'[f] = [pc |-> "post", id |-> i] /\ UNCHANGED node
      BY <1>1, <1>2, <2>3 DEF Working, TypeInv
    <2>5. \A pcs : "post" \in pcs => TxAt(i, f, pcs)'
      BY <1>2, <1>3, <2>4 DEF TxAt
    <2>6. Held(i, f)'
      BY <1>1, <1>4, <2>1, <2>2, <2>4 DEF Held
    <2>7. ASSUME Pending(i, f) PROVE Pending(i, f)'
      BY <1>6, <1>7, <2>4, <2>5, <2>7, DongleFrame, <1>2 DEF Pending
    <2>8. ASSUME Open(i, f) PROVE Open(i, f)'
      BY <1>6, <1>7, <2>4, <2>5, <2>8, DongleFrame, <1>2 DEF Open
    <2>9. ASSUME Going(i, f) PROVE Going(i, f)'
      BY <1>6, <1>7, <2>4, <2>5, <2>9, DongleFrame, <1>2 DEF Going
    <2>10. ~Cleaning(i, f)
      BY <1>7 DEF Cleaning
    <2>11. Working(i, f)'
      <3>1. QueueOf(i, f)'
        BY <2>3, <2>4 DEF Working, QueueOf
      <3> QED
        BY <1>2, <2>3, <2>4, <2>7, <2>8, <2>9, <2>10, <3>1 DEF Working
    <2> QED
      BY <2>6, <2>11 DEF Stage
  <1>10. ASSUME lookup[f] = None PROVE Stage(i)'
    <2>1. i \in free
      BY <1>1, <1>10
    <2>2. Free(i)
      BY <1>7, <1>8, <2>1 DEF Stage, Released, Held
    <2>3. /\ tx'[f] = [pc |-> "create", id |-> i]
          /\ node' = [node EXCEPT ![i].flow = f]
      BY <1>1, <1>2, <2>2 DEF Free, TypeInv
    <2>4. /\ node'[i].flow = f /\ node'[i].active = node[i].active
          /\ node'[i].queue = node[i].queue
      <3>1. node \in [Ids -> Node]
        BY <1>2 DEF TypeInv
      <3> QED
        BY ONLY <1>2, <2>3, <3>1 DEF Node
    <2>5. Held(i, f)'
      BY <1>1, <1>4, <2>2, <2>4 DEF Held, Free
    <2>6. TxAt(i, f, {"create", "clear", "mark", "activate"})'
      BY <1>2, <1>3, <2>3 DEF TxAt
    <2>7. Quiet(i)' /\ Unused(i)'
      BY <1>2, <1>6, <2>2, DongleFrame DEF Free
    <2>8. Starting(i, f)'
      BY <1>2, <1>7, <2>2, <2>3, <2>4, <2>6, <2>7 DEF Starting, Free
    <2> QED
      BY <2>5, <2>8 DEF Stage
  <1> QED
    BY <1>5, <1>9, <1>10

LEMMA TxStepStage ==
  ASSUME Serial, IInv, NEW f \in Flows, TxStep(f)
  PROVE  \A j \in Ids : Stage(j)'
  <1>1. PICK i : i = tx[f].id
    OBVIOUS
  <1>2. Stage(i)'
    BY <1>1, CreateSendSelf, CreateClearSelf, CreateMarkSelf, ActivateSelf,
       PostSelf, EnqueueSelf, ScheduleSelf DEF TxStep
  <1> QED
    BY <1>1, <1>2, TxOthers

-----------------------------------------------------------------------------
(* While the DPC runs no sender does, and only its ring changes stage.     *)
LEMMA DpcSelf ==
  ASSUME Serial, IInv, DpcStep \/ \E f \in Flows : LinkUp(f) \/ LinkDown(f)
  PROVE  /\ tx' = tx /\ TypeInv
         /\ \A i \in Ids : /\ ~TxOn(i) /\ ~TxOn(i)' /\ TxKept(i)
                           /\ \A f \in Flows : tx[f].id # i
                           /\ \A f, pcs : TxAt(i, f, pcs)'
  <1>1. tx' = tx /\ (\A f \in Flows : tx[f].pc = "idle") /\ TypeInv
    BY DpcAlone DEF IInv
  <1>2. \A f \in Flows : tx[f].id = None
    BY <1>1, Types DEF IdleTx
  <1>3. \A i \in Ids, f \in Flows : tx[f].id # i /\ tx'[f].id # i
    BY <1>1, <1>2, NoneNot
  <1> QED
    BY <1>1, <1>3 DEF TxOn, TxAt, TxKept

LEMMA DpcStage ==
  ASSUME Serial, IInv, NEW i, i = dpc.id, dpc.pc \in DpcBusy,
         \A f \in Flows : tx[f].id # i
  PROVE  /\ i \in Ids /\ DpcOn(i) /\ Stage(i)
         /\ dpc.pc \in {"send", "push", "sent", "clean"} =>
              \E f \in Flows :
                 /\ Held(i, f) /\ Working(i, f)
                 /\ dpc.pc \in {"send", "push"} => Open(i, f)
                 /\ dpc.pc = "send" => dpc.flow = f /\ node[i].queue = <<>>
                 /\ dpc.pc = "sent" => Going(i, f) /\ node[i].status = OPEN
                 /\ dpc.pc = "clean" => Cleaning(i, f)
         /\ dpc.pc \in {"empty", "retire", "reset"} => Released(i)
  <1>1. i \in Ids /\ DpcOn(i) /\ Stage(i)
    BY Types DEF IInv, DpcOn
  <1>2. ~Free(i)
    BY <1>1 DEF Free
  <1>3. ASSUME Released(i) PROVE dpc.pc \in {"empty", "retire", "reset"}
    BY <1>3 DEF Released
  <1>4. ASSUME NEW f \in Flows, Held(i, f), Starting(i, f) \/ Working(i, f)
        PROVE  /\ Working(i, f)
               /\ dpc.pc \in {"send", "push", "sent", "clean"}
               /\ dpc.pc \in {"send", "push"} => Open(i, f)
               /\ dpc.pc = "send" => dpc.flow = f /\ node[i].queue = <<>>
               /\ dpc.pc = "sent" => Going(i, f) /\ node[i].status = OPEN
               /\ dpc.pc = "clean" => Cleaning(i, f)
    <2>1. ~Starting(i, f) /\ ~Pending(i, f)
      BY <1>1 DEF Starting, Pending
    <2>2. Open(i, f) \/ Going(i, f) \/ Cleaning(i, f)
      BY <1>4, <2>1 DEF Working
    <2>3. ASSUME Open(i, f)
          PROVE  /\ dpc.pc \in {"send", "push"}
                 /\ dpc.pc = "send" => dpc.flow = f /\ node[i].queue = <<>>
      BY <1>1, <2>3 DEF Open
    <2>4. ASSUME Going(i, f) PROVE dpc.pc = "sent" /\ node[i].status = OPEN
      BY <1>1, <2>4 DEF Going
    <2>5. ASSUME Cleaning(i, f) PROVE dpc.pc = "clean"
      BY <2>5 DEF Cleaning
    <2> QED
      BY <1>4, <2>1, <2>2, <2>3, <2>4, <2>5
  <1> QED
    BY <1>1, <1>2, <1>3, <1>4 DEF Stage

LEMMA DpcOthers ==
  ASSUME IInv, NEW i, \A j \in Ids : TxKept(j),
         dpc.pc \in DpcBusy => dpc.id = i, dpc'.pc \in DpcBusy => dpc'.id = i,
         UNCHANGED ring,
         \A j \in Ids \ {i} :
            /\ node'[j] = node[j] /\ tcm_w'[j] = tcm_w[j] /\ mem'[j] = mem[j]
            /\ j \in free' <=> j \in free
            /\ j \in list' <=> j \in list
            /\ \A g \in Flows : lookup'[g] = j <=> lookup[g] = j
            /\ MailKept(j)
  PROVE  \A j \in Ids \ {i} : Stage(j)'
  <1> SUFFICES ASSUME NEW j \in Ids \ {i} PROVE Stage(j)'
    OBVIOUS
  <1>1. DpcKept(j)
    BY DEF DpcKept, DpcOn
  <1>2. HostKept(j)
    BY DEF HostKept
  <1>3. DongleKept(j)
    BY DEF DongleKept
  <1> QED
    BY <1>1, <1>2, <1>3, Framed DEF IInv

(* Steps of the DPC that are about no ring.                                *)
LEMMA DpcIdleStage ==
  ASSUME IInv, \A j \in Ids : TxKept(j),
         dpc.pc \notin DpcBusy, dpc'.pc \notin DpcBusy,
         UNCHANGED <<lookup, free, node, list, chan, slots, ring>>
  PROVE  \A j \in Ids : Stage(j)'
  <1> SUFFICES ASSUME NEW j \in Ids PROVE Stage(j)'
    OBVIOUS
  <1>1. DpcKept(j)
    BY DEF DpcKept, DpcOn
  <1>2. HostKept(j)
    BY DEF HostKept
  <1>3. DongleKept(j)
    BY SameMail DEF DongleKept, slots
  <1> QED
    BY <1>1, <1>2, <1>3, Framed DEF IInv

(* dhd_flow_rings_delete and its request.                                  *)
LEMMA DeleteStage ==
  ASSUME Serial, IInv, NEW i \in Ids, DeleteRequest(i)
  PROVE  \A j \in Ids : Stage(j)'
  <1>1. /\ \A j \in Ids : TxKept(j) /\ ~TxOn(j) /\ \A f, pcs : TxAt(j, f, pcs)'
        /\ TypeInv
    BY DpcSelf DEF DpcStep
  <1>2. dpc.pc = "delete" /\ dpc.pc \notin DpcBusy
        /\ UNCHANGED <<lookup, free, list, chan, slots, ring>>
    BY DEF DeleteRequest, DpcBusy
  <1>3. CASE /\ node[i].active /\ node[i].flow = dpc.flow
             /\ ~Refused(node[i].status)
    <2>1. /\ node' = [node EXCEPT ![i].queue = <<>>]
          /\ dpc' = [dpc EXCEPT !.todo = @ \ {i}, !.pc = "send", !.id = i]
      BY <1>3 DEF DeleteRequest
    <2>2. dpc'.pc = "send" /\ dpc'.id = i /\ dpc'.flow = dpc.flow
      BY <1>1, <2>1 DEF TypeInv
    <2>3. /\ node'[i].queue = <<>> /\ node'[i].active = node[i].active
          /\ node'[i].flow = node[i].flow /\ node'[i].status = node[i].status
          /\ \A j \in Ids \ {i} : node'[j] = node[j]
      <3>1. node \in [Ids -> Node]
        BY <1>1 DEF TypeInv
      <3> QED
        BY ONLY <2>1, <3>1, i \in Ids DEF Node
    <2>4. \A j \in Ids \ {i} : Stage(j)'
      BY <1>1, <1>2, <2>2, <2>3, SameMail, DpcOthers DEF slots
    <2>5. node[i].status = OPEN
      BY <1>1, <1>3, Types DEF Refused, Node, Status, OPEN, PENDING, CLOSED,
         DELETE_PENDING
    <2>6. ~DpcOn(i)
      BY <1>2 DEF DpcOn
    <2>7. PICK f \in Flows : Held(i, f) /\ Working(i, f) /\ Open(i, f)
      <3>1. Stage(i) /\ ~Free(i) /\ ~Released(i)
        BY <1>3, <2>6 DEF IInv, Free, Released
      <3>2. \A f \in Flows : /\ ~Starting(i, f) /\ ~Pending(i, f)
                             /\ ~Going(i, f) /\ ~Cleaning(i, f)
        BY <1>3, <2>5, <2>6 DEF Starting, Pending, Going, Cleaning, OPEN, PENDING,
           DELETE_PENDING
      <3> QED
        BY <3>1, <3>2 DEF Stage, Working
    <2>8. Held(i, f)' /\ dpc'.flow = f
      BY <1>2, <1>3, <2>2, <2>3, <2>7 DEF Held
    <2>9. DongleKept(i)
      BY <1>2, SameMail DEF DongleKept, slots
    <2>10. Quiet(i)' /\ Up(i, f)' /\ Owned(i, f)' /\ ring'[i].deleting = ring[i].deleting
      BY <2>7, <2>9, DongleFrame DEF Open
    <2>11. Open(i, f)'
      BY <1>1, <2>2, <2>3, <2>5, <2>7, <2>8, <2>10 DEF Open
    <2>12. QueueOf(i, f)'
      BY <2>3 DEF QueueOf
    <2>13. Stage(i)'
      BY <1>2, <1>3, <2>3, <2>8, <2>11, <2>12, <2>7 DEF Stage, Working
    <2> QED
      BY <2>4, <2>13
  <1>4. CASE ~(/\ node[i].active /\ node[i].flow = dpc.flow
               /\ ~Refused(node[i].status))
    <2>1. dpc' = [dpc EXCEPT !.todo = @ \ {i}] /\ node' = node
      BY <1>4 DEF DeleteRequest
    <2>2. dpc'.pc \notin DpcBusy
      BY <1>1, <1>2, <2>1 DEF TypeInv
    <2> QED
      BY <1>1, <1>2, <2>1, <2>2, DpcIdleStage
  <1> QED
    BY <1>3, <1>4

LEMMA DeleteSendStage ==
  ASSUME Serial, IInv, DeleteSend
  PROVE  \A j \in Ids : Stage(j)'
  <1>1. /\ \A j \in Ids : /\ TxKept(j) /\ ~TxOn(j) /\ \A f, pcs : TxAt(j, f, pcs)'
                          /\ \A f \in Flows : tx[f].id # j
        /\ TypeInv
    BY DpcSelf DEF DpcStep
  <1>2. /\ dpc.pc = "send" /\ dpc.pc \in DpcBusy /\ DpcGo("sent")
        /\ UNCHANGED <<table, d2h, slots, ring>>
    BY DEF DeleteSend, DpcBusy
  <1>3. PICK i \in Ids : i = dpc.id
    BY <1>1, <1>2 DEF TypeInv
  <1>4. PICK f \in Flows : /\ Held(i, f) /\ Working(i, f) /\ Open(i, f)
                           /\ dpc.flow = f /\ node[i].queue = <<>>
    BY <1>1, <1>2, <1>3, DpcStage
  <1>5. dpc'.pc = "sent" /\ dpc'.id = i
    BY <1>1, <1>2, <1>3, DpcGoType DEF DpcPc
  <1> DEFINE m == [type |-> "delete", id |-> i, flow |-> f]
  <1>6. h2d' = Append(h2d, m)
    BY <1>3, <1>4 DEF DeleteSend
  <1>7. \A j \in Ids \ {i} : Stage(j)'
    <2>1. \A j : j # i => MailKept(j)
      <3>1. \E n : n.id = i /\ h2d' = Append(h2d, n)
        BY <1>6
      <3> QED
        BY <1>1, <1>2, <3>1, MailOthers
    <2> QED
      BY <1>1, <1>2, <1>3, <1>5, <2>1, DpcOthers DEF table, slots
  <1>8. Requested(i, "delete", f)'
    <2>1. h2d \in Seq(ReqMsg) /\ NoMail(h2d, m.id) /\ NoMail(d2h, i)
      BY <1>1, <1>4 DEF TypeInv, Open, Quiet
    <2>2. OnlyMail(h2d', m)
      BY <1>6, <2>1, MailSent
    <2> QED
      BY <1>2, <2>1, <2>2 DEF Requested
  <1>9. Up(i, f)' /\ ~ring'[i].deleting /\ Owned(i, f)'
    BY <1>2, <1>4 DEF Open, Up, Owned, slots
  <1>10. Deleting(i, f)'
    BY <1>8, <1>9 DEF Deleting
  <1>11. DpcOn(i)'
    BY <1>5 DEF DpcOn, DpcBusy
  <1>12. Going(i, f)'
    BY <1>1, <1>2, <1>4, <1>5, <1>10, <1>11 DEF Going, Open, table
  <1>13. Held(i, f)' /\ QueueOf(i, f)' /\ node'[i].active /\ i \in list'
    BY <1>2, <1>4 DEF Held, Working, QueueOf, table
  <1> QED
    BY <1>7, <1>12, <1>13 DEF Stage, Working

LEMMA DeleteMarkStage ==
  ASSUME Serial, IInv, DeleteMark
  PROVE  \A j \in Ids : Stage(j)'
  <1>1. /\ \A j \in Ids : /\ TxKept(j) /\ ~TxOn(j) /\ \A f, pcs : TxAt(j, f, pcs)'
                          /\ \A f \in Flows : tx[f].id # j
        /\ TypeInv
    BY DpcSelf DEF DpcStep
  <1>2. /\ dpc.pc = "sent" /\ dpc.pc \in DpcBusy /\ DpcGo("delete")
        /\ UNCHANGED <<lookup, free, list, chan, slots, ring>>
    BY DEF DeleteMark, DpcBusy
  <1>3. PICK i \in Ids : i = dpc.id
    BY <1>1, <1>2 DEF TypeInv
  <1>4. PICK f \in Flows : Held(i, f) /\ Working(i, f) /\ Going(i, f)
    BY <1>1, <1>2, <1>3, DpcStage
  <1>5. dpc'.pc \notin DpcBusy
    BY <1>1, <1>2, DpcGoType DEF DpcPc, DpcBusy
  <1>6. /\ node'[i].queue = node[i].queue /\ node'[i].active = node[i].active
        /\ node'[i].flow = node[i].flow /\ node'[i].status = DELETE_PENDING
        /\ \A j \in Ids \ {i} : node'[j] = node[j]
    <2>1. node \in [Ids -> Node] /\ node' = [node EXCEPT ![i].status = DELETE_PENDING]
      BY <1>1, <1>3 DEF TypeInv, DeleteMark
    <2> QED
      BY ONLY <2>1 DEF Node
  <1>7. \A j \in Ids \ {i} : Stage(j)'
    BY <1>1, <1>2, <1>3, <1>5, <1>6, SameMail, DpcOthers DEF slots
  <1>8. Deleting(i, f)'
    <2>1. DongleKept(i)
      BY <1>2, SameMail DEF DongleKept, slots
    <2> QED
      BY <1>4, <2>1, DongleFrame DEF Going
  <1>9. Going(i, f)'
    BY <1>1, <1>4, <1>5, <1>6, <1>8 DEF Going, DpcOn
  <1>10. Held(i, f)' /\ QueueOf(i, f)' /\ node'[i].active /\ i \in list'
    BY <1>2, <1>4, <1>6 DEF Held, Working, QueueOf
  <1> QED
    BY <1>7, <1>9, <1>10 DEF Stage, Working

(* A response finds its ring waiting for it.                               *)
LEMMA ResponseStage ==
  ASSUME Serial, IInv, Response
  PROVE  \A j \in Ids : Stage(j)'
  <1> DEFINE m == d2h[1]
  <1>1. /\ \A j \in Ids : /\ TxKept(j) /\ ~TxOn(j) /\ ~TxOn(j)'
                          /\ \A f, pcs : TxAt(j, f, pcs)'
                          /\ \A f \in Flows : tx[f].id # j
        /\ TypeInv
    BY DpcSelf DEF DpcStep
  <1>2. /\ dpc.pc = "idle" /\ dpc.pc \notin DpcBusy
        /\ d2h # <<>> /\ d2h' = Tail(d2h)
        /\ UNCHANGED <<lookup, free, list, h2d, slots, ring>>
    BY DEF Response, DpcBusy
  <1>3. PICK i \in Ids : i = m.id
    BY <1>1, <1>2, Types
  <1>4. /\ \A j \in Ids \ {i} : MailKept(j)
        /\ ~NoMail(d2h, i)
        /\ \A n : n.id = i /\ OnlyMail(d2h, n) => m = n /\ NoMail(d2h', i)
    <2>1. d2h \in Seq(RspMsg)
      BY <1>1 DEF TypeInv
    <2> QED
      BY <1>1, <1>2, <1>3, <2>1, MailTaken, MailOthers
  <1>5. ASSUME NEW t, NEW s, Answered(i, t, s)
        PROVE  m.type = t /\ m.status = s /\ Quiet(i)'
    <2> DEFINE n == [type |-> t, id |-> i, status |-> s]
    <2>1. n.id = i /\ OnlyMail(d2h, n) /\ NoMail(h2d, i)
      BY <1>5 DEF Answered
    <2>2. m = n /\ NoMail(d2h', i)
      BY <1>4, <2>1
    <2> QED
      BY <1>2, <2>1, <2>2 DEF Quiet
  <1>6. /\ ~Quiet(i) /\ \A t, f : ~Requested(i, t, f)
    BY <1>4 DEF Quiet, Requested
  <1>7. ~DpcOn(i)
    BY <1>2 DEF DpcOn
  <1>8. PICK f \in Flows : Held(i, f) /\ Working(i, f)
                           /\ (Pending(i, f) \/ Going(i, f))
    <2>1. Stage(i) /\ ~Free(i) /\ ~Released(i)
      BY <1>6, <1>7 DEF IInv, Free, Released
    <2>2. \A f \in Flows : ~Starting(i, f) /\ ~Open(i, f) /\ ~Cleaning(i, f)
      BY <1>1, <1>6, <1>7 DEF Starting, Open, Cleaning
    <2> QED
      BY <2>1, <2>2 DEF Stage, Working
  <1>9. /\ Pending(i, f) =>
             \/ Answered(i, "create", "success") /\ Up(i, f) /\ ~ring[i].deleting
             \/ Answered(i, "create", "no memory") /\ Unused(i)
        /\ Going(i, f) => Answered(i, "delete", "success") /\ Unused(i)
    BY <1>6 DEF Pending, Creating, Going, Deleting
  <1>10. /\ Answered(i, "create", "success")
              => m.type = "create" /\ m.status = "success"
         /\ Answered(i, "create", "no memory")
              => m.type = "create" /\ m.status = "no memory"
         /\ Answered(i, "delete", "success")
              => m.type = "delete" /\ m.status = "success"
    BY <1>5
  <1>11. CASE m.type = "create" /\ m.status = "success"
    <2>1. /\ node' = [node EXCEPT ![i].status = OPEN]
          /\ dpc' = [dpc EXCEPT !.pc = "push", !.id = i]
      BY <1>3, <1>11 DEF Response
    <2>2. dpc'.pc = "push" /\ dpc'.id = i
      BY <1>1, <2>1 DEF TypeInv
    <2>3. /\ node'[i].queue = node[i].queue /\ node'[i].active = node[i].active
          /\ node'[i].flow = node[i].flow /\ node'[i].status = OPEN
          /\ \A j \in Ids \ {i} : node'[j] = node[j]
      <3>1. node \in [Ids -> Node]
        BY <1>1 DEF TypeInv
      <3> QED
        BY ONLY <2>1, <3>1 DEF Node
    <2>4. \A j \in Ids \ {i} : Stage(j)'
      BY <1>1, <1>2, <1>4, <2>2, <2>3, DpcOthers DEF slots
    <2>5. /\ Pending(i, f) /\ Answered(i, "create", "success") /\ Up(i, f)
          /\ ~ring[i].deleting
      BY ONLY <1>8, <1>11, <1>9, <1>10
    <2>6. /\ Quiet(i)' /\ Up(i, f)' /\ ~ring'[i].deleting /\ Owned(i, f)'
      BY <1>2, <1>5, <2>5 DEF Pending, Up, Owned, slots
    <2>7. Open(i, f)'
      BY <1>1, <2>2, <2>3, <2>6 DEF Open
    <2>8. Held(i, f)' /\ QueueOf(i, f)' /\ node'[i].active /\ i \in list'
      BY <1>2, <1>8, <2>3 DEF Held, Working, QueueOf
    <2> QED
      BY <2>4, <2>7, <2>8 DEF Stage, Working
  <1>12. CASE ~(m.type = "create" /\ m.status = "success")
    <2>1. \/ Pending(i, f) /\ Answered(i, "create", "no memory") /\ Unused(i)
          \/ Going(i, f) /\ Answered(i, "delete", "success") /\ Unused(i)
      BY ONLY <1>8, <1>12, <1>9, <1>10
    <2>2. /\ m.type = "delete" => m.status = "success"
          /\ Quiet(i)' /\ Unused(i)'
      BY <1>2, <1>5, <1>10, <2>1 DEF Unused
    <2>3. /\ node' = node
          /\ dpc' = [dpc EXCEPT !.pc = "clean", !.id = i, !.del = (m.type = "delete")]
      BY <1>3, <1>12, <2>2 DEF Response
    <2>4. dpc'.pc = "clean" /\ dpc'.id = i
      BY <1>1, <2>3 DEF TypeInv
    <2>5. \A j \in Ids \ {i} : Stage(j)'
      BY <1>1, <1>2, <1>4, <2>3, <2>4, DpcOthers DEF slots
    <2>6. Cleaning(i, f)'
      BY <1>1, <2>2, <2>4 DEF Cleaning, DpcOn, DpcBusy
    <2>7. Held(i, f)' /\ QueueOf(i, f)' /\ node'[i].active /\ i \in list'
      BY <1>2, <1>8, <2>3 DEF Held, Working, QueueOf
    <2> QED
      BY <2>5, <2>6, <2>7 DEF Stage, Working
  <1> QED
    BY <1>11, <1>12

LEMMA ScheduleOthers ==
  ASSUME TypeInv, NEW i \in Ids, ScheduleQueue(i)
  PROVE  \A j \in Ids \ {i} : /\ node'[j] = node[j] /\ tcm_w'[j] = tcm_w[j]
                              /\ mem'[j] = mem[j]
  BY DEF ScheduleQueue, TypeInv

LEMMA PushStage ==
  ASSUME Serial, IInv, Push
  PROVE  \A j \in Ids : Stage(j)'
  <1>1. /\ \A j \in Ids : /\ TxKept(j) /\ ~TxOn(j)
                          /\ \A f, pcs : TxAt(j, f, pcs)'
                          /\ \A f \in Flows : tx[f].id # j
        /\ TypeInv
    BY DpcSelf DEF DpcStep
  <1>2. /\ dpc.pc = "push" /\ dpc.pc \in DpcBusy /\ DpcGo("idle")
        /\ UNCHANGED <<lookup, free, list, chan, ring>>
    BY DEF Push, DpcBusy
  <1>3. PICK i \in Ids : i = dpc.id
    BY <1>1, <1>2 DEF TypeInv
  <1>4. PICK f \in Flows : Held(i, f) /\ Working(i, f) /\ Open(i, f)
    BY <1>1, <1>2, <1>3, DpcStage
  <1>5. dpc'.pc \notin DpcBusy
    BY <1>1, <1>2, DpcGoType DEF DpcPc, DpcBusy
  <1>6. ScheduleQueue(i)
    BY <1>3 DEF Push
  <1>7. /\ Owned(i, f)' /\ QueueOf(i, f)'
        /\ node'[i].flow = node[i].flow /\ node'[i].active = node[i].active
        /\ node'[i].status = node[i].status
    BY <1>1, <1>2, <1>4, <1>6, ScheduleOwned DEF Working, Open
  <1>8. \A j \in Ids \ {i} : Stage(j)'
    BY <1>1, <1>2, <1>3, <1>5, <1>6, SameMail, ScheduleOthers, DpcOthers
  <1>9. Quiet(i)' /\ Up(i, f)' /\ ring'[i].deleting = ring[i].deleting
    BY <1>2, <1>4, SameMail, StillCreating DEF Open
  <1>10. Open(i, f)'
    BY <1>1, <1>4, <1>5, <1>7, <1>9 DEF Open, DpcOn
  <1>11. Held(i, f)' /\ node'[i].active /\ i \in list'
    BY <1>2, <1>4, <1>7 DEF Held, Working
  <1> QED
    BY <1>7, <1>8, <1>10, <1>11 DEF Stage, Working

LEMMA WalkStage ==
  ASSUME Serial, IInv, NEW i \in Ids, Walk(i)
  PROVE  \A j \in Ids : Stage(j)'
  <1>1. /\ \A j \in Ids : /\ TxKept(j) /\ ~TxOn(j)
                          /\ \A f, pcs : TxAt(j, f, pcs)'
                          /\ \A f \in Flows : tx[f].id # j
        /\ TypeInv
    BY DpcSelf DEF DpcStep
  <1>2. /\ dpc.pc = "idle" /\ dpc.pc \notin DpcBusy
        /\ i \in list /\ node[i].queue # <<>> /\ ScheduleQueue(i)
        /\ UNCHANGED <<lookup, free, list, dpc, chan, ring>>
    BY DEF Walk, DpcBusy
  <1>3. ~DpcOn(i) /\ ~DpcOn(i)'
    BY <1>2 DEF DpcOn
  <1>4. PICK f \in Flows : Held(i, f) /\ Working(i, f)
                           /\ (Pending(i, f) \/ Open(i, f))
    <2>1. Stage(i) /\ ~Free(i) /\ ~Released(i)
      BY <1>2, <1>3 DEF IInv, Free, Released
    <2>2. \A f \in Flows : ~Starting(i, f) /\ ~Going(i, f) /\ ~Cleaning(i, f)
      BY <1>1, <1>2, <1>3 DEF Starting, Going, Cleaning
    <2> QED
      BY <2>1, <2>2 DEF Stage, Working
  <1>5. /\ Owned(i, f)' /\ QueueOf(i, f)'
        /\ node'[i].flow = node[i].flow /\ node'[i].active = node[i].active
        /\ node'[i].status = node[i].status
    BY <1>1, <1>2, <1>4, ScheduleOwned DEF Working, Open, Pending
  <1>6. \A j \in Ids \ {i} : Stage(j)'
    BY <1>1, <1>2, SameMail, ScheduleOthers, DpcOthers
  <1>7. /\ MailKept(i) /\ ring' = ring
    BY <1>2, SameMail
  <1>8. ASSUME Pending(i, f) PROVE Pending(i, f)'
    BY <1>1, <1>3, <1>5, <1>7, <1>8, StillCreating DEF Pending
  <1>9. ASSUME Open(i, f) PROVE Open(i, f)'
    BY <1>1, <1>3, <1>5, <1>7, <1>9, StillCreating DEF Open
  <1>10. Held(i, f)' /\ node'[i].active /\ i \in list'
    BY <1>2, <1>4, <1>5 DEF Held, Working
  <1> QED
    BY <1>4, <1>5, <1>6, <1>8, <1>9, <1>10 DEF Stage, Working

(* dhd_bus_clean_flow_ring: the id is returned first.                      *)
LEMMA CleanStage ==
  ASSUME Serial, IInv, Clean
  PROVE  \A j \in Ids : Stage(j)'
  <1>1. /\ \A j \in Ids : /\ TxKept(j) /\ ~TxOn(j) /\ ~TxOn(j)'
                          /\ \A f \in Flows : tx[f].id # j
        /\ TypeInv
    BY DpcSelf DEF DpcStep
  <1>2. /\ dpc.pc = "clean" /\ dpc.pc \in DpcBusy /\ DpcGo("empty")
        /\ UNCHANGED <<list, chan, slots, ring>>
    BY DEF Clean, DpcBusy
  <1>3. PICK i \in Ids : i = dpc.id
    BY <1>1, <1>2 DEF TypeInv
  <1>4. PICK f \in Flows : Held(i, f) /\ Working(i, f) /\ Cleaning(i, f)
    BY <1>1, <1>2, <1>3, DpcStage
  <1>5. dpc'.pc = "empty" /\ dpc'.id = i
    BY <1>1, <1>2, <1>3, DpcGoType DEF DpcPc
  <1>6. /\ lookup' = [lookup EXCEPT ![f] = None] /\ free' = free \cup {i}
        /\ node' = [node EXCEPT ![i].prot = FALSE]
    BY <1>3, <1>4, NoneNot DEF Clean, Held
  <1>7. /\ \A g \in Flows : lookup'[g] = IF g = f THEN None ELSE lookup[g]
        /\ \A j \in Ids \ {i} : node'[j] = node[j]
    BY <1>1, <1>6 DEF TypeInv
  <1>8. \A j \in Ids \ {i} : \A g \in Flows : lookup'[g] = j <=> lookup[g] = j
    BY <1>4, <1>7, NoneNot DEF Held
  <1>9. \A j \in Ids \ {i} : Stage(j)'
    BY <1>1, <1>2, <1>3, <1>5, <1>6, <1>7, <1>8, SameMail, DpcOthers DEF slots
  <1>10. i \in free' /\ \A g \in Flows : lookup'[g] # i
    BY <1>3, <1>4, <1>6, <1>7, NoneNot DEF Held
  <1>11. Quiet(i)' /\ Unused(i)'
    BY <1>2, <1>4 DEF Cleaning, Quiet, Unused, chan
  <1>12. Released(i)'
    BY <1>1, <1>5, <1>10, <1>11 DEF Released, DpcOn, DpcBusy
  <1> QED
    BY <1>9, <1>12 DEF Stage

LEMMA CleanQueueStage ==
  ASSUME Serial, IInv, CleanQueue
  PROVE  \A j \in Ids : Stage(j)'
  <1>1. /\ \A j \in Ids : /\ TxKept(j) /\ ~TxOn(j) /\ ~TxOn(j)'
                          /\ \A f \in Flows : tx[f].id # j
        /\ TypeInv
    BY DpcSelf DEF DpcStep
  <1>2. /\ dpc.pc = "empty" /\ dpc.pc \in DpcBusy /\ DpcGo("retire")
        /\ UNCHANGED <<lookup, free, list, chan, slots, ring>>
    BY DEF CleanQueue, DpcBusy
  <1>3. PICK i \in Ids : i = dpc.id
    BY <1>1, <1>2 DEF TypeInv
  <1>4. Released(i)
    BY <1>1, <1>2, <1>3, DpcStage
  <1>5. dpc'.pc = "retire" /\ dpc'.id = i
    BY <1>1, <1>2, <1>3, DpcGoType DEF DpcPc
  <1>6. /\ node'[i].queue = <<>>
        /\ \A j \in Ids \ {i} : node'[j] = node[j]
    <2>1. node \in [Ids -> Node] /\ node' = [node EXCEPT ![i].queue = <<>>]
      BY <1>1, <1>3 DEF TypeInv, CleanQueue
    <2> QED
      BY ONLY <2>1 DEF Node
  <1>7. \A j \in Ids \ {i} : Stage(j)'
    BY <1>1, <1>2, <1>3, <1>5, <1>6, SameMail, DpcOthers DEF slots
  <1>8. Quiet(i)' /\ Unused(i)'
    BY <1>2, <1>4 DEF Released, Quiet, Unused, chan
  <1>9. Released(i)'
    BY <1>1, <1>2, <1>4, <1>5, <1>6, <1>8 DEF Released, DpcOn, DpcBusy
  <1> QED
    BY <1>7, <1>9 DEF Stage

LEMMA CleanActiveStage ==
  ASSUME Serial, IInv, CleanActive
  PROVE  \A j \in Ids : Stage(j)'
  <1>1. /\ \A j \in Ids : /\ TxKept(j) /\ ~TxOn(j) /\ ~TxOn(j)'
                          /\ \A f \in Flows : tx[f].id # j
        /\ TypeInv
    BY DpcSelf DEF DpcStep
  <1>2. /\ dpc.pc = "retire" /\ dpc.pc \in DpcBusy
        /\ UNCHANGED <<lookup, free, chan, slots, ring>>
    BY DEF CleanActive, DpcBusy
  <1>3. PICK i \in Ids : i = dpc.id
    BY <1>1, <1>2 DEF TypeInv
  <1>4. Released(i)
    BY <1>1, <1>2, <1>3, DpcStage
  <1>5. \/ dpc'.pc = "reset" /\ dpc'.id = i
        \/ dpc'.pc = "idle"
    BY <1>1, <1>3, DpcGoType DEF CleanActive, DpcPc
  <1>6. /\ node'[i].queue = node[i].queue /\ ~node'[i].active
        /\ \A j \in Ids \ {i} : node'[j] = node[j]
        /\ list' = list \ {i}
    <2>1. node \in [Ids -> Node] /\ node' = [node EXCEPT ![i].active = FALSE]
          /\ list' = list \ {i}
      BY <1>1, <1>3 DEF TypeInv, CleanActive
    <2> QED
      BY ONLY <2>1 DEF Node
  <1>7. \A j \in Ids \ {i} : Stage(j)'
    BY <1>1, <1>2, <1>3, <1>5, <1>6, SameMail, DpcOthers DEF slots, DpcBusy
  <1>8. Quiet(i)' /\ Unused(i)'
    BY <1>2, <1>4 DEF Released, Quiet, Unused, chan
  <1>9. CASE dpc'.pc = "reset" /\ dpc'.id = i
    <2>1. Released(i)'
      BY <1>1, <1>2, <1>4, <1>6, <1>8, <1>9 DEF Released, DpcOn, DpcBusy
    <2> QED
      BY <1>7, <2>1 DEF Stage
  <1>10. CASE dpc'.pc = "idle"
    <2>1. Free(i)'
      BY <1>1, <1>2, <1>4, <1>6, <1>8, <1>10 DEF Released, Free, DpcOn, DpcBusy
    <2> QED
      BY <1>7, <2>1 DEF Stage
  <1> QED
    BY <1>5, <1>9, <1>10

LEMMA ResetStage ==
  ASSUME Serial, IInv, Reset
  PROVE  \A j \in Ids : Stage(j)'
  <1>1. /\ \A j \in Ids : /\ TxKept(j) /\ ~TxOn(j) /\ ~TxOn(j)'
                          /\ \A f \in Flows : tx[f].id # j
        /\ TypeInv
    BY DpcSelf DEF DpcStep
  <1>2. /\ dpc.pc = "reset" /\ dpc.pc \in DpcBusy /\ DpcGo("idle")
        /\ UNCHANGED <<lookup, free, list, chan, slots, ring>>
    BY DEF Reset, DpcBusy
  <1>3. PICK i \in Ids : i = dpc.id
    BY <1>1, <1>2 DEF TypeInv
  <1>4. Released(i)
    BY <1>1, <1>2, <1>3, DpcStage
  <1>5. dpc'.pc \notin DpcBusy
    BY <1>1, <1>2, DpcGoType DEF DpcPc, DpcBusy
  <1>6. /\ node'[i].queue = node[i].queue /\ ~node'[i].active
        /\ \A j \in Ids \ {i} : node'[j] = node[j]
    <2>1. /\ node \in [Ids -> Node]
          /\ node' = [node EXCEPT ![i] = [@ EXCEPT !.status = OPEN, !.active = FALSE]]
      BY <1>1, <1>3 DEF TypeInv, Reset
    <2> QED
      BY ONLY <2>1 DEF Node
  <1>7. \A j \in Ids \ {i} : Stage(j)'
    BY <1>1, <1>2, <1>3, <1>5, <1>6, SameMail, DpcOthers DEF slots
  <1>8. Quiet(i)' /\ Unused(i)'
    BY <1>2, <1>4 DEF Released, Quiet, Unused, chan
  <1>9. Free(i)'
    BY <1>1, <1>2, <1>4, <1>5, <1>6, <1>8 DEF Released, Free, DpcOn
  <1> QED
    BY <1>7, <1>9 DEF Stage

LEMMA DpcStepStage ==
  ASSUME Serial, IInv, DpcStep \/ \E f \in Flows : LinkUp(f) \/ LinkDown(f)
  PROVE  \A j \in Ids : Stage(j)'
  <1>1. (\A j \in Ids : TxKept(j)) /\ TypeInv
    BY DpcSelf
  <1>2. ASSUME NEW f \in Flows, LinkUp(f) \/ LinkDown(f)
        PROVE  \A j \in Ids : Stage(j)'
    <2>1. /\ dpc.pc = "idle" /\ dpc'.pc \in {"idle", "delete"}
          /\ UNCHANGED <<lookup, free, node, list, chan, slots, ring>>
      BY <1>1, <1>2 DEF LinkUp, LinkDown, TypeInv
    <2> QED
      BY <1>1, <2>1, DpcIdleStage DEF DpcBusy
  <1>3. CASE DeleteEnd
    <2>1. /\ dpc.pc = "delete" /\ dpc'.pc = "idle"
          /\ UNCHANGED <<lookup, free, node, list, chan, slots, ring>>
      BY <1>1, <1>3, DpcGoType DEF DeleteEnd, DpcPc, table
    <2> QED
      BY <1>1, <2>1, DpcIdleStage DEF DpcBusy
  <1> QED
    BY <1>2, <1>3, DeleteStage, DeleteSendStage, DeleteMarkStage, ResponseStage,
       PushStage, WalkStage, CleanStage, CleanQueueStage, CleanActiveStage,
       ResetStage DEF DpcStep

-----------------------------------------------------------------------------
(* The dongle's steps change what is under way about one ring.             *)
LEMMA DongleOthers ==
  ASSUME IInv, UNCHANGED <<table, tx, dpc, slots>>, NEW i,
         \A j \in Ids \ {i} : ring'[j] = ring[j] /\ MailKept(j)
  PROVE  \A j \in Ids \ {i} : Stage(j)'
  <1> SUFFICES ASSUME NEW j \in Ids \ {i} PROVE Stage(j)'
    OBVIOUS
  <1>1. TxKept(j) /\ DpcKept(j) /\ HostKept(j)
    BY DEF TxKept, DpcKept, HostKept, DpcOn, table
  <1>2. DongleKept(j)
    BY DEF DongleKept, slots
  <1> QED
    BY <1>1, <1>2, Framed DEF IInv

(* What the dongle may do about ring i while the host's side stays.        *)
Moved(i) ==
  /\ Quiet(i) /\ Unused(i) => Quiet(i)' /\ Unused(i)'
  /\ \A f \in Flows :
       /\ Creating(i, f) => Creating(i, f)' /\ (Owned(i, f) => Owned(i, f)')
       /\ Deleting(i, f) => Deleting(i, f)'
       /\ Quiet(i) /\ Up(i, f) /\ ~ring[i].deleting
            => /\ Quiet(i)' /\ Up(i, f)' /\ ~ring'[i].deleting
               /\ Owned(i, f) => Owned(i, f)'
       /\ tx[f].id = i /\ tx[f].pc = "clear" /\ "index" \notin Races
          /\ Requested(i, "create", f) /\ Unused(i)
            => Requested(i, "create", f)' /\ Unused(i)'

LEMMA DongleMoves ==
  ASSUME NEW i \in Ids, Stage(i), UNCHANGED <<table, tx, dpc>>, Moved(i)
  PROVE  Stage(i)'
  <1>1. CASE Free(i)
    <2>1. Free(i)'
      BY <1>1 DEF Moved, Free, table, TxOn, DpcOn
    <2> QED
      BY <2>1 DEF Stage
  <1>2. CASE Released(i)
    <2>1. Released(i)'
      BY <1>2 DEF Moved, Released, table, TxOn, DpcOn
    <2> QED
      BY <2>1 DEF Stage
  <1>3. ASSUME NEW f \in Flows, Held(i, f), Starting(i, f) \/ Working(i, f)
        PROVE  Stage(i)'
    <2>1. Held(i, f)'
      BY <1>3 DEF Held, table
    <2>2. CASE Starting(i, f)
      <3>1. TxAt(i, f, {"create", "clear", "mark", "activate"})' /\ ~DpcOn(i)'
        BY <2>2 DEF Starting, TxAt, DpcOn
      <3>2. /\ tx[f].pc = "create" => Quiet(i)' /\ Unused(i)'
            /\ tx[f].pc # "create" => Creating(i, f)'
            /\ tx[f].pc = "clear" /\ "index" \notin Races
                 => Requested(i, "create", f)' /\ Unused(i)'
            /\ tx[f].pc \in {"mark", "activate"} => Owned(i, f)'
        BY <2>2 DEF Starting, Moved
      <3>3. Starting(i, f)'
        BY <2>2, <3>1, <3>2 DEF Starting, table
      <3> QED
        BY <2>1, <3>3 DEF Stage
    <2>3. CASE Working(i, f)
      <3>1. \A pcs : TxAt(i, f, pcs) => TxAt(i, f, pcs)'
        BY DEF TxAt
      <3>2. ~TxOn(i) => ~TxOn(i)'
        BY DEF TxOn
      <3>3. DpcOn(i)' <=> DpcOn(i)
        BY DEF DpcOn
      <3>4. ASSUME Pending(i, f) PROVE Pending(i, f)'
        BY <3>1, <3>3, <3>4 DEF Pending, Moved, table
      <3>5. ASSUME Open(i, f) PROVE Open(i, f)'
        BY <3>1, <3>3, <3>5 DEF Open, Moved, table
      <3>6. ASSUME Going(i, f) PROVE Going(i, f)'
        BY <3>1, <3>3, <3>6 DEF Going, Moved, table
      <3>7. ASSUME Cleaning(i, f) PROVE Cleaning(i, f)'
        BY <3>2, <3>3, <3>7 DEF Cleaning, Moved, table
      <3>8. QueueOf(i, f)'
        BY <2>3 DEF Working, QueueOf, table
      <3>9. Working(i, f)'
        BY <2>3, <3>4, <3>5, <3>6, <3>7, <3>8 DEF Working, table
      <3> QED
        BY <2>1, <3>9 DEF Stage
    <2> QED
      BY <1>3, <2>2, <2>3
  <1> QED
    BY <1>1, <1>2, <1>3 DEF Stage

(* The dongle takes the oldest request: it is the only one of its ring.    *)
LEMMA RequestTaken ==
  ASSUME TypeInv, h2d # <<>>, h2d' = Tail(h2d),
         NEW i, i = h2d[1].id
  PROVE  /\ ~Quiet(i) /\ \A t, s : ~Answered(i, t, s)
         /\ \A t, f : Requested(i, t, f) =>
              /\ h2d[1].type = t /\ h2d[1].flow = f /\ NoMail(h2d', i)
              /\ d2h' = d2h => Quiet(i)'
              /\ \A u, s : Answer(u, i, s) => Answered(i, u, s)'
         /\ \A j : j # i =>
              /\ d2h' = d2h => MailKept(j)
              /\ \A u, s : Answer(u, i, s) => MailKept(j)
  <1>1. h2d \in Seq(ReqMsg) /\ d2h \in Seq(RspMsg) /\ i \in Ids
    BY Types DEF TypeInv
  <1>2. /\ ~NoMail(h2d, i)
        /\ \A n : n.id = i /\ OnlyMail(h2d, n) => h2d[1] = n /\ NoMail(h2d', i)
    BY <1>1, MailTaken
  <1>3. ~Quiet(i) /\ \A t, s : ~Answered(i, t, s)
    BY <1>2 DEF Quiet, Answered
  <1>4. ASSUME NEW t, NEW f, Requested(i, t, f)
        PROVE  /\ h2d[1].type = t /\ h2d[1].flow = f
               /\ NoMail(h2d', i) /\ NoMail(d2h, i)
    <2> DEFINE n == [type |-> t, id |-> i, flow |-> f]
    <2>1. n.id = i /\ OnlyMail(h2d, n) /\ NoMail(d2h, i)
      BY <1>4 DEF Requested
    <2>2. h2d[1] = n /\ NoMail(h2d', i)
      BY <1>2, <2>1
    <2> QED
      BY <2>1, <2>2
  <1>5. ASSUME NoMail(h2d', i), NoMail(d2h, i), d2h' = d2h
        PROVE  Quiet(i)'
    BY <1>5 DEF Quiet
  <1>6. ASSUME NoMail(h2d', i), NoMail(d2h, i), NEW u, NEW s, Answer(u, i, s)
        PROVE  Answered(i, u, s)'
    <2> DEFINE n == [type |-> u, id |-> i, status |-> s]
    <2>1. NoMail(d2h, n.id) /\ d2h' = Append(d2h, n)
      BY <1>6 DEF Answer
    <2>2. OnlyMail(d2h', n)
      BY <1>1, <2>1, MailSent
    <2> QED
      BY <1>6, <2>2 DEF Answered
  <1>7. ASSUME NEW j, j # i, d2h' = d2h PROVE MailKept(j)
    BY <1>1, <1>7, MailOthers
  <1>8. ASSUME NEW j, j # i, NEW u, NEW s, Answer(u, i, s) PROVE MailKept(j)
    <2>1. \E n : n.id = i /\ d2h' = Append(d2h, n)
      BY <1>8 DEF Answer
    <2> QED
      BY <1>1, <1>8, <2>1, MailOthers
  <1> QED
    BY <1>3, <1>4, <1>5, <1>6, <1>7, <1>8

LEMMA FreedRing ==
  ASSUME TypeInv, NEW i \in Ids, Freed(i)
  PROVE  Unused(i)' /\ \A j \in Ids \ {i} : ring'[j] = ring[j]
  BY DEF TypeInv, Freed, Unused

(* pciedev_process_flow_ring_create_rqst.                                  *)
LEMMA CreateRqstStage ==
  ASSUME IInv, CreateRqst
  PROVE  \A j \in Ids : Stage(j)'
  <1> DEFINE m == h2d[1]
  <1>1. /\ TypeInv /\ h2d # <<>> /\ h2d' = Tail(h2d) /\ m.type = "create"
        /\ m.id \in Ids /\ m.flow \in Flows
        /\ UNCHANGED <<table, tx, dpc, slots>>
    BY Types DEF IInv, CreateRqst
  <1>2. PICK i \in Ids : i = m.id
    BY <1>1
  <1>3. /\ ~Quiet(i) /\ \A t, s : ~Answered(i, t, s)
        /\ \A t, f : Requested(i, t, f) =>
              /\ m.type = t /\ m.flow = f
              /\ \A u, s : Answer(u, i, s) => Answered(i, u, s)'
        /\ \A j : j # i => \A u, s : Answer(u, i, s) => MailKept(j)
    BY <1>1, <1>2, RequestTaken
  <1>4. \/ Answer("create", i, "in use") /\ ring[i].inited /\ ring' = ring
        \/ /\ Answer("create", i, "success") /\ ~ring[i].inited
           /\ ring' = [ring EXCEPT ![i] = [@ EXCEPT !.inited = TRUE, !.flow = m.flow]]
        \/ Answer("create", i, "no memory") /\ ~ring[i].inited /\ ring' = ring
    BY <1>2 DEF CreateRqst
  <1>5. /\ \A j \in Ids \ {i} : ring'[j] = ring[j]
        /\ ring'[i].r = ring[i].r
        /\ \/ Answer("create", i, "in use") /\ ring[i].inited /\ ring' = ring
           \/ /\ Answer("create", i, "success") /\ ~ring[i].inited
              /\ ring'[i].inited /\ ring'[i].flow = m.flow
              /\ ring'[i].deleting = ring[i].deleting
           \/ Answer("create", i, "no memory") /\ ~ring[i].inited /\ ring' = ring
    <2>1. CASE /\ Answer("create", i, "success") /\ ~ring[i].inited
               /\ ring' = [ring EXCEPT ![i] = [@ EXCEPT !.inited = TRUE, !.flow = m.flow]]
      <3>1. ring \in [Ids -> Ring]
        BY <1>1 DEF TypeInv
      <3> HIDE DEF m
      <3>2. /\ \A j \in Ids \ {i} : ring'[j] = ring[j]
            /\ ring'[i].r = ring[i].r
            /\ ring'[i].inited /\ ring'[i].flow = m.flow
            /\ ring'[i].deleting = ring[i].deleting
        BY ONLY <2>1, <3>1 DEF Ring
      <3> QED
        BY <2>1, <3>2
    <2> QED
      BY <1>4, <2>1
  <1>6. \A j \in Ids \ {i} : Stage(j)'
    BY <1>1, <1>3, <1>5, DongleOthers
  <1>7. ASSUME NEW f \in Flows
        PROVE  /\ ~Deleting(i, f)
               /\ Creating(i, f) => /\ Requested(i, "create", f) /\ Unused(i)
                                    /\ m.flow = f
    <2>1. ~Requested(i, "delete", f)
      BY <1>1, <1>3
    <2>2. ~Deleting(i, f)
      BY <1>3, <2>1 DEF Deleting
    <2>3. Creating(i, f) => Requested(i, "create", f) /\ Unused(i)
      BY <1>3 DEF Creating
    <2> QED
      BY <1>3, <2>2, <2>3
  <1>8. ASSUME NEW f \in Flows, Creating(i, f) PROVE Creating(i, f)'
    <2>1. /\ Requested(i, "create", f) /\ m.flow = f
          /\ ~ring[i].inited /\ ~ring[i].deleting /\ Unused(i)
      <3>1. Requested(i, "create", f) /\ m.flow = f /\ Unused(i)
        BY <1>7, <1>8
      <3>2. ~ring[i].inited /\ ~ring[i].deleting
        BY <3>1 DEF Unused
      <3> QED
        BY <3>1, <3>2
    <2>2. \A u, s : Answer(u, i, s) => Answered(i, u, s)'
      BY <1>3, <2>1
    <2>3. CASE /\ Answer("create", i, "success") /\ ring'[i].inited
               /\ ring'[i].flow = m.flow /\ ring'[i].deleting = ring[i].deleting
      BY <2>1, <2>2, <2>3 DEF Creating, Up
    <2>4. CASE Answer("create", i, "no memory") /\ ring' = ring
      <3>1. Unused(i)' /\ Answered(i, "create", "no memory")'
        BY <2>1, <2>2, <2>4 DEF Unused
      <3> QED
        BY <3>1 DEF Creating
    <2> QED
      BY <1>5, <2>1, <2>3, <2>4
  <1>9. ASSUME NEW f \in Flows, Owned(i, f) PROVE Owned(i, f)'
    BY <1>1, <1>5, <1>9 DEF Owned, slots
  <1>10. ASSUME NEW f \in Flows, tx[f].id = i, tx[f].pc = "clear"
         PROVE  "index" \in Races
    <2>1. tx[f] \in [pc : TxPc, id : Ids]
      BY <1>1, <1>10, Types
    <2>2. tx[f] = [pc |-> "clear", id |-> i]
      BY <1>10, <2>1
    <2> QED
      BY <1>2, <2>2 DEF CreateRqst
  <1>11. Moved(i)
    BY <1>3, <1>7, <1>8, <1>9, <1>10 DEF Moved
  <1>12. Stage(i)'
    BY <1>1, <1>11, DongleMoves DEF IInv
  <1> QED
    BY <1>6, <1>12

(* pciedev_process_flow_ring_delete_rqst.                                  *)
LEMMA DeleteRqstStage ==
  ASSUME IInv, DeleteRqst
  PROVE  \A j \in Ids : Stage(j)'
  <1> DEFINE m == h2d[1]
  <1>1. /\ TypeInv /\ h2d # <<>> /\ h2d' = Tail(h2d) /\ m.type = "delete"
        /\ m.id \in Ids
        /\ UNCHANGED <<table, tx, dpc, slots>>
    BY Types DEF IInv, DeleteRqst
  <1>2. PICK i \in Ids : i = m.id
    BY <1>1
  <1>3. /\ ~Quiet(i) /\ \A t, s : ~Answered(i, t, s)
        /\ \A t, f : Requested(i, t, f) =>
              /\ m.type = t
              /\ d2h' = d2h => Quiet(i)'
              /\ \A u, s : Answer(u, i, s) => Answered(i, u, s)'
        /\ \A j : j # i => /\ d2h' = d2h => MailKept(j)
                           /\ \A u, s : Answer(u, i, s) => MailKept(j)
    BY <1>1, <1>2, RequestTaken
  <1>4. \/ Answer("delete", i, "not found") /\ ~ring[i].inited /\ Freed(i)
        \/ Answer("delete", i, "success") /\ Freed(i)
        \/ d2h' = d2h /\ ring' = [ring EXCEPT ![i].deleting = TRUE]
    BY <1>2 DEF DeleteRqst
  <1>5. /\ \A j \in Ids \ {i} : ring'[j] = ring[j]
        /\ \/ Answer("delete", i, "not found") /\ ~ring[i].inited
           \/ Answer("delete", i, "success") /\ Unused(i)'
           \/ /\ d2h' = d2h /\ ring'[i].deleting /\ ring'[i].r = ring[i].r
              /\ ring'[i].inited = ring[i].inited /\ ring'[i].flow = ring[i].flow
    <2>1. CASE \/ Answer("delete", i, "not found") /\ ~ring[i].inited /\ Freed(i)
               \/ Answer("delete", i, "success") /\ Freed(i)
      BY <1>1, <2>1, FreedRing
    <2>2. CASE d2h' = d2h /\ ring' = [ring EXCEPT ![i].deleting = TRUE]
      <3>1. ring \in [Ids -> Ring]
        BY <1>1 DEF TypeInv
      <3> QED
        BY ONLY <2>2, <3>1 DEF Ring
    <2> QED
      BY <1>4, <2>1, <2>2
  <1>6. \A j \in Ids \ {i} : Stage(j)'
    BY <1>1, <1>3, <1>5, DongleOthers
  <1>7. ASSUME NEW f \in Flows
        PROVE  /\ ~Creating(i, f) /\ ~Requested(i, "create", f)
               /\ Deleting(i, f) => /\ Requested(i, "delete", f) /\ Up(i, f)
                                    /\ Owned(i, f)
    <2>1. ~Requested(i, "create", f)
      BY <1>1, <1>3
    <2> QED
      BY <1>3, <2>1 DEF Creating, Deleting
  <1>8. ASSUME NEW f \in Flows, Deleting(i, f) PROVE Deleting(i, f)'
    <2>1. Requested(i, "delete", f) /\ Up(i, f) /\ Owned(i, f) /\ ring[i].inited
      BY <1>7, <1>8 DEF Up
    <2>2. /\ d2h' = d2h => Quiet(i)'
          /\ \A u, s : Answer(u, i, s) => Answered(i, u, s)'
      BY <1>3, <2>1
    <2>3. CASE Answer("delete", i, "success") /\ Unused(i)'
      BY <2>2, <2>3 DEF Deleting
    <2>4. CASE /\ d2h' = d2h /\ ring'[i].deleting /\ ring'[i].r = ring[i].r
               /\ ring'[i].inited = ring[i].inited /\ ring'[i].flow = ring[i].flow
      <3>1. Quiet(i)' /\ Up(i, f)' /\ Owned(i, f)'
        BY <1>1, <2>1, <2>2, <2>4 DEF Up, Owned, slots
      <3> QED
        BY <2>4, <3>1 DEF Deleting
    <2> QED
      BY <1>5, <2>1, <2>3, <2>4
  <1>9. Moved(i)
    BY <1>3, <1>7, <1>8 DEF Moved
  <1>10. Stage(i)'
    BY <1>1, <1>9, DongleMoves DEF IInv
  <1> QED
    BY <1>6, <1>10

(* A message is dealt with; a ring that is deleted may be drained by it.   *)
LEMMA DealStage ==
  ASSUME IInv, NEW i \in Ids, Deal(i)
  PROVE  \A j \in Ids : Stage(j)'
  <1> DEFINE r == NEXTTXP(ring[i].r, MaxItem)
  <1>1. /\ TypeInv /\ ring[i].inited /\ ring[i].r # tcm_w[i] /\ h2d' = h2d
        /\ UNCHANGED <<table, tx, dpc, slots>>
        /\ ring[i].r \in Idx /\ tcm_w[i] \in Idx
    BY Types DEF IInv, Deal
  <1>2. \/ Answer("delete", i, "success") /\ Freed(i) /\ ring[i].deleting
        \/ d2h' = d2h /\ ring' = [ring EXCEPT ![i].r = r]
    BY DEF Deal
  <1>3. /\ \A j \in Ids \ {i} : ring'[j] = ring[j]
        /\ \/ Answer("delete", i, "success") /\ Unused(i)' /\ ring[i].deleting
           \/ /\ d2h' = d2h /\ ring'[i].r = r
              /\ ring'[i].inited /\ ring'[i].flow = ring[i].flow
              /\ ring'[i].deleting = ring[i].deleting
    <2>1. CASE Answer("delete", i, "success") /\ Freed(i) /\ ring[i].deleting
      BY <1>1, <2>1, FreedRing
    <2>2. CASE d2h' = d2h /\ ring' = [ring EXCEPT ![i].r = r]
      <3>1. ring \in [Ids -> Ring]
        BY <1>1 DEF TypeInv
      <3> HIDE DEF r
      <3> QED
        BY <1>1, <2>2, <3>1 DEF Ring
    <2> QED
      BY <1>2, <2>1, <2>2
  <1>4. \A j \in Ids \ {i} : MailKept(j)
    <2>1. \/ d2h' = d2h
          \/ \E n : n.id = i /\ d2h' = Append(d2h, n)
      BY <1>2 DEF Answer
    <2> QED
      BY <1>1, <2>1, MailOthers
  <1>5. \A j \in Ids \ {i} : Stage(j)'
    BY <1>1, <1>3, <1>4, DongleOthers
  <1>6. ~Unused(i)
    BY <1>1 DEF Unused
  <1>7. ASSUME d2h' = d2h PROVE MailKept(i)
    BY <1>1, <1>7, SameMail DEF chan
  <1>8. ASSUME NEW f \in Flows, Owned(i, f), ring'[i].r = r PROVE Owned(i, f)'
    <2>1. SUFFICES ASSUME "index" \notin Races, NEW s \in Idx,
                          NTXPACTIVE(r, s, MaxItem) < NTXPACTIVE(r, tcm_w[i], MaxItem)
                   PROVE  mem[i][s] = f
      BY <1>1, <1>8 DEF Owned, slots
    <2>2. NTXPACTIVE(ring[i].r, s, MaxItem) < NTXPACTIVE(ring[i].r, tcm_w[i], MaxItem)
      BY <1>1, <2>1, WindowShrinks
    <2> QED
      BY <1>8, <2>1, <2>2 DEF Owned
  <1>9. ASSUME ~ring[i].deleting
        PROVE  /\ MailKept(i) /\ ring'[i].r = r /\ ~ring'[i].deleting
               /\ \A f : Up(i, f) => Up(i, f)'
    BY <1>3, <1>7, <1>9 DEF Up
  <1>10. ASSUME NEW f \in Flows, Creating(i, f)
         PROVE  Creating(i, f)' /\ (Owned(i, f) => Owned(i, f)')
    <2>1. Answered(i, "create", "success") /\ Up(i, f) /\ ~ring[i].deleting
      BY <1>6, <1>10 DEF Creating
    <2>2. Answered(i, "create", "success")' /\ Up(i, f)' /\ ~ring'[i].deleting
      BY <1>9, <2>1 DEF MailKept
    <2> QED
      BY <1>8, <1>9, <2>1, <2>2 DEF Creating
  <1>11. ASSUME NEW f \in Flows, Deleting(i, f)
         PROVE  Deleting(i, f)'
    <2>1. CASE Requested(i, "delete", f) /\ Up(i, f) /\ ~ring[i].deleting
               /\ Owned(i, f)
      <3>1. /\ Requested(i, "delete", f)' /\ Up(i, f)' /\ ~ring'[i].deleting
            /\ Owned(i, f)'
        BY <1>8, <1>9, <2>1 DEF MailKept
      <3> QED
        BY <3>1 DEF Deleting
    <2>2. CASE Quiet(i) /\ Up(i, f) /\ ring[i].deleting /\ Owned(i, f)
      <3>1. CASE Answer("delete", i, "success") /\ Unused(i)'
        <4> DEFINE n == [type |-> "delete", id |-> i, status |-> "success"]
        <4>1. /\ d2h \in Seq(RspMsg) /\ d2h' = Append(d2h, n)
              /\ NoMail(d2h, n.id) /\ NoMail(h2d, i)
          BY <1>1, <2>2, <3>1 DEF TypeInv, Answer, Quiet
        <4>2. OnlyMail(d2h', n)
          BY <4>1, MailSent
        <4>3. Answered(i, "delete", "success")'
          BY <1>1, <4>1, <4>2 DEF Answered
        <4> QED
          BY <3>1, <4>3 DEF Deleting
      <3>2. CASE /\ d2h' = d2h /\ ring'[i].r = r
                 /\ ring'[i].inited /\ ring'[i].flow = ring[i].flow
                 /\ ring'[i].deleting = ring[i].deleting
        <4>1. Quiet(i)' /\ Up(i, f)' /\ Owned(i, f)' /\ ring'[i].deleting
          BY <1>7, <1>8, <2>2, <3>2 DEF MailKept, Up
        <4> QED
          BY <4>1 DEF Deleting
      <3> QED
        BY <1>3, <3>1, <3>2
    <2> QED
      BY <1>6, <1>11, <2>1, <2>2 DEF Deleting
  <1>12. ASSUME NEW f \in Flows, Quiet(i), Up(i, f), ~ring[i].deleting
         PROVE  /\ Quiet(i)' /\ Up(i, f)' /\ ~ring'[i].deleting
                /\ Owned(i, f) => Owned(i, f)'
    BY <1>8, <1>9, <1>12 DEF MailKept
  <1>13. Moved(i)
    BY <1>6, <1>10, <1>11, <1>12 DEF Moved
  <1>14. Stage(i)'
    BY <1>1, <1>13, DongleMoves DEF IInv
  <1> QED
    BY <1>5, <1>14

-----------------------------------------------------------------------------
LEMMA InitStage == Init => \A i \in Ids : Stage(i)
  <1> SUFFICES ASSUME Init, NEW i \in Ids PROVE Stage(i)
    OBVIOUS
  <1>1. i # None
    BY NoneNot
  <1>2. Quiet(i) /\ Unused(i)
    BY DEF Init, Quiet, NoMail, Unused
  <1>3. ~TxOn(i) /\ ~DpcOn(i)
    BY <1>1 DEF Init, TxOn, DpcOn, IdleTx, IdleDpc, DpcBusy
  <1>4. Free(i)
    BY <1>1, <1>2, <1>3 DEF Init, Free
  <1> QED
    BY <1>4 DEF Stage

LEMMA NextInv == Serial /\ IInv /\ [Next]_vars => IInv'
  <1> SUFFICES ASSUME Serial, IInv, [Next]_vars PROVE IInv'
    OBVIOUS
  <1>1. TypeInv' /\ LockInv' /\ DpcInv'
    BY NextType, NextLock DEF IInv
  <1>2. ASSUME UNCHANGED vars, NEW i \in Ids PROVE Stage(i)'
    <2>1. TxKept(i) /\ DpcKept(i) /\ HostKept(i) /\ DongleKept(i)
      BY <1>2, SameMail DEF vars, table, slots, TxKept, DpcKept, HostKept,
         DongleKept, DpcOn
    <2> QED
      BY <2>1, Framed DEF IInv
  <1>3. \A i \in Ids : Stage(i)'
    BY <1>2, LookupStage, TxStepStage, DpcStepStage, CreateRqstStage,
       DeleteRqstStage, DealStage DEF Next, DongleStep
  <1> QED
    BY <1>1, <1>3 DEF IInv

LEMMA InitInv == Init => IInv
  BY InitType, InitLock, InitStage DEF IInv

-----------------------------------------------------------------------------
LEMMA OpenImplied == IInv => OpenAgreed
  <1> SUFFICES ASSUME IInv, NEW i \in Ids,
                      i \in list, node[i].status = OPEN, dpc.id # i
               PROVE  /\ ring[i].inited /\ ring[i].flow = node[i].flow
                      /\ ~ring[i].deleting
                      /\ lookup[node[i].flow] = i
                      /\ \A k \in 1..Len(h2d) : h2d[k].id # i
    BY DEF OpenAgreed
  <1>1. ~DpcOn(i)
    BY DEF DpcOn
  <1>2. Stage(i) /\ ~Free(i) /\ ~Released(i)
    BY <1>1 DEF IInv, Free, Released
  <1>3. \A f \in Flows : /\ ~Starting(i, f) /\ ~Pending(i, f)
                         /\ ~Going(i, f) /\ ~Cleaning(i, f)
    BY <1>1 DEF Starting, Pending, Going, Cleaning, OPEN, PENDING, DELETE_PENDING
  <1>4. PICK f \in Flows : Held(i, f) /\ Open(i, f)
    BY <1>2, <1>3 DEF Stage, Working
  <1> QED
    BY <1>4 DEF Held, Open, Up, Quiet, NoMail

(* A ring the dongle uses is used for the flow that has it.                *)
LEMMA UsedBy ==
  ASSUME IInv, NEW i \in Ids, ring[i].inited
  PROVE  \E f \in Flows : /\ Held(i, f) /\ Up(i, f)
                          /\ "index" \notin Races => Owned(i, f)
  <1>1. ~Unused(i)
    BY DEF Unused
  <1>2. Stage(i) /\ ~Free(i) /\ ~Released(i)
    BY <1>1 DEF IInv, Free, Released
  <1>3. PICK f \in Flows : Held(i, f) /\ (Starting(i, f) \/ Working(i, f))
    BY <1>2 DEF Stage
  <1>4. Creating(i, f) => Up(i, f)
    BY <1>1 DEF Creating
  <1>5. Deleting(i, f) => Up(i, f) /\ Owned(i, f)
    BY <1>1 DEF Deleting
  <1>6. CASE Starting(i, f)
    <2>1. tx[f].pc \in {"create", "clear", "mark", "activate"}
      BY <1>6 DEF Starting, TxAt
    <2>2. Creating(i, f) /\ ("index" \notin Races => Owned(i, f))
      BY <1>1, <1>6, <2>1 DEF Starting
    <2> QED
      BY <1>3, <1>4, <2>2
  <1>7. CASE Working(i, f)
    <2>1. Up(i, f) /\ Owned(i, f)
      BY <1>1, <1>4, <1>5, <1>7 DEF Working, Pending, Open, Going, Cleaning
    <2> QED
      BY <1>3, <2>1
  <1> QED
    BY <1>3, <1>6, <1>7

LEMMA WindowImplied == IInv /\ "index" \notin Races => WindowOwned
  <1> SUFFICES ASSUME IInv, "index" \notin Races, NEW i \in Ids, ring[i].inited,
                      NEW s \in Idx,
                      NTXPACTIVE(ring[i].r, s, MaxItem)
                        < NTXPACTIVE(ring[i].r, tcm_w[i], MaxItem)
               PROVE  mem[i][s] = ring[i].flow
    BY DEF WindowOwned
  <1> QED
    BY UsedBy DEF Up, Owned

(* A ring whose deletion is under way.                                     *)
LEMMA DeleteUnderWay ==
  ASSUME IInv, NEW i \in Ids,
         \/ \E k \in 1..Len(h2d) : h2d[k].type = "delete" /\ h2d[k].id = i
         \/ ring[i].deleting
  PROVE  \E f \in Flows : Going(i, f)
  <1>1. ~(Quiet(i) /\ ~ring[i].deleting)
    BY DEF Quiet, NoMail
  <1>2. Unused(i) => ~ring[i].deleting
    BY DEF Unused
  <1>3. ASSUME NEW f \in Flows PROVE ~Creating(i, f)
    <2>1. ~ring[i].deleting => ~NoMail(h2d, i)
      BY DEF NoMail
    <2>2. ASSUME Requested(i, "create", f), ~ring[i].deleting PROVE FALSE
      <3> DEFINE m == [type |-> "create", id |-> i, flow |-> f]
      <3>1. PICK k \in 1..Len(h2d) : h2d[k].type = "delete" /\ h2d[k].id = i
        BY <2>2
      <3>2. PICK l \in 1..Len(h2d) :
              h2d[l] = m /\ \A n \in 1..Len(h2d) : h2d[n].id = m.id => n = l
        BY <2>2 DEF Requested, OnlyMail
      <3>3. m.id = i /\ m.type = "create"
        OBVIOUS
      <3>4. k = l
        BY <3>1, <3>2, <3>3
      <3> QED
        BY <3>1, <3>2, <3>3, <3>4
    <2> QED
      BY <1>2, <2>1, <2>2 DEF Creating, Answered
  <1>4. Stage(i) /\ ~Free(i) /\ ~Released(i)
    BY <1>1, <1>2 DEF IInv, Free, Released
  <1>5. \A f \in Flows : /\ ~Starting(i, f) /\ ~Pending(i, f)
                         /\ ~Open(i, f) /\ ~Cleaning(i, f)
    BY <1>1, <1>2, <1>3 DEF Starting, Pending, Open, Cleaning
  <1> QED
    BY <1>4, <1>5 DEF Stage, Working

LEMMA PostStep ==
  ASSUME Serial, IInv, [Next]_vars, NEW i \in Ids, NEW f \in Flows, Going(i, f)
  PROVE  tcm_w'[i] = tcm_w[i]
  <1>1. TypeInv /\ tcm_w \in [Ids -> Idx]
    BY DEF IInv, TypeInv
  <1>2. ASSUME NEW g \in Flows, CreateClear(g) \/ Schedule(g), tcm_w'[i] # tcm_w[i]
        PROVE  FALSE
    <2>1. tx[g].id = i
      BY <1>1, <1>2 DEF CreateClear, Schedule, ScheduleQueue
    <2>2. tx[g].pc \in {"clear", "schedule"}
      BY <1>2 DEF CreateClear, Schedule
    <2> QED
      BY <2>1, <2>2 DEF Going, TxAt
  <1>3. ASSUME Push, tcm_w'[i] # tcm_w[i] PROVE FALSE
    <2>1. dpc.id = i /\ dpc.pc = "push"
      BY <1>1, <1>3 DEF Push, ScheduleQueue
    <2> QED
      BY <2>1 DEF Going, DpcOn, DpcBusy
  <1>4. ASSUME NEW j \in Ids, Walk(j), tcm_w'[i] # tcm_w[i] PROVE FALSE
    <2>1. j = i /\ node[j].queue # <<>>
      BY <1>1, <1>4 DEF Walk, ScheduleQueue
    <2> QED
      BY <2>1 DEF Going
  <1>5. ASSUME NEW g \in Flows,
               \/ Lookup(g) \/ CreateSend(g) \/ CreateMark(g) \/ Activate(g)
               \/ Post(g) \/ Enqueue(g) \/ LinkUp(g) \/ LinkDown(g)
        PROVE  tcm_w' = tcm_w
    BY <1>5 DEF Lookup, CreateSend, CreateMark, Activate, Post, Enqueue, LinkUp,
       LinkDown, slots
  <1>6. ASSUME DpcStep, ~Push, \A j \in Ids : ~Walk(j)
        PROVE  tcm_w' = tcm_w
    BY <1>6 DEF DpcStep, DeleteEnd, DeleteSend, DeleteMark, Response, Clean,
       CleanQueue, CleanActive, Reset, DeleteRequest, slots
  <1>7. ASSUME DongleStep PROVE tcm_w' = tcm_w
    BY <1>7, DongleAlone DEF slots
  <1>8. ASSUME UNCHANGED vars PROVE tcm_w' = tcm_w
    BY <1>8 DEF vars, slots
  <1> QED
    BY <1>2, <1>3, <1>4, <1>5, <1>6, <1>7, <1>8 DEF Next, TxStep

-----------------------------------------------------------------------------
(* IInv is an invariant of the build with the perimeter lock.              *)
THEOREM Inductive == ASSUME Serial PROVE Spec => []IInv
  BY InitInv, NextInv, PTL DEF Spec

(* dhd_bus_flow_ring_create_response against the dongle's life cycle: a    *)
(* ring the host takes for open is one the dongle has created for the same *)
(* flow, and nothing about it is under way.                                *)
THEOREM OpenSafe == ASSUME Serial PROVE Spec => []OpenAgreed
  BY Inductive, OpenImplied, PTL

(* The packets in the window the dongle reads belong to the ring's flow:   *)
(* an id that is used again takes nothing over (dhd_prot_flow_ring_create, *)
(* dhd_prot_clean_flow_ring), if its write index is cleared in time.       *)
THEOREM WindowSafe ==
  ASSUME Serial, "index" \notin Races PROVE Spec => []WindowOwned
  BY Inductive, WindowImplied, PTL

(* No packet is posted on a ring once its deletion was requested           *)
(* (dhd_bus_flow_ring_delete_request, dhd_bus_txdata).                     *)
THEOREM PostSafe == ASSUME Serial PROVE Spec => NoPostOnDelete
  <1>1. IInv /\ [Next]_vars =>
          [\A i \in Ids :
             (\/ \E k \in 1..Len(h2d) : h2d[k].type = "delete" /\ h2d[k].id = i
              \/ ring[i].deleting)
             => tcm_w'[i] = tcm_w[i]]_vars
    BY DeleteUnderWay, PostStep
  <1> QED
    BY <1>1, Inductive, PTL DEF Spec, NoPostOnDelete

-----------------------------------------------------------------------------
(* Who has a ring, before and after a step.                                *)
LEMMA OwnerIs ==
  ASSUME NEW i \in Ids
  PROVE  /\ OwnerInv => \A f \in Flows : lookup[f] = i => OwnerOf(i) = f
         /\ (\A f \in Flows : lookup[f] # i) => OwnerOf(i) = None
         /\ OwnerInv' => \A f \in Flows : lookup'[f] = i => OwnerOf(i)' = f
         /\ (\A f \in Flows : lookup'[f] # i) => OwnerOf(i)' = None
  <1>1. ASSUME OwnerInv, NEW f \in Flows, lookup[f] = i PROVE OwnerOf(i) = f
    <2>1. \A g \in Flows : lookup[g] = i => g = f
      BY <1>1, NoneNot DEF OwnerInv
    <2> QED
      BY <1>1, <2>1 DEF OwnerOf
  <1>2. ASSUME OwnerInv', NEW f \in Flows, lookup'[f] = i PROVE OwnerOf(i)' = f
    <2>1. \A g \in Flows : lookup'[g] = i => g = f
      BY <1>2, NoneNot DEF OwnerInv
    <2> QED
      BY <1>2, <2>1 DEF OwnerOf
  <1> QED
    BY <1>1, <1>2 DEF OwnerOf

(* An owner is a flow that has the ring, if any.                           *)
LEMMA OwnerHas ==
  ASSUME NEW i \in Ids, OwnerOf(i) # None
  PROVE  OwnerOf(i) \in Flows /\ lookup[OwnerOf(i)] = i
  BY DEF OwnerOf

LEMMA SameOwner ==
  ASSUME OwnerInv, OwnerInv', NEW j \in Ids,
         \A g \in Flows : lookup'[g] = j <=> lookup[g] = j
  PROVE  OwnerOf(j)' = OwnerOf(j)
  <1>1. CASE \E g \in Flows : lookup[g] = j
    BY <1>1, OwnerIs
  <1>2. CASE \A g \in Flows : lookup[g] # j
    BY <1>2, OwnerIs
  <1> QED
    BY <1>1, <1>2

(* The lease and the use of the rings, as functions.                       *)
LeaseOf == [i \in Ids |-> OwnerOf(i)]
UseOf == [i \in Ids |-> IF ring[i].inited THEN ring[i].flow ELSE None]

(* The abstract state after a step in which the lease or the use of at     *)
(* most one ring changes.                                                  *)
LEMMA LeaseChange ==
  ASSUME NEW i \in Ids, \A j \in Ids \ {i} : OwnerOf(j)' = OwnerOf(j)
  PROVE  LeaseOf' = [LeaseOf EXCEPT ![i] = OwnerOf(i)']
  BY DEF LeaseOf

LEMMA UseChange ==
  ASSUME NEW i \in Ids, \A j \in Ids \ {i} : ring'[j] = ring[j],
         NEW v, v = IF ring'[i].inited THEN ring'[i].flow ELSE None
  PROVE  UseOf' = [UseOf EXCEPT ![i] = v]
  <1>1. UseOf'[i] = v /\ \A j \in Ids \ {i} : UseOf'[j] = UseOf[j]
    BY DEF UseOf
  <1> QED
    BY <1>1 DEF UseOf

(* dhd_flowid_lookup: a new id is a ring that is granted.                  *)
LEMMA LookupLease ==
  ASSUME TypeInv, OwnerInv, OwnerInv', NEW f \in Flows, Lookup(f)
  PROVE  \/ LeaseOf' = LeaseOf
         \/ \E i \in Ids : /\ LeaseOf[i] = None /\ \A j \in Ids : LeaseOf[j] # f
                           /\ LeaseOf' = [LeaseOf EXCEPT ![i] = f]
  <1>1. PICK i \in IF lookup[f] # None THEN {lookup[f]} ELSE free :
          lookup' = [lookup EXCEPT ![f] = i] /\ free' = free \ {i}
    BY DEF Lookup
  <1>2. lookup \in [Flows -> Ids \cup {None}] /\ free \in SUBSET Ids
    BY DEF TypeInv
  <1>3. CASE lookup[f] # None
    <2>1. \A g \in Flows : lookup'[g] = lookup[g]
      BY <1>1, <1>2, <1>3
    <2>2. \A j \in Ids : OwnerOf(j)' = OwnerOf(j)
      BY <2>1, SameOwner
    <2> QED
      BY <2>2 DEF LeaseOf
  <1>4. CASE lookup[f] = None
    <2>1. i \in Ids /\ i \in free /\ i # None
      BY <1>1, <1>2, <1>4, NoneNot
    <2>2. \A g \in Flows : lookup'[g] = IF g = f THEN i ELSE lookup[g]
      BY <1>1, <1>2
    <2>3. \A g \in Flows : lookup[g] # i
      BY <2>1 DEF OwnerInv
    <2>4. OwnerOf(i) = None /\ OwnerOf(i)' = f
      BY <2>1, <2>2, <2>3, OwnerIs
    <2>5. \A j \in Ids : OwnerOf(j) # f
      <3> SUFFICES ASSUME NEW j \in Ids, OwnerOf(j) = f PROVE FALSE
        OBVIOUS
      <3>1. lookup[f] = j /\ j # None
        BY OwnerHas, NoneNot
      <3> QED
        BY <1>4, <3>1
    <2>6. \A j \in Ids \ {i} : OwnerOf(j)' = OwnerOf(j)
      <3> SUFFICES ASSUME NEW j \in Ids \ {i} PROVE OwnerOf(j)' = OwnerOf(j)
        OBVIOUS
      <3>1. \A g \in Flows : lookup'[g] = j <=> lookup[g] = j
        BY <1>4, <2>2, NoneNot
      <3> QED
        BY <3>1, SameOwner
    <2>7. LeaseOf' = [LeaseOf EXCEPT ![i] = f]
      BY <2>1, <2>4, <2>6, LeaseChange
    <2> QED
      BY <2>1, <2>4, <2>5, <2>7 DEF LeaseOf
  <1> QED
    BY <1>3, <1>4

(* dhd_bus_clean_flow_ring: a ring is returned that the dongle does not    *)
(* use any more.                                                           *)
LEMMA CleanLease ==
  ASSUME Serial, IInv, OwnerInv, OwnerInv', Clean
  PROVE  /\ UseOf' = UseOf
         /\ \E i \in Ids : /\ LeaseOf[i] # None /\ UseOf[i] = None
                           /\ LeaseOf' = [LeaseOf EXCEPT ![i] = None]
  <1>1. TypeInv /\ \A f \in Flows : tx[f].id \notin Ids
    BY DpcSelf DEF DpcStep, TxOn
  <1>2. /\ dpc.pc = "clean" /\ dpc.pc \in DpcBusy /\ UNCHANGED ring
    BY DEF Clean, DpcBusy
  <1>3. PICK i \in Ids : i = dpc.id
    BY <1>1, <1>2 DEF TypeInv
  <1>4. PICK f \in Flows : Held(i, f) /\ Cleaning(i, f)
    BY <1>1, <1>2, <1>3, DpcStage
  <1>5. lookup' = [lookup EXCEPT ![f] = None]
    BY <1>3, <1>4, NoneNot DEF Clean, Held
  <1>6. /\ \A g \in Flows : lookup'[g] = IF g = f THEN None ELSE lookup[g]
        /\ \A g \in Flows : lookup[g] = i <=> g = f
        /\ i # None
    BY <1>1, <1>4, <1>5, NoneNot DEF TypeInv, Held
  <1>7. OwnerOf(i) = f /\ OwnerOf(i)' = None
    BY <1>6, OwnerIs
  <1>8. \A j \in Ids \ {i} : OwnerOf(j)' = OwnerOf(j)
    <2> SUFFICES ASSUME NEW j \in Ids \ {i} PROVE OwnerOf(j)' = OwnerOf(j)
      OBVIOUS
    <2>1. \A g \in Flows : lookup'[g] = j <=> lookup[g] = j
      BY <1>6, NoneNot
    <2> QED
      BY <2>1, SameOwner
  <1>9. ~ring[i].inited
    BY <1>4 DEF Cleaning, Unused
  <1>10. LeaseOf' = [LeaseOf EXCEPT ![i] = None]
    BY <1>7, <1>8, LeaseChange
  <1> QED
    BY <1>2, <1>7, <1>9, <1>10, NoneNot DEF LeaseOf, UseOf

(* pciedev_process_flow_ring_create_rqst: what is created is created for   *)
(* the flow that has the ring.                                             *)
LEMMA CreateRqstLease ==
  ASSUME IInv, OwnerInv, CreateRqst
  PROVE  \/ UseOf' = UseOf
         \/ \E i \in Ids : /\ LeaseOf[i] # None /\ UseOf[i] = None
                           /\ UseOf' = [UseOf EXCEPT ![i] = LeaseOf[i]]
  <1> DEFINE m == h2d[1]
  <1>1. /\ TypeInv /\ h2d # <<>> /\ h2d' = Tail(h2d) /\ m.type = "create"
        /\ m.id \in Ids /\ m.flow \in Flows
    BY Types DEF IInv, CreateRqst
  <1>2. PICK i \in Ids : i = m.id
    BY <1>1
  <1>3. \/ ring' = ring
        \/ /\ ~ring[i].inited
           /\ ring' = [ring EXCEPT ![i] = [@ EXCEPT !.inited = TRUE, !.flow = m.flow]]
    BY <1>2 DEF CreateRqst
  <1>4. CASE ring' = ring
    BY <1>4 DEF UseOf
  <1>5. CASE /\ ~ring[i].inited
             /\ ring' = [ring EXCEPT ![i] = [@ EXCEPT !.inited = TRUE, !.flow = m.flow]]
    <2>1. /\ \A j \in Ids \ {i} : ring'[j] = ring[j]
          /\ ring'[i].inited /\ ring'[i].flow = m.flow
      <3>1. ring \in [Ids -> Ring]
        BY <1>1 DEF TypeInv
      <3> HIDE DEF m
      <3> QED
        BY ONLY <1>5, <3>1 DEF Ring
    <2>2. /\ ~Quiet(i) /\ \A t, s : ~Answered(i, t, s)
          /\ \A t, f : Requested(i, t, f) => m.type = t /\ m.flow = f
      BY <1>1, <1>2, RequestTaken
    <2>3. ASSUME NEW f \in Flows
          PROVE  ~Deleting(i, f) /\ (Creating(i, f) => m.flow = f)
      <3>1. ~Requested(i, "delete", f)
        BY <1>1, <2>2
      <3>2. ~Deleting(i, f)
        BY <2>2, <3>1 DEF Deleting
      <3>3. Creating(i, f) => Requested(i, "create", f)
        BY <2>2 DEF Creating
      <3> QED
        BY <2>2, <3>2, <3>3
    <2>4. Stage(i) /\ ~Free(i) /\ ~Released(i)
      BY <2>2 DEF IInv, Free, Released
    <2>5. PICK f \in Flows : Held(i, f) /\ (Starting(i, f) \/ Working(i, f))
      BY <2>4 DEF Stage
    <2>6. m.flow = f
      <3>1. CASE Starting(i, f)
        <4>1. Creating(i, f)
          BY <2>2, <3>1 DEF Starting
        <4> QED
          BY <2>3, <4>1
      <3>2. CASE Working(i, f)
        BY <2>2, <2>3, <3>2 DEF Working, Pending, Open, Going, Cleaning
      <3> QED
        BY <2>5, <3>1, <3>2
    <2>7. OwnerOf(i) = f /\ f # None
      BY <2>5, OwnerIs, NoneNot DEF Held
    <2>8. UseOf' = [UseOf EXCEPT ![i] = f]
      BY <2>1, <2>6, UseChange
    <2> QED
      BY <1>5, <2>7, <2>8 DEF LeaseOf, UseOf
  <1> QED
    BY <1>3, <1>4, <1>5

(* What the dongle stops to use.                                           *)
LEMMA FreedLease ==
  ASSUME TypeInv, NEW i \in Ids, Freed(i), ring[i].inited => ring[i].flow # None
  PROVE  \/ UseOf' = UseOf
         \/ /\ UseOf[i] # None
            /\ UseOf' = [UseOf EXCEPT ![i] = None]
  <1>1. /\ \A j \in Ids \ {i} : ring'[j] = ring[j]
        /\ ~ring'[i].inited
    BY FreedRing DEF Unused
  <1>2. UseOf' = [UseOf EXCEPT ![i] = None]
    BY <1>1, UseChange
  <1>3. CASE ring[i].inited
    BY <1>2, <1>3 DEF UseOf
  <1>4. CASE ~ring[i].inited
    BY <1>2, <1>4 DEF UseOf
  <1> QED
    BY <1>3, <1>4

(* pciedev_process_flow_ring_delete_rqst, and a message dealt with: a ring *)
(* that is deleted is stopped, any other is used as before.                *)
LEMMA ServeLease ==
  ASSUME IInv, DeleteRqst \/ \E i \in Ids : Deal(i)
  PROVE  \/ UseOf' = UseOf
         \/ \E i \in Ids : UseOf[i] # None /\ UseOf' = [UseOf EXCEPT ![i] = None]
  <1>1. TypeInv /\ ring \in [Ids -> Ring]
    BY DEF IInv, TypeInv
  <1>2. PICK i \in Ids : \/ Freed(i)
                        \/ ring' = [ring EXCEPT ![i].deleting = TRUE]
                        \/ ring' = [ring EXCEPT ![i].r = NEXTTXP(@, MaxItem)]
    <2>1. CASE DeleteRqst
      <3>1. h2d[1].id \in Ids
        BY <1>1, <2>1, Types DEF DeleteRqst
      <3> QED
        BY <2>1, <3>1 DEF DeleteRqst
    <2>2. CASE \E i \in Ids : Deal(i)
      BY <2>2 DEF Deal
    <2> QED
      BY <2>1, <2>2
  <1>3. CASE Freed(i)
    <2>1. ring[i].inited => ring[i].flow # None
      BY UsedBy, NoneNot DEF Up
    <2> QED
      BY <1>1, <1>3, <2>1, FreedLease
  <1>4. CASE ring' = [ring EXCEPT ![i].deleting = TRUE]
    BY <1>1, <1>4 DEF UseOf, Ring
  <1>5. CASE ring' = [ring EXCEPT ![i].r = NEXTTXP(@, MaxItem)]
    BY <1>1, <1>5 DEF UseOf, Ring
  <1> QED
    BY <1>2, <1>3, <1>4, <1>5

LEMMA LeaseStep ==
  ASSUME Serial, IInv, OwnerInv, OwnerInv', [Next]_vars
  PROVE  [Lease!Next]_(Lease!vars)
  <1>1. TypeInv
    BY DEF IInv
  <1>2. lookup' = lookup => LeaseOf' = LeaseOf
    BY DEF LeaseOf, OwnerOf
  <1>3. ring' = ring => UseOf' = UseOf
    BY DEF UseOf
  <1>4. ASSUME NEW f \in Flows, Lookup(f)
        PROVE  \/ LeaseOf' = LeaseOf /\ UseOf' = UseOf
               \/ \E i \in Ids : Lease!Grant(i, f)
    <2>1. UseOf' = UseOf
      BY <1>3, <1>4 DEF Lookup
    <2>2. \/ LeaseOf' = LeaseOf
          \/ \E i \in Ids : /\ LeaseOf[i] = None /\ \A j \in Ids : LeaseOf[j] # f
                            /\ LeaseOf' = [LeaseOf EXCEPT ![i] = f]
      BY <1>1, <1>4, LookupLease
    <2> QED
      BY <2>1, <2>2 DEF Lease!Grant, LeaseOf, UseOf
  <1>5. ASSUME Clean
        PROVE  \E i \in Ids : Lease!Return(i)
    BY <1>5, CleanLease DEF Lease!Return, LeaseOf, UseOf
  <1>6. ASSUME CreateRqst
        PROVE  \/ LeaseOf' = LeaseOf /\ UseOf' = UseOf
               \/ \E i \in Ids : Lease!Start(i)
    <2>1. LeaseOf' = LeaseOf
      BY <1>2, <1>6 DEF CreateRqst, table
    <2> QED
      BY <1>6, <2>1, CreateRqstLease DEF Lease!Start, LeaseOf, UseOf
  <1>7. ASSUME DeleteRqst \/ \E i \in Ids : Deal(i)
        PROVE  \/ LeaseOf' = LeaseOf /\ UseOf' = UseOf
               \/ \E i \in Ids : Lease!Stop(i)
    <2>1. LeaseOf' = LeaseOf
      BY <1>2, <1>7 DEF DeleteRqst, Deal, table
    <2> QED
      BY <1>7, <2>1, ServeLease DEF Lease!Stop, LeaseOf, UseOf
  <1>8. ASSUME NEW f \in Flows, TxStep(f) \/ LinkUp(f) \/ LinkDown(f)
        PROVE  lookup' = lookup /\ ring' = ring
    BY <1>8 DEF TxStep, LinkUp, LinkDown, CreateSend, CreateClear, CreateMark,
       Activate, Post, Enqueue, Schedule, table
  <1>9. ASSUME DpcStep, ~Clean
        PROVE  lookup' = lookup /\ ring' = ring
    BY <1>9 DEF DpcStep, DeleteEnd, DeleteSend, DeleteMark, Response, Push,
       CleanQueue, CleanActive, Reset, DeleteRequest, Walk, table
  <1>10. ASSUME UNCHANGED vars PROVE lookup' = lookup /\ ring' = ring
    BY <1>10 DEF vars, table
  <1>11. LeaseOf' = LeaseOf /\ UseOf' = UseOf => UNCHANGED Lease!vars
    BY DEF Lease!vars, LeaseOf, UseOf
  <1> QED
    BY <1>2, <1>3, <1>4, <1>5, <1>6, <1>7, <1>8, <1>9, <1>10, <1>11
       DEF Next, DongleStep, Lease!Next

(* A flow ring is leased to one flow at a time (dhd_flowid_lookup,         *)
(* dhd_bus_clean_flow_ring), and the dongle uses it only within a lease    *)
(* and for the flow that has it (pciedev_process_flow_ring_create_rqst,    *)
(* _delete_rqst).                                                          *)
THEOREM LeaseSafe == ASSUME Serial PROVE Spec => ImplementsLease
  <1>1. Init => Lease!Init
    <2>1. ASSUME Init, NEW i \in Ids
          PROVE  OwnerOf(i) = None /\ ~ring[i].inited
      BY <2>1, NoneNot DEF Init, OwnerOf
    <2> QED
      BY <2>1 DEF Lease!Init
  <1>2. Init => IInv /\ OwnerInv
    BY InitInv, InitOwner
  <1>3. IInv /\ OwnerInv /\ [Next]_vars
          => IInv' /\ OwnerInv' /\ [Lease!Next]_(Lease!vars)
    <2>1. IInv => TypeInv
      BY DEF IInv
    <2> QED
      BY <2>1, NextInv, NextOwner, LeaseStep
  <1> QED
    BY <1>1, <1>2, <1>3, PTL DEF Spec, ImplementsLease, Lease!Spec
=============================================================================
