------------------------------ MODULE RxReorder ------------------------------
(***************************************************************************)
(* The block-ack reorder queue of one sender and traffic class             *)
(* (wlc_ampdu_rx.c) in the build in which the host's buffers hold the      *)
(* frames that wait (WLAMPDU_HOSTREORDER with BCMPCIEDEV_ENABLED).         *)
(*                                                                         *)
(*   A frame that arrives out of order is sent up at once with its rx      *)
(*   completion withheld: only the completion's id stays in rxq[].  When   *)
(*   the window moves, the ids of the frames it passes are linked          *)
(*   together.  The links hang on the frame that filled the hole, or the   *)
(*   chain is flushed to the bus layer by a call of its own.               *)
(*                                                                         *)
(*   The bus layer (pciedev_data.c) completes a chain up to the first      *)
(*   frame that is still on its queue d2h_req_q, and marks that frame to   *)
(*   continue when it comes.                                               *)
(*                                                                         *)
(* Frames are numbered in the order they are received; a frame's number is *)
(* also its completion id.                                                 *)
(***************************************************************************)
EXTENDS Naturals, Sequences, FiniteSets, SequencesExt

CONSTANTS
  SEQNUM_MAX,         (* sequence numbers on the air                       *)
  ba_max_rx_wsize,    (* slots of rxq[]                                    *)
  Wsizes,             (* window sizes a sender may ask for                 *)
  Start,              (* first sequence number of a session                *)
  Offsets,            (* distances from exp_seq at which frames arrive     *)
  DeadLim,            (* ticks without progress before a session is ended  *)
  HeadDrop,           (* may the stack drop a frame that carries a chain?  *)
  MaxFrames,          (* bound: frames received                            *)
  MaxDrops,           (* bound: frames freed on their way up               *)
  MaxBars,            (* bound: block ack requests that move the window    *)
  MaxSessions         (* bound: sessions opened                            *)

ASSUME ReorderAssumption ==
  /\ ba_max_rx_wsize \in Nat \ {0}
  /\ SEQNUM_MAX \in Nat /\ SEQNUM_MAX % (2 * ba_max_rx_wsize) = 0
  /\ Wsizes \subseteq 1..ba_max_rx_wsize
  /\ Start \in 0..SEQNUM_MAX-1 /\ Offsets \subseteq 0..SEQNUM_MAX-1
  /\ DeadLim \in Nat \ {0} /\ HeadDrop \in BOOLEAN
  /\ MaxFrames \in Nat /\ MaxDrops \in Nat
  /\ MaxBars \in Nat /\ MaxSessions \in Nat

VARIABLES
  resp,               (* scb_ampdu->resp[tid]: the session, or NoResp      *)
  resp_timer_running, (* the reorder timer                                 *)
  pcie,               (* the bus layer: d2h_req_q and the completions      *)
  num,                (* history: <<session, place>> of each frame         *)
  released,           (* history: frames in the order they were let go     *)
  session,            (* history: sessions opened                          *)
  base,               (* history: place of exp_seq in its session          *)
  bars                (* history: requests that moved the window           *)

vars == <<resp, resp_timer_running, pcie, num, released, session, base, bars>>

Frames == 1..MaxFrames
NoResp == [ba_wsize |-> 0]

Init ==
  /\ resp = NoResp /\ resp_timer_running = FALSE
  /\ pcie = [q |-> <<>>, after |-> [f \in Frames |-> <<>>], first |-> {},
             dropped |-> {}, done |-> {}, freed |-> {}]
  /\ num = <<>> /\ released = <<>> /\ session = 0 /\ base = 0 /\ bars = 0

-----------------------------------------------------------------------------
(* The window.                                                             *)

(* Slip: sequence numbers do not wrap.                                     *)
Forward_NoWrap(seq, n) == seq + n

(* NEXT_SEQ, n times.                                                      *)
Forward(seq, n) == (seq + n) % SEQNUM_MAX

RX_SEQ_TO_INDEX(seq) == seq % ba_max_rx_wsize

(* AMPDU_PKT_PENDING: an id is stored for this sequence number.            *)
Pending(r, seq) == r.rxq[RX_SEQ_TO_INDEX(seq)] # 0

(* Slip: an id goes to the head of the chain.                              *)
Link_AtHead(ids, id) == <<id>> \o ids

(* AMPDU_CHAIN_RXCPLID_TAIL.                                               *)
Link(ids, id) == Append(ids, id)

(* The ids stored for the next n sequence numbers, holes left out; each    *)
(* slot is passed once.                                                    *)
Passed(r, n) ==
  LET ids[k \in 0..Min({n, ba_max_rx_wsize})] ==
        IF k = 0 THEN <<>>
        ELSE IF Pending(r, r.exp_seq + (k - 1))
        THEN Link(ids[k-1], r.rxq[RX_SEQ_TO_INDEX(r.exp_seq + (k - 1))])
        ELSE ids[k-1]
  IN  ids[Min({n, ba_max_rx_wsize})]

(* wlc_ampdu_release_n_ordered.                                            *)
ReleaseN(r, n) ==
  LET ids == Passed(r, n)
  IN  [r EXCEPT !.exp_seq = Forward(@, n), !.alive = @ \/ n > 0,
                !.queued = @ - Len(ids),
                !.rxq = [i \in DOMAIN @ |->
                           IF @[i] \in ToSet(ids) THEN 0 ELSE @[i]],
                !.rxcpl_list = @ \o ids]

(* Frames that follow exp_seq without a hole.                              *)
InARow(r) ==
  CHOOSE k \in 0..ba_max_rx_wsize :
    /\ k = ba_max_rx_wsize \/ ~Pending(r, r.exp_seq + k)
    /\ \A j \in 0..k-1 : Pending(r, r.exp_seq + j)

(* wlc_ampdu_release_ordered.                                              *)
ReleaseOrdered(r) == ReleaseN(r, InARow(r))

(* AMPDU_HOST_HASPKT with the count that goes with it.                     *)
Store(r, seq, f) ==
  [r EXCEPT !.rxq[RX_SEQ_TO_INDEX(seq)] = f, !.queued = @ + 1]

(* AMPDU_CHAIN_RXCPLID_RESET.                                              *)
Reset(r) == [r EXCEPT !.rxcpl_list = <<>>]

-----------------------------------------------------------------------------
(* The bus layer's part.                                                   *)

Transit(d) == {d.q[k].id : k \in DOMAIN d.q}

(* Where a walk along ids stops, and the frames before that.               *)
Stops(d, ids) == {k \in DOMAIN ids : ids[k] \in Transit(d)}
Here(d, ids) == {ids[k] : k \in {i \in DOMAIN ids : \A j \in Stops(d, ids) : i < j}}

(* Slip: the frame a chain stops at is not told to continue.               *)
Complete_NoMark(d, ids, check_flush) ==
  [d EXCEPT !.done = @ \union (Here(d, ids) \ d.dropped),
            !.freed = @ \union (Here(d, ids) \intersect d.dropped)]

(* pciedev_queue_rxcomplete_local: infos of dropped frames are freed, the  *)
(* others go to the host; a frame on the queue ends the walk.              *)
Complete(d, ids, check_flush) ==
  LET k == Min(Stops(d, ids))
      walked == [d EXCEPT !.done = @ \union (Here(d, ids) \ d.dropped),
                          !.freed = @ \union (Here(d, ids) \intersect d.dropped)]
  IN  IF Stops(d, ids) = {} THEN walked
      ELSE [walked EXCEPT
              !.after[ids[k]] = SubSeq(ids, k+1, Len(ids)),
              !.first = IF check_flush THEN @ \union {ids[k]} ELSE @]

(* A frame that has left the queue: its completion is due unless withheld. *)
Arrived(d, f, need) ==
  IF need \/ f \in d.first
  THEN Complete(d, <<f>> \o d.after[f], f \in d.first)
  ELSE d

(* pciedev_lbuf_callback, for a frame freed before it reached the bus.     *)
Free(d, f, need) == Arrived([d EXCEPT !.dropped = @ \union {f}], f, need)

(* wlc_recvdata_ordered: up to d2h_req_q, or tossed on the way.            *)
SendUp(d, f, need, drop) ==
  IF drop THEN Free(d, f, need)
  ELSE [d EXCEPT !.q = Append(@, [id |-> f, need |-> need])]

(* Whether this frame is dropped on its way up.                            *)
Drop == IF Cardinality(pcie.dropped) < MaxDrops THEN BOOLEAN ELSE {FALSE}

(* AMPDU_CHAIN_RXCPLID_FLUSH.                                              *)
Flush(d, ids) == Complete(d, ids, TRUE)

-----------------------------------------------------------------------------
(* wlc_ampdu_recvdata: the cases of a received frame.                      *)

frame == Len(num) + 1

(* A frame comes at a distance from exp_seq.                               *)
Receives(offset) ==
  /\ frame <= MaxFrames
  /\ num' = Append(num, <<session, base + offset>>)
  /\ UNCHANGED <<session, bars>>

(* No session: frames go up as they come.                                  *)
RecvPlain ==
  /\ resp = NoResp
  /\ Receives(0)
  /\ \E drop \in Drop : pcie' = SendUp(pcie, frame, TRUE, drop)
  /\ released' = Append(released, frame)
  /\ base' = base + 1
  /\ UNCHANGED <<resp, resp_timer_running>>

(* The expected frame: it carries the chain of those it lets go.           *)
RecvExpected ==
  /\ resp # NoResp
  /\ Receives(0)
  /\ LET on == [resp EXCEPT !.exp_seq = Forward(@, 1), !.alive = TRUE]
         start == IF on.queued > 0 THEN Reset(on) ELSE on
         r == ReleaseOrdered(start)
         ids == r.rxcpl_list
     IN /\ \E drop \in Drop :
             /\ drop => HeadDrop \/ ids = <<>>
             /\ pcie' = SendUp([pcie EXCEPT !.after[frame] = ids], frame,
                               TRUE, drop)
        /\ released' = (released \o <<frame>>) \o ids
        /\ base' = base + 1 + InARow(start)
        /\ resp' = IF on.queued > 0 THEN Reset(r) ELSE r
  /\ UNCHANGED resp_timer_running

(* Already stored, or from the old half of the sequence space.             *)
Duplicate(seq, offset) ==
  \/ offset < resp.ba_wsize /\ Pending(resp, seq)
  \/ offset > SEQNUM_MAX \div 2

RecvDuplicate ==
  /\ resp # NoResp
  /\ \E offset \in Offsets \ {0} :
       /\ Duplicate(Forward(resp.exp_seq, offset), offset)
       /\ Receives(offset)
  /\ pcie' = Free(pcie, frame, TRUE)
  /\ UNCHANGED <<resp, resp_timer_running, released, base>>

(* In the window: the frame waits in the host's buffer.                    *)
RecvInWindow ==
  /\ resp # NoResp
  /\ \E offset \in (Offsets \ {0}) \intersect 1..resp.ba_wsize-1 :
       LET seq == Forward(resp.exp_seq, offset)
       IN /\ ~Duplicate(seq, offset)
          /\ Receives(offset)
          /\ resp' = Store(resp, seq, frame)
  /\ \E drop \in Drop : pcie' = SendUp(pcie, frame, FALSE, drop)
  /\ resp_timer_running' = TRUE
  /\ UNCHANGED <<released, base>>

(* Slip: the window does not move far enough for the frame to be its last. *)
Delta_OneLess(offset) == offset - resp.ba_wsize

Delta(offset) == (offset - resp.ba_wsize) + 1

(* Beyond the window: the window moves until the frame is its last one,    *)
(* and what it passed is flushed.                                          *)
RecvBeyond ==
  /\ resp # NoResp
  /\ \E offset \in {o \in Offsets : o >= resp.ba_wsize} :
       LET seq == Forward(resp.exp_seq, offset)
           moved == ReleaseN(Reset(resp), Delta(offset))
           r == ReleaseOrdered(Store(moved, seq, frame))
       IN /\ ~Duplicate(seq, offset)
          /\ Receives(offset)
          /\ resp' = Reset(r)
          /\ \E drop \in Drop :
               pcie' = Flush(SendUp(pcie, frame, FALSE, drop), r.rxcpl_list)
          /\ released' = released \o r.rxcpl_list
          /\ base' = base + Delta(offset) + InARow(Store(moved, seq, frame))
  /\ resp_timer_running' = TRUE

-----------------------------------------------------------------------------
(* The session.                                                            *)

(* ampdu_cleanup_tid_resp: everything that waits is flushed; the timer     *)
(* stops with the last session.                                            *)
Cleaned(d) ==
  IF resp = NoResp THEN d
  ELSE Flush(d, ReleaseN(resp, ba_max_rx_wsize).rxcpl_list)

Cleanup ==
  /\ resp # NoResp
  /\ released' = released \o ReleaseN(resp, ba_max_rx_wsize).rxcpl_list
  /\ base' = base + ba_max_rx_wsize
  /\ resp_timer_running' = FALSE

(* wlc_ampdu_recv_addba_req_resp, accepted; without memory for the new     *)
(* session the old one is gone all the same.                               *)
RecvAddba ==
  /\ session < MaxSessions
  /\ pcie' = Cleaned(pcie)
  /\ \/ resp = NoResp /\ UNCHANGED <<resp_timer_running, released>>
     \/ /\ resp # NoResp /\ resp_timer_running' = FALSE
        /\ released' = released \o ReleaseN(resp, ba_max_rx_wsize).rxcpl_list
  /\ session' = session + 1 /\ base' = 0
  /\ \/ resp' = NoResp
     \/ \E wsize \in Wsizes :
          resp' = [ba_wsize |-> wsize, exp_seq |-> Start, queued |-> 0,
                   alive |-> FALSE, dead_cnt |-> 0,
                   rxq |-> [i \in 0..ba_max_rx_wsize-1 |-> 0],
                   rxcpl_list |-> <<>>]
  /\ UNCHANGED <<num, bars>>

(* wlc_ampdu_rx_recv_delba, or the session is ended from this side.        *)
EndSession ==
  /\ Cleanup
  /\ pcie' = Cleaned(pcie) /\ resp' = NoResp
  /\ UNCHANGED <<num, session, bars>>

(* A fragment inside a session is a protocol failure.                      *)
RecvFragment ==
  /\ Receives(0)
  /\ Cleanup
  /\ pcie' = Cleaned(Free(pcie, frame, TRUE)) /\ resp' = NoResp

(* wlc_ampdu_recv_bar.                                                     *)
RecvBar ==
  /\ resp # NoResp
  /\ \E offset \in Offsets :
       LET start == IF resp.queued > 0 THEN Reset(resp) ELSE resp
           moved == ReleaseN(start, offset)
           r == ReleaseOrdered(moved)
       IN /\ offset <= SEQNUM_MAX \div 2
          /\ offset = 0 \/ bars < MaxBars
          /\ bars' = IF offset = 0 THEN bars ELSE bars + 1
          /\ resp' = Reset(r)
          /\ pcie' = Flush(pcie, r.rxcpl_list)
          /\ released' = released \o r.rxcpl_list
          /\ base' = base + offset + InARow(moved)
  /\ UNCHANGED <<resp_timer_running, num, session>>

-----------------------------------------------------------------------------
(* wlc_ampdu_resp_timeout, every AMPDU_RESP_TIMEOUT ms while it runs.  A   *)
(* release that empties the window sets alive, so that with one session    *)
(* the timer never finds it both idle and empty.                           *)

(* Slip: the timer is kept only for sessions found without progress.       *)
StartTimer_IfStuck == resp # NoResp /\ ~resp.alive /\ resp.queued > 0

StartTimer == resp # NoResp /\ resp.queued > 0

(* Progress since the last tick.                                           *)
TickAlive ==
  /\ resp_timer_running /\ resp # NoResp /\ resp.alive
  /\ resp' = [resp EXCEPT !.alive = FALSE, !.dead_cnt = 0]
  /\ resp_timer_running' = StartTimer
  /\ UNCHANGED <<pcie, num, released, session, base, bars>>

(* Frames wait and nothing has moved.                                      *)
TickStuck ==
  /\ resp_timer_running /\ resp # NoResp /\ ~resp.alive /\ resp.queued > 0
  /\ IF resp.dead_cnt + 1 < DeadLim
     THEN /\ resp' = [resp EXCEPT !.dead_cnt = @ + 1]
          /\ UNCHANGED <<pcie, released, base, resp_timer_running>>
     ELSE /\ Cleanup
          /\ pcie' = Cleaned(pcie) /\ resp' = NoResp
  /\ UNCHANGED <<num, session, bars>>

-----------------------------------------------------------------------------
(* pciedev_process_d2h_rxpyld: the frame at the head of d2h_req_q gets its *)
(* host buffer, or there is none and it is freed.                          *)
Payload ==
  /\ pcie.q # <<>>
  /\ LET h == Head(pcie.q)
         d == [pcie EXCEPT !.q = Tail(@)]
     IN \E drop \in Drop :
          pcie' = IF drop THEN Free(d, h.id, h.need)
                  ELSE Arrived(d, h.id, h.need)
  /\ UNCHANGED <<resp, resp_timer_running, num, released, session, base, bars>>

-----------------------------------------------------------------------------
Receive == \/ RecvPlain \/ RecvExpected \/ RecvDuplicate \/ RecvInWindow
           \/ RecvBeyond \/ RecvFragment \/ RecvBar

Next ==
  \/ Receive \/ RecvAddba \/ EndSession
  \/ TickAlive \/ TickStuck \/ Payload

Spec == Init /\ [][Next]_vars

FairSpec ==
  Spec /\ WF_vars(Payload) /\ WF_vars(TickAlive \/ TickStuck)
-----------------------------------------------------------------------------
(* Properties.                                                             *)

(* The fields of the session and of the bus layer hold what they may.      *)
TypeOK ==
  /\ \/ resp = NoResp
     \/ /\ resp.exp_seq \in 0..SEQNUM_MAX-1
        /\ resp.ba_wsize \in Wsizes /\ resp.queued \in 0..ba_max_rx_wsize
        /\ resp.dead_cnt \in 0..DeadLim-1 /\ resp.alive \in BOOLEAN
        /\ resp.rxq \in [0..ba_max_rx_wsize-1 -> 0..MaxFrames]
        /\ resp.rxcpl_list \in Seq(Frames)
  /\ resp_timer_running \in BOOLEAN
  /\ pcie.q \in Seq([id : Frames, need : BOOLEAN])
  /\ pcie.after \in [Frames -> Seq(Frames)]
  /\ \A s \in {pcie.first, pcie.dropped, pcie.done, pcie.freed} :
       s \subseteq Frames
  /\ Len(num) <= MaxFrames /\ ToSet(released) \subseteq Frames

Held == IF resp = NoResp THEN {} ELSE {resp.rxq[i] : i \in DOMAIN resp.rxq} \ {0}

(* The window is the one the sender was granted: every stored id belongs   *)
(* to a frame after exp_seq and before the end of the window and stands in *)
(* the slot of its sequence number, so the slot of the expected frame and  *)
(* that of a frame about to be stored are free (the ASSERTs of             *)
(* wlc_ampdu_recvdata); queued counts the stored ids, and no id is left on *)
(* the chain when a call returns, where the next RESET would lose it.      *)
WindowExact ==
  resp # NoResp =>
    /\ resp.queued = Cardinality(Held) /\ resp.rxcpl_list = <<>>
    /\ \A i \in DOMAIN resp.rxq : resp.rxq[i] # 0 =>
         LET place == num[resp.rxq[i]]
             offset == place[2] - base
         IN /\ place[1] = session /\ offset \in 1..resp.ba_wsize-1
            /\ RX_SEQ_TO_INDEX(resp.exp_seq + offset) = i

(* The reorder queue lets the frames of a session go in the order of their *)
(* sequence numbers, each once, whatever the mix of holes that are filled, *)
(* windows that jump, requests, time-outs and ends of the session.         *)
ReleasedInOrder ==
  \A j \in 1..Len(released)-1 :
    LET a == num[released[j]]  b == num[released[j+1]]
    IN a[1] < b[1] \/ (a[1] = b[1] /\ a[2] < b[2])

(* Frames on the queue whose arrival completes them and what hangs on them.*)
Due == {h \in Transit(pcie) : \/ h \in pcie.first
                              \/ [id |-> h, need |-> TRUE] \in ToSet(pcie.q)}

(* Every completion is in one place: with the host, freed with its frame,  *)
(* stored in the window, or due with a frame on the queue.  A withheld     *)
(* completion that nothing leads to is lost, and the host's buffer with it.*)
NothingStranded ==
  LET hanging == UNION {ToSet(pcie.after[h]) : h \in Due}
  IN \A f \in 1..Len(num) :
       Cardinality({p \in {"done", "freed", "held", "due", "hanging"} :
                      \/ p = "done" /\ f \in pcie.done
                      \/ p = "freed" /\ f \in pcie.freed
                      \/ p = "held" /\ f \in Held
                      \/ p = "due" /\ f \in Due
                      \/ p = "hanging" /\ f \in hanging}) = 1

(* A frame received is in the end completed to the host or freed: nothing  *)
(* waits for ever behind a hole that is never filled (wlc_ampdu_resp_time- *)
(* out) or for a chain that stopped at a frame on the queue.               *)
EventuallyCompleted ==
  \A f \in Frames :
    Len(num) >= f ~> f \in pcie.done \union pcie.freed
=============================================================================
