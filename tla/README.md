# The PCIe full-dongle message-buffer protocol of the 43602, in TLA+

The repository holds a Wi-Fi firmware for the Broadcom 43602 (`src/43602/src`)
and the Linux driver of its host (`src/dhd/src`). In a "full dongle" build the
firmware does the 802.11 work; driver and firmware talk over PCIe through
rings of fixed-size messages in host memory, the *message-buffer protocol*.
That protocol is the program's own concurrent core: two processors, a DMA engine
and several threads work on shared indices without locks across the bus. This
directory models it. Sections: [inventory](#1-inventory),
[plan](#2-plan), [modules](#3-the-modules-and-the-code),
[runs](#4-the-runs), [proofs](#5-the-proofs), [findings](#6-findings),
[what is left out](#7-what-is-not-modelled).

To check a module: `tlc -config H2DRing_rx.cfg MCH2DRing`; to check proofs:
`tlapm H2DRingProofs.tla`, and the same for the other modules whose name ends in `Proofs`. `PROJECT.json` lists the runs, the source lines each
definition stands for, the hazards, and for every checked property a *slip*: a
plausible coding error, kept in the module beside the correct definition and
marked "Slip", that the property catches.

## 1. Inventory

Paths: `dhd/` is `src/dhd/src/dhd/sys/`, `pciedev/` is `src/43602/src/pciedev/`.

| component | state | operations | properties that make it correct |
|---|---|---|---|
| **H2D rings, host** (`dhd/dhd_msgbuf.c`, `bcmpcie.h`) | write index, cached read index, claimed block | claim space, fill, roll back, publish index, doorbell | no slot is reused while it may still be read; nothing claimed is lost when a burst fails halfway |
| **H2D rings, dongle** (`pciedev/pciedev_data.c`, `pciedev.c`) | read index, `rd_pending`, DMA queue, local buffer pool, in-use list, ioctl lock and timer | scan, start DMA, handle DMA, move read index, take rx buffer | in order, exactly once, and eventually; no local buffer lost |
| **Tx flow rings, dongle** (`pciedev_data.c`, `pciedev.c`) | window of `inprocess`/`status_cmpl` bits, in-flight counts, status flags | fetch, send to wl, status, suppress, port close/open, poll, flush, delete | no packet completed twice, skipped or freed while wl holds it; flush and delete end |
| **Flow ring life cycle, host** (`dhd_flowring.c`, `dhd_pcie.c`) | flow table by (interface, priority, peer), id allocator, node status and queue | look-up, create, post, delete, responses, link and peer events | no post on a ring that is not open; an id is reused only when both sides are done with it |
| **D2H completion rings** (both sides) | batched tx statuses and rx completions, request queue, sync marker | queue, send batch, DMA, consume | every status arrives once; none is read before its DMA landed |
| **Packet id map** (`dhd_msgbuf.c:465-745`) | stack of free keys, locker array | reserve, save, allocate, free | an id names one packet; reserve/save/free only in legal order |
| **Ioctl path** (`dhd_msgbuf.c:2894-`, `pciedev.c:3196-3305, 3890-3977`) | pending request, ack, lock, response buffers | request, ack, completion, time-out | one ioctl at a time; a late completion is not taken for the next one's |
| **Rx and event buffer credits** (`dhd_msgbuf.c:1400-1670, 2509-2525`) | number of buffers posted | post, return | the dongle never starves while the host has memory |
| **Power states** (`pciedev.c`, `dhd_pcie.c`) | D3 request/ack, deep sleep engine | suspend, ack, resume | nothing in flight across D3; work that arrived is found at resume |
| RTE scheduler, timers, fetch queue (`shared/hndrte.c`) | timer list, run queue | schedule, expire | taken as: handlers run to completion, fetches finish in order |
| DMA driver (`shared/hnddma.c`) | descriptor rings | post, reclaim | taken as an in-order queue with a bound |
| Packet queues and pools (`bcmutils.c`, `hnd_pktq.c`, `hnd_pktpool.c`) | containers | enqueue, dequeue | sequential; sets and counters where used |
| Host OS glue (`dhd_linux*.c`, `dhd_pcie_linux.c`), host features (`dhd_common.c`, `dhd_psta.c`, ...) | threads, net devices | - | its concurrency is the interleaving of the host actions |
| **AMPDU receive reordering** (`wl/sys/wlc_ampdu_rx.c`, `pciedev_data.c:1638-1681`) | window start and size, stored completion ids, chains, timer | receive, block ack request, session begin and end, time-out | completions let go in order and once; none left behind a hole for ever |
| other 802.11 (`wl/sys/wlc*.c`): AMPDU transmit, association, scan, power save, P2P, PHY; crypto; build files | large, event driven | - | appears only as `wl`, the user of the flow rings |

How they interact. The host writes messages into a ring, then the write index
into the dongle's memory (TCM), then a doorbell register. The dongle's one
thread acknowledges the interrupt, reads the write index, starts DMAs and goes
on; a finished DMA is another interrupt. Messages of the control ring start
ioctls and create, delete or flush flow rings; those of the rx ring carry empty
buffers; those of a flow ring carry packets to send. Answers go back over three
D2H rings in the same way. The firmware's wl calls into the bus layer directly
(status of a packet, a buffer for a received frame, a port that closes), often
from inside the bus layer's own call to wl.

What is hard: the host's cached copies of indices; a doorbell that finds the
ring locked by an ioctl; scans nested in the handlers of other rings' messages;
out-of-order completion with roll-back of the fetch index; re-entrancy between
the fetch callback and wl; requests to end a ring that is still busy; answers
that find no buffer; a completion read before its DMA has landed; time-outs that
meet a late answer; completions that are withheld and hang on a frame which may be
dropped. `PROJECT.json` has the list, "hazards", each at its line.

## 2. Plan

In order of importance:

1. `RingIndex`, `MsgChannel`, `H2DRing`, `MCH2DRing`, `H2DRingProofs`: the rings every
   other message travels on. **Done, checked and proved.**
2. `TxWindow`, `FlowRingTx`, `FlowRingTxProofs`: the dongle's side of a tx flow ring.
   **Done, checked, and proved up to the first flush or delete request.**
3. `RingLease`, `FlowRingProtocol`, `FlowRingProtocolProofs`: the host's flow table and the
   dongle's rings under creation, deletion and link events against posts. **Done, checked
   and proved.** To add: peer events and the flush request.
4. `D2HRing`, `MCD2HRing`, `D2HRingProofs`: the completion rings with the request queue,
   the batches and the sync marker; both refine `MsgChannel`. **Done, checked and proved.**
5. `IoctlCalls`, `IoctlPath`, `IoctlPathProofs`: request, answer and time-out over both
   control rings with the lock. **Done, checked and proved.**
6. `RxReorder`, `RxReorderProofs`: the block-ack receive window and its completion
   chains. **Done, checked and proved.**

`ModProofs` and `SeqSumProofs` hold what several proofs need: quotients and remainders, and
sums and counts along sequences.

Left for later, if at all: the packet id map, the posting thresholds of rx buffers,
power states, and peer events and the flush request in `FlowRingProtocol`.

Modules to be proved about use no RECURSIVE operator; constants carry named
assumptions; invariants are conjunctions of named parts.

## 3. The modules and the code

**`RingIndex`** is the index arithmetic of `bcmpcie.h:186-216`, and `ADVANCE`, the
"add and wrap to 0" that both sides repeat after each block. A block never
passes the end of the ring, so wrapping to 0 is exact; `H2DRingProofs` proves that
it always meets this precondition.

**`MsgChannel`** is what a ring promises: a channel of bounded capacity which
hands over messages 1, 2, 3, ... once and in order.

**`H2DRing`** is one control-submission or rx-post ring, host and dongle.

- Host (`dhd_msgbuf.c`): `Claim` is `dhd_alloc_ring_space` with its retry after
  refreshing the cached read index; `Fill` one round of the fill loop; `GiveUp` the
  roll-back of a burst that fails; `PublishIndex` and `RingDoorbell` the two halves of
  `prot_ring_write_complete`. A thread may be overtaken between any two of them.
- Dongle (`pciedev_data.c`): it runs to completion, but the host and the DMA
  engine do not stop meanwhile, so a handler is split where it reads an index
  the host writes or passes from one ring's message to the next. `dpc` is where
  it is and `ret` where a nested scan returns to. `InUsePool` separates the two
  kinds of ring: rx buffers stay in their local buffer until received frames
  use them up (`TakeRxBuf`, which scans again, from inside a handler when it is
  called there); control messages leave it at once. The ioctl lock belongs to
  the control ring; the rx ring sees it taken (`EndScan`, `HandleIoctlDma`).
- The numbers in `slot` stand for the messages; `posted`, `fetched`, `log` are history
  that no guard reads, but for the bound `MaxMsgs`.

**`FlowRingTx`** is one tx flow ring on the dongle. Each action is one handler with every
helper it calls; the helpers are functions from ring record to ring record and
carry the C names, so a handler reads like the code: `pciedev_update_txstatus`
ends with `ClearSup`, then the pending responses, then the scheduler, as its C
counterpart does. The fetch callback alone is split into its messages, because
`PKTSEND` within it may bring statuses back before it goes on; `FetchDone` is its end and
what `pciedev_handle_h2d_dma` does after it, a scan of the rings (`RescanOf`), at once or,
where other callbacks or an ioctl come first, as a doorbell that waits. `wl` is the firmware
above: it holds packets, returns them in any order with a final status or
suppressed, closes and opens the port and polls. The host posts one message at
a time, as the block-wise claim is `H2DRing`'s subject; it sends one flush or delete
request in the life of the ring (the driver calls nothing that would flush and then
delete it) and takes the response. Once the ring is freed the model stops: reuse
of the id is `FlowRingProtocol`'s.

Simplifications, each with its reason: the ring's fetch requests (10 per ring)
never run out before the local buffers, of which eight are shared
(`PCIEDEV_MAX_LOCALBUF_COUNT`, `pciedev.c:4019`), so `BufCnt` bounds both; the traffic
indications to wl and the rounds over priorities do not change the ring's own
state; statuses other than 0 that mean "sent or dropped" take one path and are one
value, "TOSSED", and suppressions another one. A tx status is taken as
delivered, except during a flush, where the code handles its refusal.

**`TxWindow`** is what a flow ring promises: each message completed once, in any
order, and room for a new one only when the message that had its slot is done.

**`FlowRingProtocol`** is the life of flow rings on both sides.

- Host (`dhd_flowring.c`, `dhd_pcie.c`, `dhd_msgbuf.c`): each interface has a sender, which
  goes through `Lookup`, the four steps of creation (`CreateSend` to `Activate`) and
  those of posting (`Post`, `Enqueue`, `Schedule`); all share the DPC, which takes
  responses (`Response`, then `Push` or `Clean` to `Reset`), link events (`LinkDown`, then
  `DeleteRequest` to `DeleteMark` for each ring) and walks the list of rings (`Walk`).
- The perimeter lock. In the router build (`BCM_ROUTER_DHD` with `BCM_GMAC3`) "only the
  perimeter lock is taken" (`dhd_linux.c:768-787`), so a handler is never
  overtaken by another one of the host, only by the dongle. "threads" in `Races` takes
  the lock away, as in the other builds.
- Dongle (`pciedev.c`, `pciedev_data.c`): `CreateRqst`, `DeleteRqst`, and `Deal` for a message
  of the ring, which stands for all that `FlowRingTx` does with it.
- The host clears the ring's write index after it sent the create request
  (`dhd_msgbuf.c:3569`). The request takes a doorbell and a DMA, the index a single write
  to TCM, so the model lets the dongle read the request after the index is
  cleared; "index" in `Races` drops this assumption.
- Simplifications: one flow per station interface (priorities only multiply the
  flows); the control ring and host memory are never exhausted; every response is
  sent; the forwarder's bulk path, peer events and the flush request are left out.
- `NoPostOnDelete` states what `FlowRingTx` takes for granted: nothing is posted on a ring once
  its delete request is sent.

**`RingLease`** is what creation and deletion promise: a ring has one owner at a time,
and the dongle uses it only for that owner and stops before the ring is given back.

**`D2HRing`** is the pair of completion rings, in the build with a sequence number
modulo 253 as sync marker in every message.

- Dongle (`pciedev_data.c`). wl queues requests: a freed tx packet (`FreeTxPacket`) or a
  chain of received frames (`ReceiveChain`). `pciedev_queue_d2h_req_send` is split at its
  loops: `StartSend` retries the batches that found no room, `DrainList` puts waiting rx
  completions into a local buffer, `HandleTxMetadata` and `HandleRxPayload` serve one
  request each, `EndSend` sends what has been collected. It is called by
  `pciedev_handle_d2h_dma` (`HandleD2HDma`) and by wl's DPC (`FlushChainedPkts`, which ends
  with `FlushTx`). `xmit` and `Queue` stand for the pairs of functions for tx and rx,
  which do the same to two rings.
- Between the dongle and host memory: `out.flying` holds the messages a DMA has not
  yet written. `Land` writes them in any order, also after the write index has moved:
  that is what the marker is for.
- Host (`dhd_msgbuf.c`): `GetBlock`, then `Take` or `GiveUp` for each message, then
  `UpdReadIdx`.
- Simplifications: descriptors are counted in DMAs; an rx chain of freed frames,
  events, ioctl messages and D3 are left out; requests are numbered per ring.

**`IoctlCalls`** is what the ioctl path promises: calls one after the other, answers in
order, none twice. **`IoctlPath`** is how it is done.

- Host: `SendReq`, `PostBuf` and `PostDone` are `dhdmsgbuf_query_ioctl` up to its wait;
  `Answered`, or `Expire` and `Fail`, its end; between these two an answer may still
  come (`wait_event_timeout` returns before the perimeter lock is held again).
  `ReadCpl` is the DPC, which puts any answer where the caller looks.
- Dongle: `Scan` takes blocks while the lock is free, `HandleCtrl` handles one, the
  request that takes the lock and those that are dropped included; `FetchDone` has
  the arguments, as the shared host buffer holds them *then*; `Retry`, the end of
  every handler, runs the command once a response buffer and two completion slots are
  there; `D2HDone` of the answer frees the lock. Blocks fetched before the lock was
  taken are handled while it is.
- `SendOther`, `StartDma` and `OtherDma` are the neighbours: other messages on the completion
  ring, and DMAs of the data path, whose ends retry the ioctl. A pending ioctl stops most of
  what would start one (`pciedev_data.c:142-153`, `2210-2218`), though not the fetches of a
  scheduler's timer that is on or of a poll: `StartDma` stays possible and is never assumed.
- `SumOf` and `CountOf` (**`SeqSum`**) count messages and response buffers along queues; the
  laws the proofs need of them are in **`SeqSumProofs`**.
- Simplifications: response buffers are counted, not named; a request without
  arguments is served at the end of its block, not in its middle; the answer's payload
  is part of its message. A cancelled fetch (`pciedev.c:3983`) is left out:
  nothing calls `hndrte_flush_fetch_rqstq`.

**`RxReorder`** is the receive window of one sender and traffic class, in the build
with host reordering (`WLAMPDU_HOSTREORDER`; `ampduhostreorder` in
`dongle/rte/wl/Makefile.top:1101`), where a frame out of order goes to the host at
once and only its *completion* waits.

- `RecvExpected`, `RecvDuplicate`, `RecvInWindow`, `RecvBeyond`, `RecvPlain` and
  `RecvFragment` are the cases of `wlc_ampdu_recvdata`; `RecvBar`, `RecvAddba`,
  `EndSession` and the two `Tick` actions the other handlers of the session.
- The bus layer's half: `SendUp` puts a frame on `d2h_req_q`, `Payload` takes it off,
  `Complete` walks a chain and stops at a frame that is still on the queue, which it
  marks to go on when it arrives; `Free` is `pciedev_lbuf_callback` for a frame that was
  dropped instead.
- `num`, `base` and `session` are history: the true place of each frame in its session,
  which the properties compare with the numbers that wrap.
- Simplifications: A-MSDU chains and the packet-chaining fast path
  (`wlc_ampdu_chainable`: `RecvExpected` with nothing queued); a session that is
  declined changes nothing; the timer serves one session, so a tick never finds it
  idle and empty (whatever empties the window also sets `alive`).

## 4. The runs

| run | constants | what it shows | states |
|---|---|---|---|
| `rx` | 4 slots, bursts of 1, exactly 2 and exactly 3, 2 local buffers of 2 items, 2 descriptors, 6 messages | channel, memory safety of the slots, roll-back, pool, liveness on the rx ring | 48,104 |
| `suppress` | 4 slots, blocks of up to 3, 2 buffers, 5 messages, 2 suppressions, 1 port close, 1 poll | window, nothing skipped or sent twice, everything completes | 68,002 |
| `requests` | 3 slots, blocks of up to 2, 4 messages, 1 refused status, 1 poll, a flush or a delete | request at any point: answered, a ring freed only when drained | 9,661 |
| `life` | 2 flows, 2 ids, 2 slots, 3 packets, 2 losses of a link, 1 failed creation | ids have one owner, both sides agree on an open ring, the dongle takes only its flow's packets, nothing posted on a ring that goes, queues drain, the lease | 173,900 |
| `d2h` | 4 slots, 2 local buffers of 2 items, 4 DMAs, markers modulo 3, chains of up to 2, four loads (6 tx; 5 rx; 5 tx with 1 given up; 2 of each) | every completion in one place, both rings are channels, no marker of another round is taken for the one due, everything arrives but for rx completions in a half-full buffer with no request queued | 289,703 |
| `ioctl` | 2 calls, 1 response buffer posted at a time and 2 in the pool, control rings of 5 and 3, 1 failed allocation, 1 other completion, 1 data DMA at a time | answers in order, own until a failure, no lock-out, surplus bounded, lock kept and call unanswered only where no DMA is left to end | 88,334 |
| `reorder` | 16 numbers, 4 slots, window of 3, first number 13, frames and block ack requests at distances 0, 1, 2, 4 and 9, 3 frames, 1 dropped, 1 request, 1 session | window exact, in order, no completion stranded, all completed in the end | 90,267 |
| `pending` | as `life`, 2 packets, 1 loss of a link | finding 1 | - |
| `late` | 2 calls, nothing else in the way | finding 2 | - |
| `stuck` | 2 calls, 2 other completions, 1 data DMA at a time | finding 3 | - |
| `stranded` | as `reorder`, any frame may be dropped | finding 4 | - |
| `cleared` | as `d2h`, 3 messages on either ring, none given up | finding 5 | - |

The bounds. With 4 slots, 3 of them usable, 5 or 6 messages take every index
past the end of the ring, full and empty, with a block ending at the last
slot and one that would pass it; `requests` has 3 slots and 4 messages to the same
effect. Two local buffers and two descriptors
are the least with one block behind another. `MaxSup`, `MaxRefuse`, `MaxClose` and `MaxPoll` count the
times the environment may do what it may do for ever. `FetchMod` is 256, the
width of `fetch_pending`. In `life` 3 packets and 2 losses of a link are enough to
create a ring, use it, lose it and use its id again for either flow, with the
answers of both rounds under way; a ring of 2 slots is full with one message, so
queues form. `requests` allows no suppression and one refusal,
because beyond that the properties fail: the passing run says
where the code's guarantee ends (section 6).

In `d2h` six tx statuses wrap the ring once and the markers twice; with four DMAs the
descriptors run out before the local buffers do. The modulus is less than the
ring and has no divisor in common with it, as 253 is to 256, 512 and 1024, so the marker 0 comes while slots
are still as the host cleared them, in `d2h` as in `cleared`. In `ioctl` the second call
meets whatever a first one that timed out has left: its answer in flight, its
request dropped, its buffer in the pool; three completion slots are one more than an
ioctl needs, so that another completion makes it wait. In `reorder` a session begins
three numbers before the wrap; of the distances, 1 and 2 are in the window, 4 is beyond it
and moves it, 9 is in the old half; three frames make two holes, fill one and jump over
the other. A window moved by more than `ba_max_rx_wsize` needs a larger number
space than the run can afford; the theorems (section 5) cover it.

`CHECK_DEADLOCK FALSE` is set because every bounded behaviour ends.

Fairness. `H2DRing`: a host thread that began a post finishes it; the dongle's loop
serves what is pending. `pciedev_dpc` handles each interrupt cause in turn and an
RTE timer runs between interrupts; each of these is enabled only while the
thread is idle, so weak fairness would allow it to be passed over for ever,
and strong fairness is what a loop over all causes gives. `TakeRxBuf` and
`IoctlDone` are fair because frames keep arriving and ioctls end: the protocol
relies on both. `FlowRingTx`: weak fairness of all the dongle's work together, and
of the host's taking a response; wl returns every packet in the end (`Final`), and a
station that sleeps wakes up. `FlowRingProtocol`: a sender that began a packet finishes
it, the DPC is scheduled while it has work, the dongle serves its rings; links and
packets are left to chance. `D2HRing`: writes land, a DMA that is done is reported, the host
serves each ring, and wl's DPC, which runs on every radio interrupt, flushes again
and again (strong fairness, as the dongle's thread is shared); the host's moving of
the read index wakes nobody. `IoctlPath`: host and dongle go on with what they have,
and the DMAs under way end; nothing starts another. So the lock is not released in every
behaviour (`EventuallyUnlocked`, run `stuck`), and the `ioctl` run shows what is left:
`UnlockedOrStarved`, a lock kept for good is that of a pending ioctl when the dongle has no
DMA left, and `AnswerArrives`, a call without an answer waits for just that. A retry that comes
when the host has made room never fails. A time-out is never assumed. `RxReorder`: the timer ticks
while it runs and the bus layer's queue drains. Nothing is assumed of suppression,
polls, posts, calls, received frames or drops.

## 5. The proofs

Each proof module holds for every value of the constants its model's assumptions
admit, and without the bounds the runs put on the load. Each rests on an inductive
invariant `IInv`: one lemma says that it holds initially, one lemma per action that the
action keeps it, and `Inductive` is `Spec => []IInv` (in `D2HRingProofs` there are two, one
on top of the other, and in `RxReorderProofs` too, `WinInv` and `ChainInv`; in
`FlowRingTxProofs` it is `Inv`). The theorems follow from it. TLC checked each of them on the
instance of the module's run before it was proved.

### The H2D rings

`H2DRingProofs`, for every ring size of at least two slots, every set of
request sizes and every pool and descriptor bound (`RingAssumption`, what
`pciedev_allocate_msgbuf_ring` sets up):

| theorem | says |
|---|---|
| `TypeCorrect` | indices stay inside the ring; a block is never empty |
| `FetchSafe` | the host never overwrites a slot a DMA in flight reads |
| `RollbackSafe` | after any burst, whole or partial, the write index is exact |
| `PoolSafe` | no local buffer is lost or freed twice |
| `RingImplementsChannel` | the ring implements `MsgChannel` of capacity `MaxItem - 1` |

None of the properties is inductive. That a block in flight is not overwritten
depends on the host's claim having been made against a read index that may be
old; so `HostInv` says that going from the cached read index to the write index
one meets the real read index, `IndexInv` ties the distance of any two
indices to the number of messages between them, `SlotInv` says what each slot
between read and write index holds, and `DmaInv` that the blocks in flight are
consecutive from the last message handled to the last one fetched. `PoolConserved`
and `LogInv` complete `IInv`. The lemmas on `Dist` (the distance over the wrap)
carry the modular arithmetic. `ChannelStep` shows that publishing an index is the channel's
`Send`, handling a block its `Receive`, and every other step a stutter.

### The life cycle of flow rings

`FlowRingProtocolProofs`, for any flows, ids, ring size, number of packets, link losses
and failed creations (`ProtocolAssumption`):

| theorem | says | if |
|---|---|---|
| `TypeCorrect` | every variable keeps its type | - |
| `IdsSafe` | no id is lost or has two owners | - |
| `OpenSafe` | a ring open for the host is created, for the same flow, with no request about it under way | lock |
| `PostSafe` | nothing is posted between a delete request and its answer | lock |
| `WindowSafe` | the dongle finds only packets of the ring's own flow in its window | lock, index |
| `LeaseSafe` | the life cycle implements `RingLease` | lock |

"lock" is the build with the perimeter lock (`Serial`: "threads" is not in `Races`),
"index" that the write index is cleared before the dongle handles the create
request ("index" is not in `Races`); both are as the `life` run has them, and section 3 says why.
The first two theorems need neither: ids are safe even where the host's threads
interleave. Without the lock the others are false (section 6).

An id is handed from the host to the dongle and back by mail that may still be under
way, so nothing short of the whole state of an id is inductive. `IInv` says that each id
is in one of seven stages, `Free`, `Starting`, `Pending`, `Open`, `Going`, `Cleaning`
and `Released`, and each stage fixes the host's node, the mail about the id (`NoMail`,
`OnlyMail`, `Requested`, `Answered`), what the dongle has of it and which host
procedure may be at work on it. Under the lock only one procedure is half way, so each
action moves one id from one stage to another and leaves the others as they are.
`LeaseStep` shows that `Lookup` is the lease's `Grant`, the dongle's `CreateRqst` its `Start`, the
answer to a delete request its `Stop`, `Clean` its `Return`, and the rest stutter.

### The ioctl path

`IoctlPathProofs`, for any number of calls, of buffers posted, of failed allocations and
of other completions, and any ring sizes (`IoctlAssumption`):

| theorem | says |
|---|---|
| `TypeCorrect` | no ring and no buffer pool overflows; the host frees no buffer it does not hold |
| `LockoutFree` | while a request is served there is a buffer for its answer |
| `SurplusSafe` | each failed call leaves at most one response buffer too many |
| `OwnSafe` | until a call fails each returns its own answer, and each command runs on its own arguments |
| `CallsSafe` | the path implements `IoctlCalls`: answers in order, none twice |

A call that timed out leaves its request, its answer and its buffers anywhere between host
and dongle, and the next call adds its own. `OrderInv` therefore follows a call through six
stages: posted in the ring, fetched by a DMA, served, coming in the completion ring, got
by the DPC, returned. Whatever is in a later stage belongs to an earlier call than
whatever is in a stage before it, so answers can only return in order. `BufInv` says that
the buffers on their way, summed over the ring, the DMAs, the pool and the completions,
are no more than the host holds. `OwnInv` adds that as long as no call has failed, the
stages hold the current call and nothing else. The sums and counts rest on
`SeqSumProofs`: what appending, splitting and taking the first do to them.
`Retry` ends every handler of the dongle; `RetryKeeps` shows once that it keeps `IInv`,
and the lemma of each handler stops where `Retry` begins.

### The completion rings

`D2HRingProofs`, for rings of any size from 2, any local buffers, descriptors, markers and
chains, and any loads (`D2HAssumption`):

| theorem | says | if |
|---|---|---|
| `TypeCorrect` | every variable keeps its type | - |
| `LostSafe` | every completion asked for is in exactly one place | - |
| `BuffersSafe` | a local buffer is free, being filled or the source of one DMA | - |
| `ChannelSafe` | both rings implement `MsgChannel` | `MarksDiffer` |
| `MarkerSafe` | the host takes for the message due that message, or cleared memory for one with marker 0 | `MarksDiffer` |

The argument has two layers. The first, `BaseInv`, does not look at the markers. The dongle's
handlers are chains of functions on its output state, so a part of it, `OutOK`, is a
predicate on such a state, and each function (`xmit`, `Insert`, `Queue`, `Payload`) has one
lemma that it keeps it: the messages behind the write index, those in DMAs and those in the
local buffer are consecutive, a DMA's writes go to slots which the host has given back,
and of two writes to one slot the later one has the later message. `ReqInv` numbers the requests
that follow them, through the rx chain and list and the queue.

The second, `MainInv`, is about the host. It may look at a slot before the message due has
landed, and then finds an older one. `GotOK` says how old: at most one round for each message
given up, since every message taken by its marker was the right one. So the marker
found cannot be the marker due if `MarksDiffer`: `k * MaxItem` is no multiple of `Modulo`
for `k` up to one more than the messages given up. The code's 253 is 11 * 23 and its rings have
256, 512 and 1024 slots, so this holds for up to 251 of them. A slot that was never written
holds 0, which is the marker of message 253: it is taken there
too early, without a type (finding 5), but in its own turn, so the channel stays in order.
`MarkerSafe` says that nothing else is taken for the message due: `MarkerTrusted` names the
cleared slot as the one exception, and `ZeroMark` shows where it can be met.

### The tx flow rings

`FlowRingTxProofs`, for any ring size, local buffers, lfrags and scheduler limit, and any
number of messages, suppressions, port closings and polls (`FlowRingAssumption`), under
`Calm`:

| theorem | says |
|---|---|
| `TypeCorrect` | every variable keeps its type; no count wraps |
| `OwnedSafe` | wl holds no packet whose buffer the host was told is free |
| `FreedSafe` | the read index passes completed messages only |
| `SkippedSafe` | what is behind the fetch index is complete, being fetched or with wl |
| `InflightSafe` | the in-flight count is the number of packets with wl |
| `WindowSafe` | the ring implements `TxWindow` |

`Calm` says two things. No flush or delete is requested: the theorems are about the ring's
life between its creation and the first request. What follows a request is checked by
the `requests` run, and not all of it holds (section 6). And there are fewer lfrags than
the counts of 8 and 16 bits hold, as in the builds with 60 (`romlsym/43602a1.mk:97`) and 160
(`43602a1-roml.mk:137`); with the 256 of `43602a1-roml.mk:95` the 8-bit `fetch_pending` could
come to 0 with four blocks of 64 being fetched. The `suppress` run is `Calm`.

The invariant names three numbers. `R` messages are done with, `D` are behind the fetch
index, and `H` were fetched at some time; they are at most a ring apart, so that a message's
slot stands for it (`Win`, `InWin`). `Indexes` ties them to the ring's indices and bitmaps,
`Counts` ties the counts to the blocks and the packets they count, and `Track` says where
the messages are. Outside a suppression it is simple: each message from `R` to `D` is complete,
with wl or being fetched, and in one of these places only. A suppression turns the
fetch index back while later messages are still with wl or being fetched, and then
blocks may overlap and a message with wl may lie after the fetch index. `Track` only keeps what makes the
end of the suppression safe: there is a message not after the fetch index that is neither
complete nor with wl, and nothing before it is being fetched. When nothing is with wl
or being fetched any more, everything behind the fetch index is then complete, and that message
is the next one to be fetched. The handlers are chains of functions on the
ring's record; each function has one lemma that it keeps `Core`, the part of the invariant that is
a predicate on the record, the callback and the packets with wl.

### The reorder queue

`RxReorderProofs`, for any size of the window and of the number space, any windows the
sender may ask for and any frames, jumps, drops, requests and sessions
(`ReorderAssumption`; that the number space is a whole number of windows is what
makes a slot stand for one number of the window, also over the wrap):

| theorem | says | if |
|---|---|---|
| `TypeCorrect` | every field keeps its range | - |
| `WindowSafe` | a stored frame is in its own slot and in the window; the count is exact | - |
| `OrderSafe` | frames are let go in the order of their places, each once | - |
| `ChainsComplete` | every completion is in exactly one place, and something leads to it | `~HeadDrop` |

`HeadDrop` says that the firmware may also drop a frame that carries a chain; the
`reorder` run excludes it, and the `stranded` run (finding 4) shows the theorem false
with it.

A slot holds only a frame's id, and the numbers wrap, so neither `WindowExact` nor
`ReleasedInOrder` is inductive: that a frame let go is later than all before it follows
from where the window was in the sender's stream. `Win` therefore says of the
true places (`num`, `base`) that each stored id is at a place from `base` to the end of
the window and in its slot (`InSlots`), that `queued` counts the ids, that the slot of the expected frame is
empty (`Clear`), and that all frames let go came in order and before `base` (`InTurn`). `ReleaseN`,
`ReleaseOrdered`, `Store` and `Reset` have one lemma each, that they keep this
for a record half way through a handler, with the place they have come to; a handler's
lemma then follows its calls. A release of more numbers than there are slots passes each
slot once, and what is left is an empty window at the new place.

`ChainInv` is about the bus layer. `Parts` says that the frames received are split into
those completed, freed, held, due and hanging in a chain that is due; `Chains` that no
frame hangs in two chains, or twice in one, and that a chain which was not flushed holds earlier frames
only than the one it hangs on; and the queue is in the order of arrival (`InOrder`). With them
a walk stops only in a flush, or in a chain that a flush left waiting: any other chain
holds frames earlier than the one that has come, and those have left the queue. The frame
at which a walk stops was not due, as no frame is both due and hanging, so no completion
was counted behind it, and the rest of the chain can take that place.

### What is only model-checked

Liveness (fairness and ENABLED are beyond the prover), in every module. Of `FlowRingTx`,
`DeleteDrained`, and the rest where a flush or a delete is requested. `QueuesDrain` and the
properties of the findings stay with TLC as well.

## 6. Findings

1. `pending`: "Delete all Flow rings assocaited with the given Interface"
   (`dhd_flowring.c:589`), but the request for a ring whose creation is pending is refused,
   because `status & FLOW_RING_STATUS_DELETE_PENDING` tests bits of an enumeration
   (`dhd_pcie.c:4315`); the ring opens later and is kept though the link is lost.
2. `late`: the answer to an ioctl that timed out is returned by the next one. The
   transaction id that is there "to pair with a ioctl response" (`bcmmsgbuf.h:187`) is printed
   and not compared (`dhd_msgbuf.c:1935`); every later call then returns the answer of
   the one before.
3. `stuck`: a pending ioctl that lacks completion slots is tried again only
   after a DMA (`pciedev.c:3936`), and itself stops most that would start one; when the host
   makes room after the last, the ioctl keeps the lock and with it every H2D ring.
4. `stranded`: a dropped frame's chain is walked without the flag that tells a frame on
   its way to go on (`pciedev_data.c:2093`); the completions behind it are never sent.
5. `cleared`: a marker that agrees means "dma upto last word done" (`dhd_msgbuf.c:354`),
   but message 253 of a ring has marker 253 % 253 = 0, and its slot 252 of a ring of 256 slots or more
   holds 0 since the ring was cleared (`dhd_msgbuf.c:3137`): the host takes it before its DMA is done, as a
   message without a type, and its packet id and packet are lost. The checksum of cleared
   memory agrees as well (392).

Seen with other constants, or in reading, and not kept as runs:

- `FlowRingTx` with a suppression before a delete (`requests` with `MaxSup = 1`), or with two refused
  statuses (`MaxRefuse = 2`; both with `MaxItem = 4`, `ItemCnt = 3`): `DeleteDrained` fails. The
  roll-back of the fetch index makes the flush complete packets that wl still holds,
  or fetch slots twice, and the ring is freed under them ("Delete Resp will come
  after all packets are drained", `pciedev.c:4317`).
- `D2HRing` does not deliver every rx completion: `pciedev_queue_d2h_req_send` returns early
  (`pciedev_data.c:2234`, no request queued) after putting completions that waited for a
  local buffer into one they do not fill, and its callers do not send it either. They
  stay until the next D2H request, so after a burst the host may miss the
  last frames until more traffic comes. `EventuallyTaken` excepts just these; with the
  demand that every rx completion is taken it fails under the `d2h` bounds.
- `H2DRing`: an "exact" request near the end of the ring is granted in part, where the comment
  (`dhd_msgbuf.c:2853`) says whole or not at all; its callers cope.
- `FlowRingProtocol` without the perimeter lock (`Races = {"threads"}`): the DPC's walk can meet a ring
  on its list that the sender has not yet set active (`ASSERT`, `dhd_pcie.c:3482`).
- `RxReorder`: a flushed chain that waits for a frame on the queue can be overtaken by a later
  one, so the host may get completions out of order.

## 7. What is not modelled

Of the modelled parts: DMA'd indices (the build keeps indices in TCM), the batching of
tx posts, a second producer on the rx ring, D3 suspend, events and flow ring responses
on the control completion ring (they are `SendOther`), the xor-checksum form of the sync
marker, AMPDU transmit, and `FlowRingProtocol`'s peer events and flush request.

Whole parts: the packet id map (a stack of keys and an array, changed by sequential code
under a lock; what is hard is the order of its callers), the circular buffer (only
`pcie_phtm.c`, a simulated device this build leaves out, calls it), power states,
scheduler and DMA drivers (taken as what the models assume of them: run to
completion, in order, bounded), and the rest of the 802.11 firmware, most of the
repository's two million lines: event-driven code, tables and microcode above and below this protocol, of which a
faithful model would be a project of its own. `PROJECT.json` gives the reason for each.
