# TunForge in TLA+

TunForge is a TCP data plane for TUN-based VPNs on iOS and macOS: it feeds IP
packets into lwIP, accepts every TCP connection lwIP completes, and hands it to
an upper layer as a `TFTCPConnection` with callbacks. This project models the
life of such a connection, from `tunforge_accept` to the end of its lwIP pcb;
the callback contract it keeps; the part of lwIP's TCP below it, at the level of
sequence numbers (reassembly and output); and the life cycle of the stack, with
its listener, pools and timers. It checks them with TLC on small instances, and
proves with TLAPS, for all sizes, every safety property that the passing runs check:
of a connection and its callback contract, of the stack, and of lwIP's reassembly and
output.

## 1. The system

### Components

| Component | State | Operations | Interacts with |
|---|---|---|---|
| `TFTCPConnection` | connection state (New, Active, Closing, Closed), `pcb`, `alive`, `pcbRef`, `writable`, `readEOF`, `writeFIN`, `pendingClose`, `recvEnabled`, `inflightAckBytes`, the once-flags, the handlers | `markActive`, `setInboundDeliveryEnabled`, `acknowledgeDeliveredBytes`, `writeBytes`, `shutdownWrite`, `gracefulClose`, `abort`; the raw callbacks recv, sent, poll, err and the ext-arg destructor | calls lwIP, is called back by lwIP, posts blocks on the connections queue |
| lwIP TCP (vendored) | the pcb: TCP state, windows, `refused_data`, flags; lists of active and TIME_WAIT pcbs | `tcp_input`, `tcp_fasttmr`, `tcp_slowtmr`, `tcp_write`, `tcp_close`, `tcp_shutdown`, `tcp_abort`, `tcp_recved`, pcb shortage in `tcp_alloc` | calls the raw callbacks |
| `TFObjectRef` | weak object, `alive` | `invalidate`, retain and release as `void *` | the `arg` of every raw callback |
| `TFIPStack` | netif, listener, timer, `stackRef`, `ready` | `start`, `stop`, `inputPacket`, `outputPacket`, `tunforge_accept` | delivers packets to lwIP, creates connections |
| `TFGlobalScheduler`, queue helpers | packets queue, connections queue | configure, perform sync and async (inline when already on the queue) | used by all |
| lwIP timeouts | the list of timeouts, `tcpip_tcp_timer_active` | `sys_timeout`, `tcp_timer_needed`, `sys_check_timeouts`, `sys_restart_timeouts` | run by the stack's dispatch timer, run TCP's timers |
| `sys_arch.c` | start ticks | `sys_now` | lwIP's timers, the New-state timeout |
| `TFTCPConnectionInfo`, logging, `TunForge.swift` | - | - | - |

All lwIP code and all methods of `TFTCPConnection` run on the serial packets
queue. Callbacks into the upper layer run on the serial connections queue: a
block checks that the connection still exists and is alive, then calls.

### What is hard here

* lwIP frees a pcb on many paths; some call the error callback before the free,
  some after, some not at all, and the ext-arg destructor runs in between. Each
  path has to leave the connection object consistent.
* The receive window is accounted twice: in lwIP (`rcv_wnd`, `refused_data`) and
  in TunForge (`inflightAckBytes`), by different callers.
* Data may be refused, kept in the pcb and offered again by a timer or the next
  segment, with the peer's FIN waiting behind it.
* Zero-copy buffers change queues twice before they are freed, while the
  connection may die at any moment in between.
* The handlers are set on the connections queue after lwIP can already call.
* Allocations fail (FIN segment, `malloc` in the receive path, pcb pool).
* The network loses, repeats and reorders segments and ACKs; lwIP keeps segments
  in three queues that are cut, joined, split and moved, in sequence numbers that
  wrap.
* Three timers (retransmission, persist, delayed ACK) hand over to each other;
  between two of them no data may be left waiting.
* The stack is stopped and started while connections, half-open ones too, live on
  with pointers to the old listener and the old `TFObjectRef`.

`PROJECT.json` lists these as hazards at their source lines.

### What makes each component correct

* `TFTCPConnection`: no use of a freed pcb; one termination, reported last; no
  window byte lost or invented; every buffer released once; data before EOF; an
  undecided connection ends.
* lwIP as used: refused data is offered again; the pcb of a closed connection is
  freed; the stream arrives complete, once and in order; announced window is never
  taken back; written data is contiguous, within the peer's window and never
  without a timer.
* `TFObjectRef`: never reached after its last release.
* `TFIPStack`: start and stop in any order leave no dangling `state`, no miscounted
  backlog and no timer lost or doubled; a full backlog opens again.
* Scheduler: the synchronous calls cannot wait for each other (not modelled).

## 2. The modules

```
LwipPcb             the pcb and the lwIP functions that change nothing else
  TFTCPConnection   the bridge object; a method maps a world to a world
    LwipTcp         tcp_input, the timers and pcb shortage, with their callbacks
      TunForgeTCP   the system: packets queue, connections queue, upper layer
        MCTunForgeTCP       the module TLC runs
        (implements TCPConnectionContract, the callbacks the header promises)
  ConnectionProofs          lemmas: every operator preserves the world invariant
    TunForgeTCPProofs       the inductive invariant of a connection and its theorems
      ContractProofs        order of the callbacks, receive buffers, bytes in flight,
                            and the refinement to TCPConnectionContract
  InOrderReceive    the receive side of LwipPcb alone, as a specification

TcpSeq              sequence numbers and segments
  SeqProofs         lemmas: sequence number arithmetic, cutting and joining segments
  LwipReassembly    tcp_receive with the out-of-order queue, window and ACKs
                    (implements InOrderReceive)
    ReassemblyProofs        the inductive invariant of the receive side, its theorems
                            and the refinement to InOrderReceive
  LwipOutput        tcp_write, tcp_output, retransmission, persist timer
    QueueProofs     lemmas: chains of segments
      OutputProofs  the inductive invariant of the send side and its theorems

LwipTimeouts        the timeout list and the clock
  TFIPStack         start, stop, accept, listener, backlog, pcb pool, timer
    StackProofs     the sorted timeout list under a clock that wraps, the inductive
                    invariant of the stack and its theorems
```

The models meet at two places. `LwipPcb` knows a segment only by the run of bytes
it completes; `LwipReassembly` shows, by refinement to `InOrderReceive`, that this
is what lwIP's reassembly does with any loss, overlap and reordering (checked and
proved). And
`TunForgeTCP` has one pcb and takes the timers as fair; `TFIPStack` has several
pcbs, with the backlog and the timeout list that make this so.

### A connection

A *world* is the record of the connection, its pcb, the blocks posted on the
connections queue, the number of receive buffers taken over from lwIP (`pbufs`)
and two ghosts: `stale` (lwIP used an `arg` that was gone) and `dropped` (bytes that
`tf_tcp_recv` counted in `inflightAckBytes` and gave to nobody). A method or an
lwIP function is an operator from worlds to worlds, composed in the order in
which the code makes its calls; so nested callbacks (`abortLocked` ->
`tcp_abandon` -> destructor -> error callback -> `terminateLocked`) run inside
one step, as they do on the packets queue. `TunForgeTCP` makes one action of
every entry point of the packets queue and of every step of the connections
queue.

| Action | Code |
|---|---|
| `Init` | `tunforge_accept` has returned `ERR_OK` |
| `MarkActive` ... `Abort` | the public methods, called on the packets queue; `Abort` also stands for `handler(false)` |
| `TcpInput`, `TcpInputRst` | `inputPacket` -> `tcp_input` for a segment of this connection |
| `TcpFasttmr`, `TcpSlowtmrPoll`, `TcpSlowtmrRemove`, `TcpSlowtmrTimeWait` | the pcb's turn in lwIP's timers |
| `TcpAllocShortage` | another connection's `tcp_alloc` sends pending FINs and kills a pcb |
| `NewStateTimeout` | ten seconds have passed since the accept |
| `RunAccept` | the accept block: `didAcceptNewTCPConnection`, handlers set |
| `TakeBlock`, `CallBlock` | a block's check, and its call; the packets queue may run in between |
| `ReleaseBuffer` | the release block of a zero-copy buffer |
| `DropConnection` | the upper layer gives up a dead connection (external) |

`KeepsContract` (in `TunForgeTCP`) maps the block that runs on the connections
queue to the callback of `TCPConnectionContract`, which knows neither queues nor
pcbs: callbacks one at a time, `onActivated` at most once and before data, no data
after EOF, after death only `onTerminated`, once.

Abstractions:

* Payload is a number of bytes. A segment is what it does: the length of the
  in-order run it completes (with what it pulls from the out-of-order queue),
  its FIN, and what it newly acknowledges. Lost, duplicated and reordered
  packets show as runs that come late, at once or never.
* Sequence numbers and output are in `LwipReassembly` and `LwipOutput`; here, that
  retransmissions may be exhausted is `MayTimeOut`.
* The pcb is `ESTABLISHED` from the start, since lwIP calls the accept callback
  after leaving SYN_RCVD. Data in the handshake's last segment is the next
  segment.
* A failing allocation is a nondeterministic argument of the operator. Within one
  `tcp_input` either all `malloc` calls of the receive path fail or none.
* Killing by priority never meets this connection (all have equal priority), and
  keepalive is off; TIME_WAIT pcbs react to segments with ACKs only.
* `err` is always `ERR_OK` when lwIP calls recv, so that branch of `tf_tcp_recv`
  is dead and left out.
* The upper layer calls methods from the accept block on, in any order and any
  number, and sets its handlers in that block. It drops a connection only when
  it is dead and no block is running on it.
* Without `TCP_RCVLOWAT` (iOS) the receive low-water mark is `2 * pcb->mss`,
  constant over the connection's life and modelled by the same constant.

### Reassembly

`LwipReassembly` is the receive part of one pcb (`rcv`), what the recv callback got
(`delivered`), what of it was not given back (`unread`), and what the peer knows
(`peer`). `Arrive` is `tcp_input` of one segment: trimming at both ends, the
in-sequence case with the queue it completes or covers, the out-of-sequence case
with the insertion that cuts its neighbours, the FIN, the ACK at once or delayed,
the announced window. `Read` is `tcp_recved`, `FastTimer` the delayed ACK,
`tcp_free_ooseq` the queue's loss under memory shortage. Any segment the peer may
have sent can arrive at any time and any number of times, which is loss, delay,
repetition and reordering. SACK and timestamps are off in `lwipopts.h`; nothing is
sent on our side, so ACKs are empty.

### Output

`LwipOutput` is the send part (`snd`: both queues, window, buffer, timers), the
segments sent (`wire`) and the peer. Actions: `Write` (`tcp_write` and
`tcp_output`), `Shutdown`, `AckArrives` (any ACK the peer may have sent, late and
repeated ones too), `Rto`, `ZeroWindowProbe` and `SplitForWindow` of `tcp_slowtmr`,
`GiveUp`, and the external `Take` and `PeerRead`. A timer that runs may expire at
any time; after an ACK of new data the congestion window is any member of `CWnds`, a
set of values not below one mss that contains mss itself (the proofs are for any such
set, the runs for two values); a failing allocation is an argument. Two more bounds
belong to the runs: `WriteSizes`, the lengths of a write, and `MaxEdge`, where the
peer's window stops growing. The peer never shrinks its window, and its first window
is at least 2 (`FirstWnd`). The model has no receive side, so that `tcp_output` never
returns early to send a pure ACK and always reaches the line that clears
`TF_NAGLEMEMERR`, and the clause of `tcp_receive` about an old `snd_wl1` never
decides. `finSplit` records that a segment with the FIN was
split, which the run `split_fin` is about.

### The stack

`TFIPStack` has the stack's properties, its `TFObjectRef`s with their retain
counts, the netif's and the listener's pointers, a pool of pcbs with the state and
the backlog slot of each, the connections' states, the blocks on both queues, and
from `LwipTimeouts` the list and the clock modulo `TICKS`. `start` and `stop` are
single packets-queue blocks; `InputSyn`, `InputAck`, `InputEnd`, `InputClosing` and
`InputTimeWait` are a segment's way through `tcp_input`; `AcceptBlock` runs on the
connections queue and posts its answer as a packets-queue block. A
`sys_check_timeouts` is a sequence of steps, one per handler (`TcpTimer`,
`ReassTimer`, `CheckDone`) under the `now` it read first. Below the IP layer only
the reassembly timer of the list is kept. `Tick` has both outcomes that `sys_now`'s
conversion may have at the end of `u32_t`: wrapping, and standing still.

## 3. The runs

Bounds of a connection: `MaxSegments` segments with data or FIN, `MaxWrites`
writes; pure ACKs, RSTs, timers and calls are unbounded. Deadlock is checked in
`stack` only: a connection that is freed and dropped, or a stream that is complete,
has no next step.

| Run | Instance | States | Checks |
|---|---|---|---|
| `receive` | window 5, low-water 2, runs up to 2 bytes, 3 segments, acknowledgements of 1 and 3 bytes, zero-copy, copying or no read handler, failing allocations, no half-close | 1,265,000 | `TypeOK`, `WindowConserved`, `InflightBacked`, `BuffersAccounted`, `DataWithinStream`, `RefusedCanDrain`, `KeepsContract` |
| `close` | window 2, 2 segments, 1 write, half-close, failing allocations, zero-copy or no read handler | 1,269,000 | `PcbNeverDangles`, `NotLeftClosing`, `TerminatedIsLast`, `BacklogSlotReturned`, `KeepsContract` |
| `liveness` | window 2, 1 segment, no writes, half-close, failing allocations | 40,000 | `NewIsDecided`, `TerminatedPcbIsFreed`, `BuffersComeBack`, `TerminatedIsCalled` |
| `reassembly` | 7 bytes and FIN in segments of up to 3, window 6, announced in units of 2, sequence numbers modulo 32 from 29, one lost ACK | 7,000 | `TypeOK`, `StreamInOrder`, `OoseqSorted`, `WindowHonest`, `AckPending`, `NoWindowStall`, `EdgeHolds`, `ImplementsInOrderReceive`, `WholeStreamDelivered` |
| `output` | 10 bytes and FIN in writes of 2, mss 4, send buffer 8, queue of 3, peer's window 8, one failing allocation, two retransmissions, congestion windows 4 and 8, sequence numbers modulo 64 from 60 | 186,000 | `TypeOK`, `QueuesContiguous`, `SndBufAccounted`, `PersistWithoutFlight`, `NoSendStall`, `PeerNotOverrun`, `FinIsLast`, `Drains` |
| `stack` | two pcbs, backlog 1, two `TFObjectRef`s, one connection object, clock modulo 10, TCP timer every tick, IP timer every second | 681,000 | `TypeOK`, `ArgsOwned`, `BacklogCounted`, `TcpTimerKept`, `TimeoutsOnTime`, `BacklogFrees` |

Why this is enough: in `receive` a window of 5 with runs of 2 lets the gate
close by the low-water mark and by the upper layer, lets refused data be
followed by a FIN and by more data, and lets acknowledgements be partial (1) or
more than is in flight (3); a third segment is needed to have one block running,
one queued and one refused. In `close` two segments are data and FIN, or data that the
window of 2 still takes and data that the low-water mark refuses, and one
write makes the send buffer run full and our FIN queue behind data. The
liveness run keeps one buffer and one FIN. In `reassembly` seven bytes in segments
of up to three give every overlap of an arriving segment with two stored ones, at
either end; the window is shorter than the stream, so it fills, is trimmed against
and reopens, and the stream crosses the wrap. In `output` a buffer of two segments
holds one in flight, one queued and a FIN; writes of half a segment let `tcp_write`
extend a segment that is queued again after a timeout; the peer's window closes after
eight bytes and opens by one or two, so that probes and splits happen, and a failed
allocation meets each of them. Segments of four bytes are the shortest of which a part
can be acknowledged and the rest not fit, so that the states behind `split_stall` and
`split_fin` are reached in this run too. In `stack` two pcbs are enough for one to hold the only slot while the other
asks for it, and for one to be killed for the other; two `TFObjectRef`s are the old
and the new one around a restart; ten ticks of clock let timeouts lie on both
sides of the wrap, the limits `StackAssumption` sets.

Fairness. `liveness`: weak fairness of the connections queue's steps (a serial
dispatch queue runs what it is given), of the release blocks (the header demands
that `completion` is called exactly once), of lwIP's timers (the dispatch timer
of a started `TFIPStack` calls `sys_check_timeouts`), of timeouts that stay due,
and of allocations that sometimes succeed. Nothing is assumed of the peer or of
the upper layer's other calls. The run writes no data: a peer that holds back
our data with a closed window and answers every probe is not claimed to lose its
pcb (see the hazard at `tcp.c:1242`), and neither does an ACK then reset the
poll counter.

`reassembly`: the peer retransmits what is not acknowledged and something of it
arrives, the application gives back what it read, the fast timer runs. `output`: the
peer's application reads, the slow timer runs, and if it sends for ever then some
copy arrives and an ACK comes back; single segments and ACKs may all be lost.
`stack`: time passes, the dispatch timer of a started stack is served, a
`sys_check_timeouts` ends, and a pcb that holds a slot of the backlog is not passed
over for ever by timers that run again and again (strong fairness, since every
round of `tcp_slowtmr` counts towards its timeout). Nothing is assumed of peers or
delegate there: a delegate that never answers is what the New-state timeout is for.

Six runs end in a violation. Each states what a comment, an assertion or the header says, and
TLC's trace shows where the code does otherwise:

| Run | Trace |
|---|---|
| `stale_arg` | `gracefulClose` clears `self.pcb` before `terminateLocked`, so the callbacks stay on the pcb. The upper layer drops the connection; the pcb times out; lwIP frees it, which releases the `TFObjectRef`, and then calls errf with it. |
| `refused_in_time_wait` | After `shutdownWrite`, data with FIN arrives while delivery is disabled: the pcb is already in TIME_WAIT when the data is refused, and nothing offers or frees it again. |
| `large_run` | A run longer than `TCP_WND - TCP_RCVLOWAT` is refused because of the window it itself uses, with nothing in flight: it is refused for ever. |
| `split_stall` | A segment that timed out is back on unsent, where `tcp_write` extends it. A late ACK acknowledges its old part and announces a window smaller than the rest: the persist timer splits the head at the announced window, so the first part lies below `lastack`. `seqno - lastack + len` wraps and exceeds every window, and from then on `tcp_output` sends nothing. |
| `split_fin` | Data and FIN share a segment that does not fit the peer's small window: the persist timer splits it, `TCPH_SET_FLAG` cannot take the FIN from the first part, and the peer gets the end of the stream before its last bytes. |
| `persist_assert` | With the window closed, the last queued byte goes out as a probe and is acknowledged, the window still closed: the persist timer stays on with nothing to send, and the assertion in `tcp_slowtmr` fails. |

`WindowConserved` leaves out two cases: TIME_WAIT, where the window has no use
any more, and a connection without a read handler, for which `tf_tcp_recv` gives
the window back itself but leaves the bytes counted in `inflightAckBytes`
(`TFTCPConnection.m:638` and `:716`).

`RefusedCanDrain` holds in `receive` because runs there fit beside the low-water mark;
section 4 proves it from just that, and `large_run` lifts the restriction.

`InflightBacked` holds with failing allocations and without a read handler because
it counts what `tf_tcp_recv` drops (`dropped`): when `malloc` fails
(`TFTCPConnection.m:651` and `:689`) or nobody reads (`:716`) the bytes are already
counted in `inflightAckBytes` and no one learns of them. The property says that
nothing else is lost. It does not say that this is not: after a failed `malloc` that part
of the window is gone until the connection ends.

`NoWindowStall` is about how far the peer's idea of the window lags behind `rcv_wnd`:
`tcp_recved` keeps back growth below `TCP_WND_UPDATE_THRESHOLD`,
`tcp_update_rcv_ann_wnd` growth below a segment or half of the window, and the window
field rounds down to a multiple of `2^RCV_SCALE`. The bound is the larger of the first
two and the rounding, as long as no ACK was lost and the peer has not sent its FIN, after
which the window is of no use to it.

`NoSendStall` says more than that a timer is armed: its next expiry must find something
to send. The persist timer sends a probe when the window is closed, and otherwise the
first part of the head, which has to fit the window; the retransmission timer sets the
congestion window to one mss, and the head has to fit then. The exception is the case
of `split_stall`, where the first part was acknowledged already.

`QueuesContiguous` and `FinIsLast` leave out the states after a segment with the
FIN was split; the head of the queue may lie wholly below `lastack` only while the
persist timer runs, which is what `split_stall` leads to. `Drains` has these two
findings as its exceptions: a queue that is never emptied has for good a head below
`lastack`, or a peer that has taken a FIN with data behind it. TLC refutes the property
without either of them, so both happen in `output`, and nothing else does.

`BacklogFrees` leaves out a clock that stands still at the end of `u32_t`:
then no timeout is due any more, and the comment "wrap-around acceptable" of
`sys_arch.c:17` does not hold.

Every property of a passing run has a mutant in its module (named
`<definition>_<change>`), a plausible slip in the code that makes the property
fail.

## 4. The proofs

Every theorem below holds for all constants that satisfy the assumptions named with
it; TLC evaluates those assumptions in the runs. Each is proved from an inductive
invariant by one lemma per action.

| Module | Theorem | States | Of |
|---|---|---|---|
| `TunForgeTCPProofs` | `Invariance` | `Spec => []IInv` | a connection |
| | `TypeCorrect` | `TypeOK` | |
| | `NoDanglingPcb` | `PcbNeverDangles` | |
| | `WindowIsConserved` | `WindowConserved` | |
| | `TerminationIsLast` | `TerminatedIsLast` | |
| | `SlotIsReturned` | `BacklogSlotReturned` | |
| | `ClosesAtOnce` | `NotLeftClosing` | |
| | `RefusedDrains` | `RefusedCanDrain`, if `MaxRun + 1 + TCP_RCVLOWAT <= TCP_WND` | |
| `ContractProofs` | `ContractIsKept` | `KeepsContract`, the refinement | |
| | `DataStaysInStream` | `DataWithinStream` | |
| | `BuffersAreAccounted` | `BuffersAccounted` | |
| | `InflightIsBacked` | `InflightBacked` | |
| `StackProofs` | `StackTypeCorrect` | `TypeOK` | the stack |
| | `ArgsStayOwned` | `ArgsOwned` | |
| | `BacklogIsCounted` | `BacklogCounted` | |
| | `TcpTimerIsKept` | `TcpTimerKept` | |
| | `TimeoutsComeOnTime` | `TimeoutsOnTime` | |
| `OutputProofs` | `OutputInvariance` | `Spec => []OutInv` | the send side |
| | `OutputTypeCorrect` | `TypeOK` | |
| | `QueuesAreContiguous` | `QueuesContiguous` | |
| | `SndBufIsAccounted` | `SndBufAccounted` | |
| | `PersistIsWithoutFlight` | `PersistWithoutFlight` | |
| | `SendingIsTimed` | `NoSendStall` | |
| | `PeerIsNotOverrun` | `PeerNotOverrun` | |
| | `FinComesLast` | `FinIsLast` | |
| `ReassemblyProofs` | `ReceiveInvariance` | `Spec => []RecvInv` | the receive side |
| | `ReceiveTypeCorrect` | `TypeOK` | |
| | `StreamIsInOrder` | `StreamInOrder` | |
| | `OoseqIsSorted` | `OoseqSorted` | |
| | `WindowIsHonest` | `WindowHonest` | |
| | `EdgeIsHeld` | `EdgeHolds`, an action property | |
| | `AckIsPending` | `AckPending` | |
| | `WindowDoesNotStall` | `NoWindowStall` | |
| | `ReceivesInOrder` | `ImplementsInOrderReceive`, the refinement | |

Assumptions: for a connection `LwipAssumption`, `LowWaterAssumption` and
`SystemAssumption` (positive sizes, low-water marks within their buffers, handler
modes that exist); for the stack `TimeoutsAssumption` and `StackAssumption` (a finite
pool, a positive backlog, intervals and lateness less than half of the clock's range);
for the send side `SeqAssumption` and `OutputAssumption` (the stream with the peer's
window takes less than half of the sequence numbers, and the first window is at least
2, without which `mss_local` is 0); for the receive side `SeqAssumption` and
`ReassemblyAssumption` (the stream with our window takes less than half of the sequence
numbers, and `TCP_WND` is at least 2, so that half of it is an update worth sending;
both option files set it to several segments). That the stream is that short is the
one bound on behaviours in these two: sequence numbers wrap within it, but a stream
does not go round twice. `OutputAssumption` also asks that no congestion window is below
one mss, which `tcp_receive` and `tcp_slowtmr` see to. `RefusedDrains` has a hypothesis of
its own, in its table row: the constants for which the code has the property.

### A connection

The inductive invariant `IInv` is `TypeOK`, the world invariant `WorldInv(Now, 0)`
and `LastCall` (the order of the termination callback across queue and running
block). `WorldInv(w, k)` says of a world between any two callbacks:

* it is live (pcb set, not freed, callbacks attached, ref valid, not Closing) or
  dead (everything cleared, Closed, nothing pending);
* `Owes(w, k)`: the window, the refused data, a waiting FIN, the bytes in flight
  and `k` bytes of a segment that `tcp_receive` has subtracted but nobody has
  been offered yet add up to `TCP_WND`, and to no less without a read handler, where
  bytes may be counted twice. The parameter is needed because `tcp_input` calls back
  in the middle of a segment;
* `RefusedRun`: refused data is one run, at most `MaxRun`, and a refused FIN has
  refused data before it; a live connection without
  handlers is New; the backlog slot belongs to a pcb on the active list; in
  the queue the accept block comes first and `terminated` last.

None of the checked properties is inductive alone: that `self.pcb` is valid
needs that callbacks and ref lead back to it while the connection is alive, that
the window is conserved needs the waiting FIN, that `terminated` is last needs
that dead connections post nothing. `ConnectionProofs` proves one lemma per
operator: it preserves `WorldInv`, with the change of `k`, and is a `Step` (it
sets no handler, deallocates nothing, and posts nothing once the connection is
dead). The action
lemmas of `TunForgeTCPProofs` then need only the lemma of the operator they
apply.

`RefusedCanDrain` asks what the receive gate would answer after the upper layer has
enabled delivery and acknowledged all. `RefusedDrains` computes it: then nothing is
in flight, so by `Owes` the window misses at most the refused run and its FIN, and the
gate opens if the rest reaches the low-water mark. That is its hypothesis, and it cannot
be weaker: TLC refutes the property with runs one byte longer than it allows, and
`large_run` is that case without a FIN.

### Its callbacks

`StreamInv`, the invariant behind `ContractProofs`, adds four parts to `IInv`:

* `Ordered`: in the connections queue the activation stands before data and data
  before EOF, and a queued block is backed by the once-flag of its connection;
* `Gates`: which flags and pcb states allow which block still to be posted (a pcb
  past the peer's FIN offers data only if it refused it before);
* `Calls`: how the calls already made relate to the flags and to the blocks still
  queued;
* `BuffersAccounted` itself.

The contract alone is not inductive: that no data follows EOF depends on what the
queue holds, and that in turn on what lwIP may still deliver. An operation of the
packets queue runs others in the middle, so the first part describes each by `Flow`,
the blocks it appends and the flags it may set; `Flow` is transitive, and an operation
needs only the lemmas of those it calls. Buffers are counted by the cardinality of the
set of queue positions, so that appending and removing one block are facts about
finite sets and no induction over the queue is needed. In the refinement every step of
the packets queue is a stutter (`PacketsStep`), taking a block begins a callback and
making the call ends it.

`InflightBacked` sums the bytes of the queued data blocks. `DataBytes` is the
cardinality of the set of their bytes, each a position in the queue and a place in
the block, so appending a block adds its bytes and taking one removes them
(`BytesAppend`, `BytesTail`), again facts about finite sets. `Backs(w, v)` says of an
operation that `inflightAckBytes` grows by no more than what it posts and drops; it is
transitive as `Flow` is, and `tf_tcp_recv`, the only operation that counts, posts the
block, acknowledges or drops in the same breath. The inductive `Backed` adds that nothing is in flight while the connection
is New, because `acknowledgeDeliveredBytes` is then ignored although the upper layer
would count it as done.

### The stack

`StackInv` is `TypeOK` and

* `PoolInv`: `accepts_pending` is the number of pcbs that hold a slot; pcbs point to
  this listener or to none; a half-open pcb has a slot, one in TIME_WAIT has none; a
  New connection has a pcb (so the New-state timeout finds what it has to abort);
* `Wiring` and `Retained`: what `start` and `stop` leave of timer, netif, listener and
  ref, and that the netif alone holds an extra retain;
* `TimerInv`: the TCP timer is listed at most once, exactly when it is active, and it
  is active whenever a pcb is in use;
* `TimesInv`: the timeout list is sorted and near the clock.

`TimesInv` is the strengthening that `TimeoutsOnTime` needs: `TIME_LESS_THAN` compares
two times rightly only if they are less than half of the range apart, so every timeout
must be near the clock *and* near every other. The proof measures a time by its
position behind a moment before the clock (`Pos`), where order is plain `<`, shows that
insertion keeps the list `Timely`, and that `sys_restart_timeouts` after a long stop
may shift all of them (`Shiftable`).

### The send side

`OutInv` consists of `Numbers` (the order of `lastack`, `snd_nxt`, `snd_lbb` and the
bounds of the windows), `Flight` (what is in flight lies within the peer's window, its
timer runs and the persist timer does not), `QueueInv` (unacked and unsent are one
chain of segments that ends in `snd_lbb` and begins at or below `lastack`; `snd_buf` is
what it leaves), `FinInv` (where in queues a FIN may be), `WireInv` and `PeerInv` (what
was sent and what of it the peer took), and `Busy` (something queued, then the persist
timer runs or something is in flight).

The strengthening is needed because each property of the wire is about the future of a
queue: that the peer is not overrun needs that what is in flight stays in its window
when later ACKs move it, and that the FIN is last needs where FINs stand in both
queues, since a segment may go back from unacked to unsent, be extended there and be
sent again. Almost every step ends in `tcp_output`, so the proof has two halves: a step
makes a pcb that is `Ready`, and `tcp_output` makes of a `Ready` pcb one that satisfies
`OutInv` (`OutputSends`, `Posted`, `OutputKeeps`). Fast retransmit is the exception: it
leaves the queues out of order for `tcp_output` to put right, and has lemmas of its own
(`FastSends`, `FastKeeps`). `QueueProofs` reasons about sequence numbers as offsets
below half of `SEQ`, and about the bytes of a chain as the difference of its ends
(`ChainBytes`), which spares an induction over the queue.

`NoSendStall` follows from `Busy`, `Flight` and `QueueInv`: without the persist timer
something is in flight, so the retransmission timer runs, and the head of unacked is in
the peer's window and no longer than one mss; with it nothing is in flight and the head
of unsent begins at or below `lastack`, so its first part, cut to the window, fits or
lies wholly behind `lastack` (`FirstPartGoes`).

Two formulas had to be made true before they could be proved. `QueuesContiguous`
once required the head of the queue to reach `lastack` always; the proof of
`SplitForWindow` failed, and its failing case is the run `split_stall`. And the first
congestion window is any value of `LWIP_TCP_CALC_INITIAL_CWND`, not one of them.

### The receive side

`RecvInv` speaks of `rcv_nxt`, of the window's right edge and of the announced edge by
their offsets in the stream (`Nxt`, `Right`, `Edge`), and consists of

* `Base`: the record's type, `Sorted` (the queue lies between `Nxt` and `Right`,
  in order, without overlap, each segment with its own bytes, a FIN only at the end of
  the stream) and `Window` (`Edge` is at most what `rcv_ann_wnd` announces, that at most
  `rcv_wnd`, and before the FIN less than an update behind it);
* `Stream`: what was delivered is the stream up to `Nxt`, and unread bytes and
  `rcv_wnd` make up `TCP_WND`;
* `AckInv`: the peer knows of nothing that is not so (`Told`), and while no ACK was lost
  it is not far behind (`Close`) and an ACK is pending for what it does not know.

No property is inductive alone. That the bytes come in order needs the queue, from
which they are taken when a gap closes; that the queue stays in the window needs that
the right edge never moves back; and that in turn needs how far `rcv_ann_wnd` may lag.
`OoseqSorted` relates neighbours through modular comparisons; `Sorted` relates any two
segments by `<` on offsets, from which `SeqProofs` gets the comparisons back.

A segment's way is proved in the order of the code. Trimming it at both ends leaves a
segment of the stream. `CoverOoseq` and `InsertAfter` cut it and its neighbours so that
the queue is `Sorted` again: the covered segments are a prefix, by `Leading`, and the
FIN of a covered segment is inherited only where the segment ends the stream. `PassOn`
takes the segments without a gap: their payloads joined are `Stretch(Nxt, b)`, the
stream from `Nxt` to `b` (`Took`). Then FIN, ACK and window update keep `AckInv`. What a
segment comes to is `Came`, what any step comes to is `Goes`; from `Goes` the
refinement follows: a step of the receive side is a run that fits the window, a
`tcp_recved`, or a stutter of `InOrderReceive`.

### Model-checked only

Liveness (`NewIsDecided`, `TerminatedPcbIsFreed`, `BuffersComeBack`,
`TerminatedIsCalled`, `WholeStreamDelivered`, `Drains`, `BacklogFrees`) needs fairness
and `ENABLED`, which this prover does not support. Every invariant and action property
of the passing runs, and both refinements, are proved.

## 5. Not modelled

Of the parts that run:

* Threads. Configuring the scheduler happens once before use; `dispatch_once` and
  the synchronous calls block threads, and the models have one actor per queue.
* Handlers replaced after the accept block, and outbound handlers that call back
  into the stack.
* Writes longer than `TCP_SND_BUF` (they return WouldBlock and change nothing), and
  the return values of `writeBytes`.
* The values of RTT estimation, and of the congestion window beyond its bounds;
  active open; TCP options; a peer that shrinks its window; both directions of one
  connection in one sequence-number model (data segments that carry ACKs).
* IPv4 header checks and fragments, checksums, `pbuf` and `memp`: they show as
  packets that are lost and allocations that fail.
* The rounding of the announced window is modelled; that over-acknowledging lets
  the upper layer hold more than `TCP_WND` bytes is not stated as a property.

Most of the repository is vendored lwIP that TunForge never runs. `lwipopts.h`
switches off IPv6, UDP, ICMP, ARP, DHCP, DNS, IGMP, sockets and netconn, and the
package excludes or never calls PPP, the serial interfaces and the applications:
about nine tenths of the lines of `src/`. Their state is no state of this program,
so a model of them would not be one of TunForge, and the share of source lines
that the modules map stays small for that reason. What does run is `TunForgeCore`
(1,900 lines), lwIP's TCP (about 8,400 with its headers), its timeouts, and the
layers named above.

Without operations that change state: connection info, logging, the Swift aliases;
the repository's test target holds no tests.

## 6. Plan

1. Done: the connection with its pcb, both queues and the upper layer; the
   receive, close and liveness runs; the inductive invariant and six theorems.
2. Done: the callback contract and its refinement; reassembly, with the refinement
   to the in-order receiver; output; the stack with its timers; their runs.
3. Done: that `TunForgeTCP` implements `TCPConnectionContract`, with
   `DataWithinStream` and `BuffersAccounted`; the safety properties of `TFIPStack` and
   of `LwipOutput`.
4. Done: the safety properties of `LwipReassembly` and its refinement to
   `InOrderReceive`; `RefusedCanDrain` for runs that fit beside the low-water mark;
   `InflightBacked` for every read handler and with failing allocations.
5. Left: both directions of a connection in one sequence-number model; a stream longer
   than half of the sequence numbers, which needs the numbers relative to a moving
   origin; the hazards without a property, most of which need threads.
