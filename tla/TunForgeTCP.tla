----------------------------- MODULE TunForgeTCP -----------------------------
(***************************************************************************)
(* One intercepted TCP connection from tunforge_accept to the end of its   *)
(* pcb, as an interleaving of                                              *)
(*                                                                         *)
(*   - the packets queue, which runs all lwIP code and all methods of      *)
(*     TFTCPConnection: segments from the TUN side, lwIP's timers, and the *)
(*     calls that the upper layer posts there;                             *)
(*   - the connections queue, which runs the callbacks into the upper      *)
(*     layer one at a time: it takes a block, checks that the connection   *)
(*     is alive, and only then makes the call, so the packets queue may    *)
(*     run between the check and the call;                                 *)
(*   - the upper layer, which answers callbacks in its own time.           *)
(***************************************************************************)
EXTENDS LwipTcp, FiniteSets

CONSTANTS
  ReadModes,     \* the handlers the upper layer may set, a subset of Handlers
  AckSizes,      \* byte counts given to acknowledgeDeliveredBytes
  WriteSizes,    \* lengths given to writeBytes
  MaxSegments,   \* bound: segments with data or a FIN that the peer sends
  MaxWrites,     \* bound: calls of writeBytes
  MayRunOut,     \* values of "an allocation fails": {FALSE} or BOOLEAN
  HalfClose      \* whether the upper layer uses shutdownWrite

ASSUME SystemAssumption ==
  /\ ReadModes \subseteq {"bytes", "copy", "noread"}
  /\ AckSizes \subseteq Nat
  /\ WriteSizes \subseteq Nat \ {0}
  /\ MaxSegments \in Nat
  /\ MaxWrites \in Nat
  /\ MayRunOut \subseteq BOOLEAN
  /\ HalfClose \in BOOLEAN

VARIABLES
  conn,               \* the TFTCPConnection
  pcb,                \* its lwIP pcb
  connectionsQueue,   \* blocks posted on the connections queue, oldest first
  pbufs,              \* receive buffers taken over from lwIP and not freed
  stale,              \* lwIP called back with a deallocated TFObjectRef
  dropped,            \* received bytes that were counted and then dropped
  running,            \* the block taken by the connections queue, its check passed
  user,               \* the upper layer
  timedOut,           \* the New-state reject timeout has elapsed
  segments,           \* segments with data or FIN the peer may still send
  writes              \* writeBytes calls the upper layer may still make

world == <<conn, pcb, connectionsQueue, pbufs, stale, dropped>>
vars  == <<conn, pcb, connectionsQueue, pbufs, stale, dropped, running, user,
           timedOut, segments, writes>>

NoBlock == [kind |-> "none", n |-> 0]

\* holds: didAcceptNewTCPConnection has been called and the reference kept.
\* unacked: bytes received in onReadableBytes and not yet acknowledged.
\* releases: buffers whose release block (the completion's, or the one a dead
\* connection posts) has yet to run on the packets queue.
\* activated, eof, terminated: the callback has been made.
User == [holds : BOOLEAN, unacked : Nat, releases : Nat,
         activated : BOOLEAN, eof : BOOLEAN, terminated : BOOLEAN]

TypeOK ==
  /\ conn \in Conn
  /\ pcb \in Pcb
  /\ connectionsQueue \in Seq(Block)
  /\ pbufs \in Int
  /\ stale \in BOOLEAN
  /\ dropped \in Nat
  /\ running \in Block \cup {NoBlock}
  /\ user \in User
  /\ timedOut \in BOOLEAN
  /\ segments \in 0 .. MaxSegments
  /\ writes \in 0 .. MaxWrites

\* tunforge_accept has returned ERR_OK: the connection object exists, is set up
\* on the pcb, and the accept block is posted.
Init ==
  /\ conn = initWithTCPPcb
  /\ pcb = setupPcb(tcp_alloc)
  /\ connectionsQueue = <<[kind |-> "accept", n |-> 0]>>
  /\ pbufs = 0
  /\ stale = FALSE
  /\ dropped = 0
  /\ running = NoBlock
  /\ user = [holds |-> FALSE, unacked |-> 0, releases |-> 0,
             activated |-> FALSE, eof |-> FALSE, terminated |-> FALSE]
  /\ timedOut = FALSE
  /\ segments = MaxSegments
  /\ writes = MaxWrites

-----------------------------------------------------------------------------
(* One step of the packets queue.                                          *)

Now == [conn |-> conn, pcb |-> pcb, queue |-> connectionsQueue, pbufs |-> pbufs,
        stale |-> stale, dropped |-> dropped]

Becomes(w) ==
  /\ conn' = w.conn
  /\ pcb' = w.pcb
  /\ connectionsQueue' = w.queue
  /\ pbufs' = w.pbufs
  /\ stale' = w.stale
  /\ dropped' = w.dropped

(* Calls of the upper layer, posted on the packets queue.                  *)

MarkActive ==
  /\ user.holds
  /\ Becomes(markActive(Now))
  /\ UNCHANGED <<running, user, timedOut, segments, writes>>

SetInboundDeliveryEnabled(enabled) ==
  /\ user.holds
  /\ Becomes(setInboundDeliveryEnabled(Now, enabled))
  /\ UNCHANGED <<running, user, timedOut, segments, writes>>

AcknowledgeDeliveredBytes(bytes) ==
  /\ user.holds
  /\ Becomes(acknowledgeDeliveredBytes(Now, bytes))
  /\ user' = [user EXCEPT !.unacked = IF @ < bytes THEN 0 ELSE @ - bytes]
  /\ UNCHANGED <<running, timedOut, segments, writes>>

WriteBytes(length, nomem) ==
  /\ user.holds
  /\ writes > 0
  /\ writes' = writes - 1
  /\ Becomes(writeBytes(Now, length, nomem))
  /\ UNCHANGED <<running, user, timedOut, segments>>

ShutdownWrite(nomem) ==
  /\ user.holds
  /\ HalfClose
  /\ Becomes(shutdownWrite(Now, nomem))
  /\ UNCHANGED <<running, user, timedOut, segments, writes>>

GracefulClose(nomem) ==
  /\ user.holds
  /\ Becomes(gracefulClose(Now, nomem))
  /\ UNCHANGED <<running, user, timedOut, segments, writes>>

\* abort, called directly or by the accept handler when it is given NO.
Abort ==
  /\ user.holds
  /\ Becomes(abort(Now))
  /\ UNCHANGED <<running, user, timedOut, segments, writes>>

\* The release block of a receive buffer runs: free(slices), pbuf_free(p).
ReleaseBuffer ==
  /\ user.releases > 0
  /\ user' = [user EXCEPT !.releases = @ - 1]
  /\ pbufs' = pbufs - 1
  /\ UNCHANGED <<conn, pcb, connectionsQueue, stale, dropped, running, timedOut, segments, writes>>

(* lwIP.                                                                   *)

TcpInput(s, nomem) ==
  /\ pcb.state \in ActiveStates
  /\ Acceptable(pcb, s)
  /\ IF s.len > 0 \/ s.fin
       THEN segments > 0 /\ segments' = segments - 1
       ELSE (s.acked > 0 \/ s.finacked) /\ UNCHANGED segments
  /\ Becomes(tcp_input(Now, s, nomem))
  /\ UNCHANGED <<running, user, timedOut, writes>>

TcpInputRst(nomem) ==
  /\ pcb.state \in ActiveStates
  /\ Becomes(tcp_input_rst(Now, nomem))
  /\ UNCHANGED <<running, user, timedOut, segments, writes>>

TcpFasttmr(nofin, nomem) ==
  /\ pcb.state \in ActiveStates
  /\ Becomes(tcp_fasttmr(Now, nofin, nomem))
  /\ UNCHANGED <<running, user, timedOut, segments, writes>>

TcpSlowtmrPoll(nomem) ==
  /\ pcb.state \in ActiveStates
  /\ Becomes(tcp_slowtmr_poll(Now, timedOut, nomem))
  /\ UNCHANGED <<running, user, timedOut, segments, writes>>

TcpSlowtmrRemove ==
  /\ MayTimeOut(pcb)
  /\ Becomes(tcp_slowtmr_remove(Now))
  /\ UNCHANGED <<running, user, timedOut, segments, writes>>

TcpSlowtmrTimeWait ==
  /\ pcb.state = "TIME_WAIT"
  /\ Becomes(tcp_slowtmr_timewait(Now))
  /\ UNCHANGED <<running, user, timedOut, segments, writes>>

\* Another connection's tcp_alloc finds no free pcb.
TcpAllocShortage(nofin, killed) ==
  /\ pcb.state # "FREED"
  /\ Becomes(tcp_alloc_shortage(Now, nofin, killed))
  /\ UNCHANGED <<running, user, timedOut, segments, writes>>

\* sys_now passes newStateStartMs + kTCPNewStateRejectTimeoutMs.
NewStateTimeout ==
  /\ conn.state = "New"
  /\ ~timedOut
  /\ timedOut' = TRUE
  /\ UNCHANGED <<world, running, user, segments, writes>>

-----------------------------------------------------------------------------
(* The connections queue.                                                  *)

\* The accept block calls didAcceptNewTCPConnection, in which the upper layer
\* keeps the connection and sets its handlers.
RunAccept(mode) ==
  /\ running = NoBlock
  /\ connectionsQueue # <<>>
  /\ Head(connectionsQueue).kind = "accept"
  /\ connectionsQueue' = Tail(connectionsQueue)
  /\ user' = [user EXCEPT !.holds = TRUE]
  /\ conn' = [conn EXCEPT !.handlers = mode]
  /\ UNCHANGED <<pcb, pbufs, stale, dropped, running, timedOut, segments, writes>>

\* Mutant of PassesCheck: onTerminated is called on a live connection only, too.
PassesCheck_alive(b) == conn.exists /\ conn.alive

\* Mutant of PassesCheck: the callback is called on a dead connection, too.
PassesCheck_dead(b) == conn.exists

\* The check at the start of a block: onTerminated is called on any object
\* that still exists, every other callback on a live one only.
PassesCheck(b) == conn.exists /\ (conn.alive \/ b.kind = "terminated")

\* Mutant of TakeBlock: a dead connection's buffer gets no release block.
TakeBlock_leaks ==
  /\ running = NoBlock
  /\ connectionsQueue # <<>>
  /\ Head(connectionsQueue).kind # "accept"
  /\ running' = IF PassesCheck(Head(connectionsQueue)) THEN Head(connectionsQueue) ELSE running
  /\ connectionsQueue' = Tail(connectionsQueue)
  /\ UNCHANGED <<conn, pcb, pbufs, stale, dropped, user, timedOut, segments, writes>>

TakeBlock ==
  /\ running = NoBlock
  /\ connectionsQueue # <<>>
  /\ LET b == Head(connectionsQueue) IN
       /\ b.kind # "accept"
       /\ IF PassesCheck(b)
            THEN running' = b /\ UNCHANGED user
            ELSE /\ UNCHANGED running
                 /\ user' = IF b.kind = "data" THEN [user EXCEPT !.releases = @ + 1] ELSE user
  /\ connectionsQueue' = Tail(connectionsQueue)
  /\ UNCHANGED <<conn, pcb, pbufs, stale, dropped, timedOut, segments, writes>>

\* The callback runs.  For onReadableBytes the upper layer owes the bytes an
\* acknowledgement and the buffer its completion.
CallBlock ==
  /\ running # NoBlock
  /\ user' = CASE running.kind = "activated"  -> [user EXCEPT !.activated = TRUE]
               [] running.kind = "eof"        -> [user EXCEPT !.eof = TRUE]
               [] running.kind = "terminated" -> [user EXCEPT !.terminated = TRUE]
               [] running.kind = "data"       -> [user EXCEPT !.unacked = @ + running.n,
                                                              !.releases = @ + 1]
               [] OTHER                       -> user
  /\ running' = NoBlock
  /\ UNCHANGED <<world, timedOut, segments, writes>>

\* The upper layer gives up a connection that is dead: its last strong
\* reference, unless a block is running on it.
DropConnection ==
  /\ user.holds
  /\ ~conn.alive
  /\ running = NoBlock
  /\ user' = [user EXCEPT !.holds = FALSE]
  /\ conn' = [conn EXCEPT !.exists = FALSE]
  /\ UNCHANGED <<pcb, connectionsQueue, pbufs, stale, dropped, running, timedOut, segments, writes>>

-----------------------------------------------------------------------------

UserCall ==
  \/ MarkActive
  \/ \E enabled \in BOOLEAN : SetInboundDeliveryEnabled(enabled)
  \/ \E bytes \in AckSizes : AcknowledgeDeliveredBytes(bytes)
  \/ \E length \in WriteSizes, nomem \in MayRunOut : WriteBytes(length, nomem)
  \/ \E nomem \in MayRunOut : ShutdownWrite(nomem)
  \/ \E nomem \in MayRunOut : GracefulClose(nomem)
  \/ Abort
  \/ DropConnection

Network ==
  \/ \E s \in Segment, nomem \in MayRunOut : TcpInput(s, nomem)
  \/ \E nomem \in MayRunOut : TcpInputRst(nomem)
  \/ \E nofin \in MayRunOut, killed \in BOOLEAN : TcpAllocShortage(nofin, killed)

Timers ==
  \/ \E nofin, nomem \in MayRunOut : TcpFasttmr(nofin, nomem)
  \/ \E nomem \in MayRunOut : TcpSlowtmrPoll(nomem)
  \/ TcpSlowtmrRemove
  \/ TcpSlowtmrTimeWait
  \/ NewStateTimeout

Callbacks ==
  \/ \E mode \in ReadModes : RunAccept(mode)
  \/ TakeBlock
  \/ CallBlock
  \/ ReleaseBuffer

Next == UserCall \/ Network \/ Timers \/ Callbacks

Spec == Init /\ [][Next]_vars

\* What the scheduling guarantees.  The connections queue is a serial queue
\* that runs every block it is given; the dispatch timer of TFIPStack runs
\* sys_check_timeouts for as long as the stack is started, so tcp_fasttmr and
\* tcp_slowtmr reach every pcb again and again, and a timeout that is due
\* comes (what is retransmitted is the FIN alone: the liveness run writes no
\* data that a peer could hold up with a closed window); allocations do not fail for ever; the upper layer calls every
\* completion, which TFTCPConnection.h demands.  Nothing is assumed of the peer
\* or of the upper layer's other calls.
Fairness ==
  /\ WF_vars(\E mode \in ReadModes : RunAccept(mode))
  /\ WF_vars(TakeBlock)
  /\ WF_vars(CallBlock)
  /\ WF_vars(ReleaseBuffer)
  /\ WF_vars(TcpFasttmr(FALSE, FALSE))
  /\ WF_vars(TcpSlowtmrPoll(FALSE))
  /\ WF_vars(TcpSlowtmrRemove)
  /\ WF_vars(TcpSlowtmrTimeWait)
  /\ WF_vars(NewStateTimeout)

FairSpec == Spec /\ Fairness

-----------------------------------------------------------------------------
(* Safety properties.                                                      *)

\* A connection is alive exactly as long as it may use its pcb: self.pcb is
\* then set and points to a pcb that lwIP has not freed and whose callbacks
\* lead back to the connection through a valid TFObjectRef; once termination
\* was notified, self.pcb is NULL and the state is Closed for good.  The pcb is
\* freed by lwIP on many paths (RST, abort, timeouts, the last ACK, pcb
\* shortage, a close with unread data), and each must reach the connection.
PcbNeverDangles ==
  /\ conn.alive <=> conn.pcb
  /\ conn.alive <=> ~conn.didNotifyTerminated
  /\ conn.alive <=> conn.state # "Closed"
  /\ conn.pcb => pcb.state # "FREED" /\ pcb.callbacks /\ conn.refAlive /\ conn.exists

\* gracefulClose is never left half done: between two steps of the packets
\* queue no connection is in Closing, and no close waits for the retry that
\* tf_tcp_poll makes.
NotLeftClosing == conn.state # "Closing" /\ ~conn.pendingClose

\* Flow control loses and invents no byte: what is missing from the receive
\* window of a live connection is what the upper layer still has to
\* acknowledge (inflightAckBytes), what lwIP keeps as refused data, and the
\* sequence number of a FIN kept behind refused data.
WindowConserved ==
  conn.alive /\ pcb.state # "TIME_WAIT" /\ conn.handlers # "noread" =>
    pcb.rcv_wnd + pcb.refused + (IF pcb.refusedFin THEN 1 ELSE 0) + conn.inflight = TCP_WND

\* The data blocks of a queue, and their bytes: each is a block and a place in it.
DataBlocks(q) == Cardinality({i \in DOMAIN q : q[i].kind = "data"})

DataBytes(q) ==
  Cardinality(UNION {{i} \X (1 .. q[i].n) : i \in {k \in DOMAIN q : q[k].kind = "data"}})

\* Every byte counted in inflightAckBytes is in the hands of someone who can
\* still have it acknowledged, on its way in a block or with the upper layer, or
\* is one of those that tf_tcp_recv dropped: it counts the bytes first, and when
\* malloc fails, or nobody reads, no one learns of them.  Nothing else loses
\* a part of the receive window until the connection ends.
InflightBacked ==
  conn.alive =>
    conn.inflight <= DataBytes(connectionsQueue)
                       + (IF running.kind = "data" THEN running.n ELSE 0) + user.unacked
                       + dropped

\* Every receive buffer taken over from lwIP is owed exactly one release: it is
\* in a block that has not run, or its release block is due.
BuffersAccounted ==
  pbufs = DataBlocks(connectionsQueue) + (IF running.kind = "data" THEN 1 ELSE 0) + user.releases

\* onTerminated is the last callback and is made once: nothing is posted behind
\* its block, and nothing is left to run once it has been taken.
TerminatedIsLast ==
  /\ \A i \in DOMAIN connectionsQueue :
       connectionsQueue[i].kind = "terminated" => i = Len(connectionsQueue)
  /\ user.terminated \/ running.kind = "terminated" => connectionsQueue = <<>>
  /\ ~(user.terminated /\ running.kind = "terminated")

\* Data reaches the upper layer only between onActivated and onReadEOF, whatever
\* the receive gate did in between: EOF never overtakes data that was refused.
DataWithinStream ==
  running.kind \in {"data", "copied"} => user.activated /\ ~user.eof

\* A connection does not keep its slot in the listener's backlog once the upper
\* layer activated it, nor beyond the life of its pcb.
BacklogSlotReturned ==
  conn.state = "Active" \/ pcb.state \in {"TIME_WAIT", "FREED"} => ~pcb.backlogpend

\* Data that was refused on an active connection can be delivered: once the
\* upper layer acknowledges everything it was given and enables delivery, the
\* receive gate lets the refused data through.
RefusedCanDrain ==
  conn.state = "Active" /\ pcb.refused > 0 /\ pcb.state \in ActiveStates =>
    shouldAllowRecv(acknowledgeDeliveredBytes(setInboundDeliveryEnabled(Now, TRUE), conn.inflight))

\* Refused data stays where lwIP offers it again: the timers and tcp_input retry
\* only the pcbs of tcp_active_pcbs.
RefusedIsRetried == pcb.refused > 0 => pcb.state \in ActiveStates

\* lwIP never calls back with an arg whose TFObjectRef is gone.
NoStaleArg == ~stale

-----------------------------------------------------------------------------
(* Refinement: the callbacks that run on the connections queue.  The two   *)
(* ways of delivering data are one callback of the contract.               *)

Contract == INSTANCE TCPConnectionContract WITH
  alive      <- conn.alive,
  callback   <- IF running.kind = "copied" THEN "data" ELSE running.kind,
  activated  <- user.activated,
  eof        <- user.eof,
  terminated <- user.terminated

\* The upper layer sees what TFTCPConnection.h promises: callbacks that start
\* on a live connection only, data between onActivated and onReadEOF, each
\* one-time callback once, and after the end onTerminated alone.
KeepsContract == Contract!Spec

-----------------------------------------------------------------------------
(* Liveness properties, under FairSpec.                                    *)

\* A connection the upper layer never decides on does not stay in New: the
\* reject timeout, checked in tf_tcp_poll, or the end of the pcb ends it, also
\* when the peer has closed and the pcb has left the list that is polled.
NewIsDecided == conn.state = "New" ~> conn.state # "New"

\* After a connection has terminated, lwIP frees its pcb even if the peer falls
\* silent at any point: no pcb is kept by a connection nobody can close any more.
TerminatedPcbIsFreed == ~conn.alive ~> pcb.state = "FREED"

\* Every receive buffer goes back to lwIP's pool, also when the connection dies
\* while the buffer is queued.
BuffersComeBack == pbufs > 0 ~> pbufs = 0

\* A posted onTerminated is called, unless the upper layer let go of the object.
TerminatedIsCalled ==
  (\E i \in DOMAIN connectionsQueue : connectionsQueue[i].kind = "terminated")
     ~> (user.terminated \/ ~conn.exists)
=============================================================================
