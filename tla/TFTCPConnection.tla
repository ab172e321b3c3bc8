--------------------------- MODULE TFTCPConnection ---------------------------
(***************************************************************************)
(* TFTCPConnection (Sources/TunForgeCore/TFTCPConnection.m): the bridge    *)
(* object between one lwIP pcb and the callbacks of the upper layer, with  *)
(* the lwIP functions through which the two call each other (tcp_free,     *)
(* tcp_abandon, tcp_close).                                                *)
(*                                                                         *)
(* All of this code runs on the packets queue, so a method is an operator  *)
(* from a world to the world it leaves: the connection object, the pcb and *)
(* the blocks posted on the connections queue.  LwipTcp builds lwIP's      *)
(* input and timers on them, TunForgeTCP the steps of the packets queue.   *)
(***************************************************************************)
EXTENDS LwipPcb, Sequences

CONSTANTS
  TCP_RCVLOWAT,   \* receive low-water mark (2 * MSS)
  TCP_SNDLOWAT    \* send low-water mark (2 * MSS)

ASSUME LowWaterAssumption ==
  /\ TCP_RCVLOWAT \in 0 .. TCP_WND
  /\ TCP_SNDLOWAT \in 0 .. TCP_SND_BUF

ConnStates == {"New", "Active", "Closing", "Closed"}

Reasons == {"None", "Close", "Reset", "Abort", "Destroyed"}

\* The handlers that the upper layer has set: none yet; all of them with
\* onReadableBytes, or with onReadable only, or without a read handler.
Handlers == {"unset", "bytes", "copy", "noread"}

\* pcb is whether self.pcb still points to the pcb, refAlive whether pcbRef is
\* still valid, exists whether the object has not been deallocated.
Conn == [state               : ConnStates,
         pcb                 : BOOLEAN,
         alive               : BOOLEAN,
         refAlive            : BOOLEAN,
         exists              : BOOLEAN,
         writable            : BOOLEAN,
         readEOF             : BOOLEAN,
         writeFIN            : BOOLEAN,
         reason              : Reasons,
         didNotifyActive     : BOOLEAN,
         didNotifyTerminated : BOOLEAN,
         pendingClose        : BOOLEAN,
         recvEnabled         : BOOLEAN,
         inflight            : Nat,
         handlers            : Handlers]

\* A block on the connections queue: the callback it will make and the byte
\* count it captured (for onWritableChanged, 1 for YES and 0 for NO).
BlockKinds ==
  {"accept", "activated", "data", "copied", "writable", "sent", "eof", "terminated"}

Block == [kind : BlockKinds, n : Nat]

\* pbufs counts the receive buffers TunForge took over from lwIP and has not
\* freed; stale records that lwIP called back with an arg whose TFObjectRef
\* was already deallocated; dropped counts the bytes that tf_tcp_recv added to
\* inflightAckBytes and then gave to nobody.
World == [conn : Conn, pcb : Pcb, queue : Seq(Block), pbufs : Int, stale : BOOLEAN,
          dropped : Nat]

initWithTCPPcb ==
  [state |-> "New", pcb |-> TRUE, alive |-> TRUE, refAlive |-> TRUE, exists |-> TRUE,
   writable |-> FALSE, readEOF |-> FALSE, writeFIN |-> FALSE, reason |-> "None",
   didNotifyActive |-> FALSE, didNotifyTerminated |-> FALSE, pendingClose |-> FALSE,
   recvEnabled |-> FALSE, inflight |-> 0, handlers |-> "unset"]

setupPcb(p) == [p EXCEPT !.callbacks = TRUE]

-----------------------------------------------------------------------------
(* Notifications.  The handler is copied when the block is posted: without *)
(* one nothing is posted, now or later.                                    *)

Post(w, kind, n) ==
  IF w.conn.handlers = "unset"
    THEN w
    ELSE [w EXCEPT !.queue = Append(@, [kind |-> kind, n |-> n])]

notifyActiveOnceLocked(w) ==
  IF w.conn.didNotifyActive
    THEN w
    ELSE Post([w EXCEPT !.conn.didNotifyActive = TRUE], "activated", 0)

updateWritableLocked(w, newValue) ==
  IF w.conn.writable = newValue
    THEN w
    ELSE Post([w EXCEPT !.conn.writable = newValue], "writable", IF newValue THEN 1 ELSE 0)

handlePeerFINLocked(w) ==
  IF w.conn.readEOF
    THEN w
    ELSE Post([w EXCEPT !.conn.readEOF = TRUE], "eof", 0)

clearCallbackLocked(w) ==
  [w EXCEPT !.pcb.callbacks = IF w.conn.pcb THEN FALSE ELSE @, !.conn.refAlive = FALSE]

Terminated(w, reason) ==
  Post([w EXCEPT !.conn.didNotifyTerminated = TRUE, !.conn.alive = FALSE,
                 !.conn.state = "Closed", !.conn.reason = reason,
                 !.conn.pendingClose = FALSE], "terminated", 0)

\* Mutant of terminateLocked: without the didNotifyTerminated guard.
terminateLocked_unguarded(w, reason) ==
  Terminated(IF w.conn.pcb THEN clearCallbackLocked(w) ELSE w, reason)

terminateLocked(w, reason) ==
  IF w.conn.didNotifyTerminated
    THEN w
    ELSE Terminated(IF w.conn.pcb THEN clearCallbackLocked(w) ELSE w, reason)

-----------------------------------------------------------------------------
(* The pcb is destroyed.                                                   *)

receivedPcbDestroyed(w) ==
  IF w.conn.didNotifyTerminated
    THEN w
    ELSE terminateLocked([w EXCEPT !.conn.pcb = FALSE], "Destroyed")

\* The destroy callback of the ext arg: invalidate the ref, tell the object
\* if the ref still led to it, release the ref.
tf_tcp_extarg_destroy(w) ==
  LET invalidated == [w EXCEPT !.conn.refAlive = FALSE] IN
  IF w.conn.refAlive /\ w.conn.exists
    THEN receivedPcbDestroyed(invalidated)
    ELSE invalidated

tcp_free(w) ==
  LET destroyed == tf_tcp_extarg_destroy(w) IN
  [destroyed EXCEPT !.pcb = memp_free(destroyed.pcb)]

\* Mutant of tf_tcp_err: self.pcb is not cleared.
tf_tcp_err_keepspcb(w, err) ==
  IF ~(w.conn.refAlive /\ w.conn.exists /\ w.conn.alive)
    THEN w
    ELSE terminateLocked(w, IF err = "ERR_RST" THEN "Reset" ELSE "Abort")

tf_tcp_err(w, err) ==
  IF ~(w.conn.refAlive /\ w.conn.exists /\ w.conn.alive)
    THEN w
    ELSE terminateLocked([w EXCEPT !.conn.pcb = FALSE],
                         IF err = "ERR_RST" THEN "Reset" ELSE "Abort")

\* errf is TunForge's callback or NULL.  Its arg, the TFObjectRef, is retained
\* by the object and by the pcb's ext arg: it is gone when both are.
TCP_EVENT_ERR(w, errf, err) ==
  IF ~errf THEN w
  ELSE IF ~w.conn.exists /\ w.pcb.state = "FREED" THEN [w EXCEPT !.stale = TRUE]
  ELSE tf_tcp_err(w, err)

\* errf is read before the pcb is freed and called after.
tcp_abandon(w) ==
  IF w.pcb.state = "TIME_WAIT"
    THEN tcp_free(w)
    ELSE TCP_EVENT_ERR(tcp_free([w EXCEPT !.pcb = tcp_pcb_purge(w.pcb)]),
                       w.pcb.callbacks, "ERR_ABRT")

-----------------------------------------------------------------------------
(* Closing.                                                                *)

abortLocked(w, reason) ==
  IF ~w.conn.alive \/ w.conn.state = "Closed"
    THEN w
    ELSE LET closing == [w EXCEPT !.conn.state = "Closing"]
             aborted == IF closing.conn.pcb
                          THEN tcp_abandon([clearCallbackLocked(closing)
                                              EXCEPT !.conn.pcb = FALSE])
                          ELSE closing
         IN terminateLocked(aborted, reason)

\* Mutant of tcp_close: TF_RXCLOSED is not set.
tcp_close_rxopen(w, nomem) ==
  IF /\ w.pcb.state \in {"ESTABLISHED", "CLOSE_WAIT"}
     /\ w.pcb.refused > 0 \/ w.pcb.rcv_wnd # TCP_WND
    THEN tcp_free([w EXCEPT !.pcb = tcp_pcb_purge(w.pcb)])
    ELSE [w EXCEPT !.pcb = tcp_close_shutdown_fin(w.pcb, nomem)]

\* A close with unread data resets the connection and frees the pcb at once.
tcp_close(w, nomem) ==
  LET p == [w.pcb EXCEPT !.rxclosed = TRUE] IN
  IF /\ p.state \in {"ESTABLISHED", "CLOSE_WAIT"}
     /\ p.refused > 0 \/ p.rcv_wnd # TCP_WND
    THEN tcp_free([w EXCEPT !.pcb = tcp_pcb_purge(p)])
    ELSE [w EXCEPT !.pcb = tcp_close_shutdown_fin(p, nomem)]

\* Mutant of tcp_close_err: the failure to queue the FIN is returned.
tcp_close_err_nomem(w, nomem) == IF nomem THEN "ERR_MEM" ELSE "ERR_OK"

\* What tcp_close returns: always ERR_OK, since tcp_close_shutdown_fin turns
\* ERR_MEM into TF_CLOSEPEND.
tcp_close_err(w, nomem) == "ERR_OK"

tryGracefulCloseLocked(w, nomem) ==
  IF ~w.conn.alive \/ w.conn.state = "Closed" THEN w
  ELSE IF ~w.conn.pcb THEN terminateLocked(w, "Close")
  ELSE LET closing == [w EXCEPT !.conn.state = "Closing"] IN
       CASE tcp_close_err(w, nomem) = "ERR_OK" ->
              terminateLocked([tcp_close(closing, nomem) EXCEPT !.conn.pcb = FALSE,
                                                                !.conn.pendingClose = FALSE],
                              "Close")
         [] tcp_close_err(w, nomem) = "ERR_MEM" -> [closing EXCEPT !.conn.pendingClose = TRUE]
         [] OTHER -> abortLocked(closing, "Abort")

-----------------------------------------------------------------------------
(* The public methods.                                                     *)

\* Mutant of markActive: the backlog slot is not returned.
markActive_keepsslot(w) ==
  IF ~w.conn.alive \/ ~w.conn.pcb \/ w.conn.state # "New"
    THEN w
    ELSE notifyActiveOnceLocked([w EXCEPT !.conn.state = "Active"])

markActive(w) ==
  IF ~w.conn.alive \/ ~w.conn.pcb \/ w.conn.state # "New"
    THEN w
    ELSE notifyActiveOnceLocked([w EXCEPT !.conn.state = "Active",
                                          !.pcb = tcp_backlog_accepted(w.pcb)])

setInboundDeliveryEnabled(w, enabled) == [w EXCEPT !.conn.recvEnabled = enabled]

updateInflightAckBytes(w, delta) ==
  [w EXCEPT !.conn.inflight = IF @ + delta < 0 THEN 0 ELSE @ + delta]

\* Mutant of acknowledgeDeliveredBytes: the credit is not limited to inflightAckBytes.
acknowledgeDeliveredBytes_unlimited(w, bytes) ==
  IF ~w.conn.alive \/ ~w.conn.pcb \/ w.conn.state # "Active" \/ bytes = 0
    THEN w
    ELSE updateInflightAckBytes([w EXCEPT !.pcb = tcp_recved(w.pcb, bytes)], 0 - bytes)

acknowledgeDeliveredBytes(w, bytes) ==
  IF ~w.conn.alive \/ ~w.conn.pcb \/ w.conn.state # "Active" \/ bytes = 0
    THEN w
    ELSE LET credit == IF bytes < w.conn.inflight THEN bytes ELSE w.conn.inflight IN
         updateInflightAckBytes([w EXCEPT !.pcb = tcp_recved(w.pcb, credit)], 0 - credit)

tf_tcp_write_ready(p) == p.snd_buf >= TCP_SNDLOWAT

writeBytes(w, length, nomem) ==
  IF ~w.conn.alive \/ ~w.conn.pcb \/ w.conn.state # "Active" \/ w.conn.writeFIN
    THEN w
    ELSE LET written == [w EXCEPT !.pcb = tcp_write(w.pcb, length, nomem)]
             err     == tcp_write_err(w.pcb, length, nomem)
         IN CASE err = "ERR_OK"  -> updateWritableLocked(written, tf_tcp_write_ready(written.pcb))
              [] err = "ERR_MEM" -> updateWritableLocked(written, FALSE)
              [] OTHER           -> abortLocked(written, "Abort")

shutdownWrite(w, nomem) ==
  IF ~w.conn.alive \/ ~w.conn.pcb \/ w.conn.state = "Closed" \/ w.conn.writeFIN
    THEN w
    ELSE [w EXCEPT !.conn.writeFIN = TRUE, !.pcb = tcp_shutdown(w.pcb, nomem)]

gracefulClose(w, nomem) ==
  IF ~w.conn.alive THEN w
  ELSE IF ~w.conn.pcb THEN terminateLocked(w, "Close")
  ELSE tryGracefulCloseLocked(w, nomem)

abort(w) == abortLocked(w, "Abort")

-----------------------------------------------------------------------------
(* The raw lwIP callbacks.                                                 *)

\* tf_conn_from_arg leads to a live connection of this pcb.
tf_conn_from_arg(w) == w.conn.refAlive /\ w.conn.exists /\ w.conn.alive /\ w.conn.pcb

\* Mutant of tf_tcp_read_ready: the low-water mark itself is not enough.
tf_tcp_read_ready_strict(p) == p.rcv_wnd > TCP_RCVLOWAT

tf_tcp_read_ready(p) == p.rcv_wnd >= TCP_RCVLOWAT

shouldAllowRecv(w) ==
  /\ w.conn.recvEnabled
  /\ w.conn.alive
  /\ w.conn.state = "Active"
  /\ tf_tcp_read_ready(w.pcb)

\* The bytes were counted in inflightAckBytes and reach no handler.
Dropped(w, tot) == [w EXCEPT !.dropped = @ + tot]

\* Mutant of Deliver: the copying path does not acknowledge.
Deliver_unacknowledged(w, tot, nomem) ==
  CASE w.conn.handlers = "bytes" /\ ~nomem ->
         Post([w EXCEPT !.pbufs = @ + 1], "data", tot)
    [] w.conn.handlers = "copy" /\ ~nomem -> Post(w, "copied", tot)
    [] w.conn.handlers \in {"bytes", "copy"} /\ nomem -> Dropped(w, tot)
    [] OTHER -> Dropped([w EXCEPT !.pcb = tcp_recved(w.pcb, tot)], tot)

\* The payload of an accepted segment.  nomem: malloc fails, the bytes are
\* dropped and stay in inflightAckBytes.  The copying path acknowledges at once.
\* Without a read handler the bytes are dropped and the window is given back, but
\* inflightAckBytes keeps them.
Deliver(w, tot, nomem) ==
  CASE w.conn.handlers = "bytes" /\ ~nomem ->
         Post([w EXCEPT !.pbufs = @ + 1], "data", tot)
    [] w.conn.handlers = "copy" /\ ~nomem ->
         Post(acknowledgeDeliveredBytes(w, tot), "copied", tot)
    [] w.conn.handlers \in {"bytes", "copy"} /\ nomem -> Dropped(w, tot)
    [] OTHER -> Dropped([w EXCEPT !.pcb = tcp_recved(w.pcb, tot)], tot)

\* tf_tcp_recv with a pbuf refuses it (ERR_MEM) or takes it (ERR_OK).
tf_tcp_recv_err(w) ==
  IF tf_conn_from_arg(w) /\ ~shouldAllowRecv(w) THEN "ERR_MEM" ELSE "ERR_OK"

tf_tcp_recv(w, tot, nomem) ==
  IF tf_conn_from_arg(w) /\ shouldAllowRecv(w)
    THEN Deliver(updateInflightAckBytes(w, tot), tot, nomem)
    ELSE w

\* tf_tcp_recv with p = NULL.
tf_tcp_recv_fin(w) == IF tf_conn_from_arg(w) THEN handlePeerFINLocked(w) ELSE w

tf_tcp_sent(w, len) ==
  IF tf_conn_from_arg(w)
    THEN Post(updateWritableLocked(w, tf_tcp_write_ready(w.pcb)), "sent", len)
    ELSE w

\* Mutant of tf_tcp_poll: no New-state timeout.
tf_tcp_poll_patient(w, timedOut, nomem) ==
  IF ~tf_conn_from_arg(w) THEN w
  ELSE LET hinted == updateWritableLocked(w, tf_tcp_write_ready(w.pcb)) IN
       IF hinted.conn.pendingClose THEN tryGracefulCloseLocked(hinted, nomem) ELSE hinted

\* timedOut: kTCPNewStateRejectTimeoutMs has elapsed since the accept.
tf_tcp_poll(w, timedOut, nomem) ==
  IF ~tf_conn_from_arg(w) THEN w
  ELSE IF w.conn.state = "New" /\ timedOut THEN abortLocked(w, "Abort")
  ELSE LET hinted == updateWritableLocked(w, tf_tcp_write_ready(w.pcb)) IN
       IF hinted.conn.pendingClose THEN tryGracefulCloseLocked(hinted, nomem) ELSE hinted
=============================================================================
