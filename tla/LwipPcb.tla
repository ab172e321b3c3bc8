------------------------------ MODULE LwipPcb ------------------------------
(***************************************************************************)
(* The lwIP protocol control block of one accepted TCP connection, and the *)
(* lwIP functions that change nothing but the block (tcp.c, tcp_in.c and   *)
(* tcp_out.c under Sources/Lwip/src/core).  The functions that call back   *)
(* into TunForge are in TFTCPConnection and LwipTcp.                       *)
(*                                                                         *)
(* Sequence numbers, congestion control, retransmission and the contents   *)
(* of segments are abstracted away: a segment is the run of in-order bytes *)
(* it completes, its FIN, and what it newly acknowledges.                  *)
(***************************************************************************)
EXTENDS Integers

CONSTANTS
  TCP_WND,       \* receive window of a fresh pcb
  TCP_SND_BUF,   \* send buffer of a fresh pcb
  MaxRun         \* longest run of in-order bytes one segment completes

ASSUME LwipAssumption ==
  /\ TCP_WND \in Nat \ {0}
  /\ TCP_SND_BUF \in Nat \ {0}
  /\ MaxRun \in Nat \ {0}

\* The states in which a pcb is on tcp_active_pcbs, the list the timers walk.
ActiveStates ==
  {"ESTABLISHED", "FIN_WAIT_1", "FIN_WAIT_2", "CLOSE_WAIT", "CLOSING", "LAST_ACK"}

\* FREED stands for a block given back to MEMP_TCP_PCB.
PcbStates == ActiveStates \cup {"TIME_WAIT", "FREED"}

\* refused is the length of refused_data (0 for NULL) and refusedFin its
\* PBUF_FLAG_TCP_FIN; callbacks tells whether arg, recv, sent, poll and errf
\* are TunForge's; backlogpend is TF_BACKLOGPEND, the slot that the connection
\* takes of the listener's accepts_pending.
Pcb == [state       : PcbStates,
        callbacks   : BOOLEAN,
        backlogpend : BOOLEAN,
        rxclosed    : BOOLEAN,
        closepend   : BOOLEAN,
        rcv_wnd     : 0 .. TCP_WND,
        refused     : 0 .. TCP_WND,
        refusedFin  : BOOLEAN,
        snd_buf     : 0 .. TCP_SND_BUF]

\* What a segment that reaches tcp_input for this pcb does: it completes len
\* bytes in order, then possibly the FIN; it newly acknowledges acked bytes
\* and possibly our FIN.  Duplicates, out-of-window and out-of-order segments
\* are those with len = 0 and no FIN.
Segment == [len : 0 .. MaxRun, fin : BOOLEAN, acked : 0 .. TCP_SND_BUF, finacked : BOOLEAN]

\* Only bytes that were sent are acknowledged, our FIN only once it is queued
\* and with everything before it.
Acceptable(p, s) ==
  /\ s.acked <= TCP_SND_BUF - p.snd_buf
  /\ s.finacked => /\ p.state \in {"FIN_WAIT_1", "CLOSING", "LAST_ACK"}
                   /\ s.acked = TCP_SND_BUF - p.snd_buf

\* The pcb that tunforge_accept is given, its slot delayed.
tcp_alloc ==
  [state |-> "ESTABLISHED", callbacks |-> FALSE, backlogpend |-> TRUE,
   rxclosed |-> FALSE, closepend |-> FALSE, rcv_wnd |-> TCP_WND,
   refused |-> 0, refusedFin |-> FALSE, snd_buf |-> TCP_SND_BUF]

\* Nothing of a freed block is read again; the backlog slot and the refused
\* pbuf live outside it, so a block freed while it still has them leaks them.
memp_free(p) ==
  [p EXCEPT !.state = "FREED", !.callbacks = FALSE, !.rxclosed = FALSE,
            !.closepend = FALSE, !.rcv_wnd = 0, !.snd_buf = 0]

-----------------------------------------------------------------------------

tcp_backlog_accepted(p) == [p EXCEPT !.backlogpend = FALSE]

tcp_recved(p, len) ==
  [p EXCEPT !.rcv_wnd = IF p.rcv_wnd + len > TCP_WND THEN TCP_WND ELSE p.rcv_wnd + len]

\* The sequence number of a FIN is given back to the window when the FIN is
\* reported, since the application never calls tcp_recved for it.
CreditFin(p) ==
  [p EXCEPT !.rcv_wnd = IF p.rcv_wnd = TCP_WND THEN TCP_WND ELSE p.rcv_wnd + 1]

\* A no-op in TIME_WAIT.
tcp_pcb_purge(p) ==
  IF p.state \in ActiveStates
    THEN [p EXCEPT !.backlogpend = FALSE, !.refused = 0, !.refusedFin = FALSE]
    ELSE p

\* nomem: tcp_send_fin could not allocate the FIN segment.  That is folded
\* into TF_CLOSEPEND and reported as success.
tcp_close_shutdown_fin(p, nomem) ==
  IF p.state \notin {"ESTABLISHED", "CLOSE_WAIT"}
    THEN p
    ELSE IF nomem
           THEN [p EXCEPT !.closepend = TRUE]
           ELSE [p EXCEPT !.state = IF p.state = "ESTABLISHED" THEN "FIN_WAIT_1" ELSE "LAST_ACK"]

\* tcp_shutdown(pcb, 0, 1): the transmit side only.
tcp_shutdown(p, nomem) == tcp_close_shutdown_fin(p, nomem)

\* nomem: the segment queue is full or an allocation fails.
tcp_write_err(p, len, nomem) ==
  IF p.state \notin {"ESTABLISHED", "CLOSE_WAIT"} THEN "ERR_CONN"
  ELSE IF len > p.snd_buf \/ nomem THEN "ERR_MEM"
  ELSE "ERR_OK"

tcp_write(p, len, nomem) ==
  IF tcp_write_err(p, len, nomem) = "ERR_OK" THEN [p EXCEPT !.snd_buf = @ - len] ELSE p

-----------------------------------------------------------------------------
(* Input processing.                                                       *)

\* Mutant of Received: the segment is not cut to the window.
Received_untrimmed(p, s) ==
  IF p.state \notin {"ESTABLISHED", "FIN_WAIT_1", "FIN_WAIT_2"} \/ p.rcv_wnd = 0
    THEN [data |-> 0, fin |-> FALSE, tcplen |-> 0]
    ELSE [data |-> s.len, fin |-> s.fin, tcplen |-> s.len + (IF s.fin THEN 1 ELSE 0)]

\* Data and FIN are taken only before the peer's FIN and within the window;
\* a segment that overruns the window is cut to it and loses its FIN.
Received(p, s) ==
  LET tcplen == s.len + (IF s.fin THEN 1 ELSE 0) IN
  IF p.state \notin {"ESTABLISHED", "FIN_WAIT_1", "FIN_WAIT_2"} \/ p.rcv_wnd = 0
    THEN [data |-> 0, fin |-> FALSE, tcplen |-> 0]
  ELSE IF tcplen > p.rcv_wnd
    THEN [data |-> p.rcv_wnd, fin |-> FALSE, tcplen |-> p.rcv_wnd]
  ELSE [data |-> s.len, fin |-> s.fin, tcplen |-> tcplen]

tcp_receive(p, s) ==
  [p EXCEPT !.snd_buf = @ + s.acked, !.rcv_wnd = @ - Received(p, s).tcplen]

EnterTimeWait(p) == [tcp_pcb_purge(p) EXCEPT !.state = "TIME_WAIT"]

\* The state machine of tcp_process after tcp_receive; gotFin is TF_GOT_FIN.
tcp_process(p, s) ==
  LET q      == tcp_receive(p, s)
      gotFin == Received(p, s).fin
  IN CASE q.state \in {"ESTABLISHED", "CLOSE_WAIT"} /\ gotFin ->
            [q EXCEPT !.state = "CLOSE_WAIT"]
       [] q.state = "FIN_WAIT_1" /\ gotFin /\ s.finacked -> EnterTimeWait(q)
       [] q.state = "FIN_WAIT_1" /\ gotFin /\ ~s.finacked -> [q EXCEPT !.state = "CLOSING"]
       [] q.state = "FIN_WAIT_1" /\ ~gotFin /\ s.finacked -> [q EXCEPT !.state = "FIN_WAIT_2"]
       [] q.state = "FIN_WAIT_2" /\ gotFin -> EnterTimeWait(q)
       [] q.state = "CLOSING" /\ s.finacked -> EnterTimeWait(q)
       [] OTHER -> q

\* tcp_process sets TF_CLOSED.
ClosedByAck(p, s) == p.state = "LAST_ACK" /\ s.finacked

-----------------------------------------------------------------------------
(* What tcp_slowtmr decides to remove.                                     *)

\* Data or a FIN of ours that the peer has not acknowledged.
Unacknowledged(p) ==
  p.snd_buf < TCP_SND_BUF \/ p.state \in {"FIN_WAIT_1", "CLOSING", "LAST_ACK"}

\* Retransmissions or window probes are exhausted, or the pcb stayed too long
\* in FIN_WAIT_2 after a full close, or in LAST_ACK.
MayTimeOut(p) ==
  /\ p.state \in ActiveStates
  /\ Unacknowledged(p) \/ (p.state = "FIN_WAIT_2" /\ p.rxclosed)
=============================================================================
