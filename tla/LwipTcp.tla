------------------------------- MODULE LwipTcp -------------------------------
(***************************************************************************)
(* The parts of lwIP that drive a connection: tcp_input (tcp_in.c) and the *)
(* two TCP timers (tcp.c), with every callback they make into TunForge and *)
(* in the order in which they make them.  Each operator maps the world     *)
(* before one run of the lwIP function to the world after it.              *)
(***************************************************************************)
EXTENDS TFTCPConnection

(* The callbacks, when TunForge's are attached, and lwIP's defaults        *)
(* (tcp_recv_null frees the data and reopens the window).                  *)

TCP_EVENT_RECV_err(w) == IF w.pcb.callbacks THEN tf_tcp_recv_err(w) ELSE "ERR_OK"

TCP_EVENT_RECV(w, tot, nomem) ==
  IF w.pcb.callbacks THEN tf_tcp_recv(w, tot, nomem)
                     ELSE [w EXCEPT !.pcb = tcp_recved(w.pcb, tot)]

TCP_EVENT_CLOSED(w) == IF w.pcb.callbacks THEN tf_tcp_recv_fin(w) ELSE w

TCP_EVENT_SENT(w, len) == IF w.pcb.callbacks THEN tf_tcp_sent(w, len) ELSE w

TCP_EVENT_POLL(w, timedOut, nomem) ==
  IF w.pcb.callbacks THEN tf_tcp_poll(w, timedOut, nomem) ELSE w

-----------------------------------------------------------------------------

ReportFin(w) == TCP_EVENT_CLOSED([w EXCEPT !.pcb = CreditFin(w.pcb)])

\* Offer the refused data again, and the FIN that was received behind it.
tcp_process_refused_data(w, nomem) ==
  LET offered == [w EXCEPT !.pcb.refused = 0, !.pcb.refusedFin = FALSE]
      taken   == TCP_EVENT_RECV(offered, w.pcb.refused, nomem)
  IN IF w.pcb.refused = 0 \/ TCP_EVENT_RECV_err(offered) # "ERR_OK" THEN w
     ELSE IF w.pcb.refusedFin THEN ReportFin(taken)
     ELSE taken

\* The end of a pcb whose last ACK arrived: errf is called before the pcb is
\* freed, and only if the application had shut down the send side alone.
tcp_input_delayed_close(w) ==
  LET told == IF w.pcb.rxclosed THEN w ELSE TCP_EVENT_ERR(w, w.pcb.callbacks, "ERR_CLSD") IN
  tcp_free([told EXCEPT !.pcb = tcp_pcb_purge(told.pcb)])

\* Data for the application: refused data is kept in the pcb.
DeliverData(w, data, nomem) ==
  IF data = 0 THEN w
  ELSE IF TCP_EVENT_RECV_err(w) # "ERR_OK" THEN [w EXCEPT !.pcb.refused = data]
  ELSE TCP_EVENT_RECV(w, data, nomem)

\* Mutant of DeliverFin: the FIN overtakes refused data.
DeliverFin_overtakes(w) == ReportFin(w)

\* A FIN behind refused data waits for it.
DeliverFin(w) ==
  IF w.pcb.refused > 0 THEN [w EXCEPT !.pcb.refusedFin = TRUE] ELSE ReportFin(w)

\* The callbacks after tcp_process: sent, then closed, then recv, then FIN.
InputCallbacks(w, s, rcvd, closed, nomem) ==
  LET acked == IF s.acked > 0 THEN TCP_EVENT_SENT(w, s.acked) ELSE w IN
  IF closed THEN tcp_input_delayed_close(acked)
  ELSE IF rcvd.data > 0 /\ acked.pcb.rxclosed THEN tcp_abandon(acked)
  ELSE LET delivered == DeliverData(acked, rcvd.data, nomem) IN
       IF rcvd.fin THEN DeliverFin(delivered) ELSE delivered

\* A segment that carries no RST.  As long as data is refused, only pure ACKs
\* are processed.
tcp_input(w, s, nomem) ==
  LET retried == tcp_process_refused_data(w, nomem)
      p       == retried.pcb
  IN IF p.refused > 0 /\ (s.len > 0 \/ s.fin)
       THEN retried
       ELSE InputCallbacks([retried EXCEPT !.pcb = tcp_process(p, s)], s,
                           Received(p, s), ClosedByAck(p, s), nomem)

\* An acceptable RST: errf is called before the pcb is freed.
tcp_input_rst(w, nomem) ==
  LET retried == tcp_process_refused_data(w, nomem)
      told    == TCP_EVENT_ERR(retried, retried.pcb.callbacks, "ERR_RST")
  IN tcp_free([told EXCEPT !.pcb = tcp_pcb_purge(told.pcb)])

-----------------------------------------------------------------------------
(* Timers.                                                                 *)

\* A FIN that could not be queued is tried again; nofin: it still cannot.
tcp_handle_closepend(w, nofin) ==
  IF w.pcb.closepend /\ w.pcb.state \in ActiveStates
    THEN [w EXCEPT !.pcb = tcp_close_shutdown_fin([w.pcb EXCEPT !.closepend = FALSE], nofin)]
    ELSE w

\* The pcb's turn in tcp_fasttmr: a pending FIN, then data that was refused.
tcp_fasttmr(w, nofin, nomem) == tcp_process_refused_data(tcp_handle_closepend(w, nofin), nomem)

\* The pcb's turn in tcp_slowtmr when it is not removed.
tcp_slowtmr_poll(w, timedOut, nomem) == TCP_EVENT_POLL(w, timedOut, nomem)

\* The pcb's turn in tcp_slowtmr when it is removed: errf is read before the
\* pcb is freed and called after.
tcp_slowtmr_remove(w) ==
  TCP_EVENT_ERR(tcp_free([w EXCEPT !.pcb = tcp_pcb_purge(w.pcb)]), w.pcb.callbacks, "ERR_ABRT")

\* The end of TIME_WAIT in tcp_slowtmr: no errf call.
tcp_slowtmr_timewait(w) == tcp_free([w EXCEPT !.pcb = tcp_pcb_purge(w.pcb)])

\* tcp_alloc finds no free pcb for another connection: pending FINs are sent,
\* then the oldest pcb in one of three states is killed (killed: this one).
tcp_alloc_shortage(w, nofin, killed) ==
  LET handled == tcp_handle_closepend(w, nofin) IN
  IF killed /\ handled.pcb.state \in {"TIME_WAIT", "LAST_ACK", "CLOSING"}
    THEN tcp_abandon(handled)
    ELSE handled
=============================================================================
