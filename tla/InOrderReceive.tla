--------------------------- MODULE InOrderReceive ---------------------------
(***************************************************************************)
(* How LwipPcb sees the receive side of a connection: every segment        *)
(* completes some run of bytes in order, or nothing, and tcp_recved gives  *)
(* bytes back.  An abstract specification that LwipReassembly implements.  *)
(***************************************************************************)
EXTENDS LwipPcb

VARIABLE pcb

Init == pcb = tcp_alloc

\* tcp_input as far as the receive window and the state go: tcp_process, and
\* the window credit of a FIN when it is reported.
Input(s) ==
  LET q == tcp_process(pcb, s) IN
  pcb' = IF Received(pcb, s).fin THEN CreditFin(q) ELSE q

Recved(len) == pcb' = tcp_recved(pcb, len)

Next ==
  \/ \E s \in Segment : s.acked = 0 /\ ~s.finacked /\ Input(s)
  \/ \E len \in 1 .. TCP_WND : Recved(len)

Spec == Init /\ [][Next]_pcb
=============================================================================
