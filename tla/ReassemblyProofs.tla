-------------------------- MODULE ReassemblyProofs --------------------------
(***************************************************************************)
(* The invariants of LwipReassembly and its refinement of InOrderReceive,  *)
(* proved for every stream, window, segment size and window scale.  The    *)
(* sequence numbers of the receive side are reasoned about as offsets in   *)
(* the stream: rcv_nxt, the right edge of the window and the right edge    *)
(* that was announced.                                                     *)
(***************************************************************************)
EXTENDS LwipReassembly, SeqProofs

\* The receive part of a pcb.
Rcv == [rcv_nxt : SeqNos, rcv_wnd : 0 .. TCP_WND, rcv_ann_wnd : 0 .. TCP_WND,
        rcv_ann_right_edge : SeqNos, ooseq : Seq(Segment),
        ackDelay : BOOLEAN, ackNow : BOOLEAN, fin : BOOLEAN]

\* Where it stands in the stream.
Nxt(r) == Offset(r.rcv_nxt)
Right(r) == Nxt(r) + r.rcv_wnd
Edge(r) == Offset(r.rcv_ann_right_edge)

MinAdv == MinOf(TCP_WND \div 2, mss)
Bound == MaxOf(TCP_WND_UPDATE_THRESHOLD, MinAdv)
Unit == 2^RCV_SCALE

\* A queue of segments between lo and hi, in order, without overlap, of which
\* only one that ends the stream has the FIN.
Sorted(q, lo, hi) ==
  /\ \A i \in 1 .. Len(q) : /\ Sane(q[i]) /\ lo < Start(q[i]) /\ End(q[i]) <= hi
                            /\ q[i].fin => Stop(q[i]) = StreamLen
  /\ \A i, j \in 1 .. Len(q) : i < j => End(q[i]) <= Start(q[j])

\* The window is what was announced and less than a segment more, until the FIN
\* is in.  Its right edge is never before the first one.
Window(r) ==
  /\ Nxt(r) <= StreamLen + 1
  /\ TCP_WND <= Right(r)
  /\ Edge(r) <= Nxt(r) + r.rcv_ann_wnd
  /\ r.rcv_ann_wnd <= r.rcv_wnd
  /\ ~r.fin => r.rcv_wnd - r.rcv_ann_wnd < MinAdv

Base(r) == r \in Rcv /\ Window(r) /\ Sorted(r.ooseq, Nxt(r), Right(r))

\* What the peer knows is not ahead of the receive side, and when every ACK got
\* through not far behind.
Peers == [una : Nat, edge : Nat]
Told(r, p) == p \in Peers /\ p.una <= Nxt(r) /\ p.edge <= Edge(r)
Close(r, p) ==
  /\ Edge(r) <= p.edge + Unit - 1
  /\ ~r.fin => Right(r) - Edge(r) < Bound
AckInv(r, p, lost) ==
  /\ Told(r, p)
  /\ lost = 0 => Close(r, p) /\ (p.una < Nxt(r) => r.ackDelay \/ r.ackNow)

-----------------------------------------------------------------------------
(* Constants and the window.                                               *)

\* The constants: the stream, its FIN and the window take less than half of the
\* sequence numbers, and some growth of the window is always worth announcing.
LEMMA Bounds ==
  /\ SEQ \in Nat /\ SEQ \div 2 \in Nat /\ 2 * (SEQ \div 2) = SEQ
  /\ ISS \in SeqNos /\ StreamLen \in Nat /\ TCP_WND \in Nat /\ TCP_WND >= 2
  /\ StreamLen + TCP_WND + 1 < SEQ \div 2
  /\ MinAdv \in Nat /\ MinAdv >= 1 /\ MinAdv <= TCP_WND
  /\ TCP_WND_UPDATE_THRESHOLD \in Nat
  /\ Bound \in Nat /\ MinAdv <= Bound /\ TCP_WND_UPDATE_THRESHOLD <= Bound
  /\ Unit \in Nat /\ Unit >= 1 /\ MaxSeg \in Nat /\ MaxAckLoss \in Nat
<1>1. /\ TCP_WND \in Nat /\ TCP_WND >= 2 /\ TCP_MSS \in Nat /\ TCP_MSS >= 1 /\ mss \in Nat /\ mss >= 1
      /\ MaxSeg \in Nat /\ MaxAckLoss \in Nat /\ StreamLen + TCP_WND + 1 < SEQ \div 2
  BY ReassemblyAssumption
<1>2. Unit \in Nat /\ Unit >= 1
  BY ReassemblyAssumption DEF Unit
<1>3. TCP_WND \div 2 \in Nat /\ TCP_WND \div 2 >= 1 /\ TCP_WND \div 2 <= TCP_WND /\ TCP_WND \div 4 \in Nat
  BY <1>1
<1>4. MinAdv \in Nat /\ MinAdv >= 1 /\ MinAdv <= TCP_WND
  <2>1. MinAdv = IF TCP_WND \div 2 <= mss THEN TCP_WND \div 2 ELSE mss
    BY <1>1, <1>3, MinMax DEF MinAdv
  <2> QED BY <1>1, <1>3, <2>1
<1>5. TCP_WND_UPDATE_THRESHOLD \in Nat
  <2>1. TCP_MSS * 4 \in Nat
    BY <1>1
  <2> QED BY <1>3, <2>1, MinMax DEF TCP_WND_UPDATE_THRESHOLD
<1>6. Bound \in Nat /\ MinAdv <= Bound /\ TCP_WND_UPDATE_THRESHOLD <= Bound
  BY <1>4, <1>5, MinMax DEF Bound
<1> QED BY <1>1, <1>2, <1>4, <1>5, <1>6, SeqBounds

\* The fields of the receive side.
LEMMA RcvFacts ==
  ASSUME NEW r \in Rcv
  PROVE  /\ r.rcv_nxt \in SeqNos /\ r.rcv_ann_right_edge \in SeqNos
         /\ r.rcv_wnd \in Nat /\ r.rcv_wnd <= TCP_WND
         /\ r.rcv_ann_wnd \in Nat /\ r.rcv_ann_wnd <= TCP_WND
         /\ r.ooseq \in Seq(Segment)
         /\ r.ackDelay \in BOOLEAN /\ r.ackNow \in BOOLEAN /\ r.fin \in BOOLEAN
         /\ Nxt(r) \in Nat /\ Edge(r) \in Nat /\ Right(r) \in Nat
         /\ Right(r) = Nxt(r) + r.rcv_wnd
<1>1. /\ r.rcv_nxt \in SeqNos /\ r.rcv_ann_right_edge \in SeqNos
      /\ r.rcv_wnd \in 0 .. TCP_WND /\ r.rcv_ann_wnd \in 0 .. TCP_WND
      /\ r.ooseq \in Seq(Segment)
      /\ r.ackDelay \in BOOLEAN /\ r.ackNow \in BOOLEAN /\ r.fin \in BOOLEAN
  BY DEF Rcv
<1>2. r.rcv_wnd \in Nat /\ r.rcv_wnd <= TCP_WND /\ r.rcv_ann_wnd \in Nat /\ r.rcv_ann_wnd <= TCP_WND
  BY <1>1, Bounds
<1>3. Nxt(r) \in Nat /\ Edge(r) \in Nat
  BY <1>1, OffsetType DEF Nxt, Edge
<1> QED BY <1>1, <1>2, <1>3 DEF Right

\* The right edge of the window.
LEMMA RightEdge ==
  ASSUME NEW r \in Rcv, Nxt(r) <= StreamLen + 1
  PROVE  /\ NewRightEdge(r) \in SeqNos /\ Offset(NewRightEdge(r)) = Right(r)
         /\ Right(r) < SEQ \div 2 /\ Nxt(r) < SEQ \div 2
<1>1. /\ r.rcv_nxt \in SeqNos /\ r.rcv_wnd \in Nat /\ r.rcv_wnd <= TCP_WND
      /\ Nxt(r) \in Nat /\ Right(r) = Nxt(r) + r.rcv_wnd
  BY RcvFacts
<1>2. Right(r) < SEQ \div 2 /\ Nxt(r) < SEQ \div 2 /\ Nxt(r) + r.rcv_wnd < SEQ
  BY <1>1, Bounds
<1>3. Add(r.rcv_nxt, r.rcv_wnd) \in SeqNos /\ Offset(Add(r.rcv_nxt, r.rcv_wnd)) = Nxt(r) + r.rcv_wnd
  BY <1>1, <1>2, OffsetAdd DEF Nxt
<1> QED BY <1>1, <1>2, <1>3 DEF NewRightEdge

\* The window is announced again when it grew by MinAdv.
LEMMA AdvertiseMeans ==
  ASSUME NEW r \in Rcv, Nxt(r) <= StreamLen + 1, Edge(r) <= Right(r)
  PROVE  CanAdvertise(r) <=> Edge(r) + MinAdv <= Right(r)
<1> DEFINE x == NewRightEdge(r)
           e == r.rcv_ann_right_edge
           y == Add(e, MinAdv)
<1>1. x \in SeqNos /\ Offset(x) = Right(r) /\ Right(r) < SEQ \div 2 /\ Right(r) \in Nat
  BY RightEdge, RcvFacts
<1>2. e \in SeqNos /\ Edge(r) = Offset(e) /\ Edge(r) \in Nat
  BY RcvFacts DEF Edge
<1>3. /\ MinAdv \in Nat /\ MinAdv <= TCP_WND /\ TCP_WND \in Nat /\ StreamLen \in Nat
      /\ StreamLen + TCP_WND + 1 < SEQ \div 2 /\ SEQ \in Nat /\ SEQ \div 2 \in Nat /\ 2 * (SEQ \div 2) = SEQ
  BY Bounds
<1>4. Offset(e) + MinAdv < SEQ
  BY <1>1, <1>2, <1>3
<1>5. y \in SeqNos /\ Offset(y) = Edge(r) + MinAdv
  BY <1>2, <1>3, <1>4, OffsetAdd
<1> HIDE DEF x, y, e
<1>6. Offset(x) - Offset(y) < SEQ \div 2 /\ Offset(y) - Offset(x) < SEQ \div 2
  BY <1>1, <1>2, <1>3, <1>5
<1>7. TCP_SEQ_LT(x, y) <=> Offset(x) < Offset(y)
  BY <1>1, <1>5, <1>6, LessNear
<1>8. CanAdvertise(r) <=> ~TCP_SEQ_LT(x, y)
  BY DEF CanAdvertise, TCP_SEQ_GEQ, x, y, e, MinAdv
<1> QED BY <1>1, <1>2, <1>3, <1>5, <1>7, <1>8

\* What tcp_update_rcv_ann_wnd announces: not less than before, not more than
\* the window, and less than MinAdv short of it.
LEMMA Updated ==
  ASSUME NEW r \in Rcv, Nxt(r) <= StreamLen + 1, Edge(r) <= Right(r)
  PROVE  \E w \in 0 .. r.rcv_wnd :
           /\ tcp_update_rcv_ann_wnd(r) = [r EXCEPT !.rcv_ann_wnd = w]
           /\ Edge(r) <= Nxt(r) + w
           /\ r.rcv_wnd - w < MinAdv
<1> DEFINE e == r.rcv_ann_right_edge
           w == IF CanAdvertise(r) THEN r.rcv_wnd
                ELSE IF TCP_SEQ_GT(r.rcv_nxt, e) THEN 0
                ELSE Diff(e, r.rcv_nxt)
<1>1. tcp_update_rcv_ann_wnd(r) = [r EXCEPT !.rcv_ann_wnd = w]
  BY DEF tcp_update_rcv_ann_wnd
<1>2. /\ r.rcv_nxt \in SeqNos /\ e \in SeqNos /\ r.rcv_wnd \in Nat /\ Nxt(r) \in Nat /\ Edge(r) \in Nat
      /\ Right(r) = Nxt(r) + r.rcv_wnd /\ Nxt(r) = Offset(r.rcv_nxt) /\ Edge(r) = Offset(e)
  BY RcvFacts DEF Nxt, Edge
<1>3. Right(r) < SEQ \div 2 /\ Nxt(r) < SEQ \div 2 /\ SEQ \div 2 \in Nat /\ MinAdv \in Nat /\ MinAdv >= 1
  BY RightEdge, Bounds
<1>4. CanAdvertise(r) <=> Edge(r) + MinAdv <= Right(r)
  BY AdvertiseMeans
<1>5. TCP_SEQ_GT(r.rcv_nxt, e) <=> Edge(r) < Nxt(r)
  <2>1. Offset(e) < SEQ \div 2 /\ Offset(r.rcv_nxt) < SEQ \div 2
    BY <1>2, <1>3
  <2>2. TCP_SEQ_LT(e, r.rcv_nxt) <=> Offset(e) < Offset(r.rcv_nxt)
    BY <1>2, <2>1, LessThan
  <2> QED BY <1>2, <2>2 DEF TCP_SEQ_GT
<1>6. ~(Edge(r) < Nxt(r)) => Diff(e, r.rcv_nxt) = Edge(r) - Nxt(r)
  BY <1>2, DiffOffset
<1> DEFINE d == Diff(e, r.rcv_nxt)
<1>7. w = IF Edge(r) + MinAdv <= Right(r) THEN r.rcv_wnd
          ELSE IF Edge(r) < Nxt(r) THEN 0 ELSE d
  BY <1>4, <1>5
<1> HIDE DEF d, w, e
<1>8. ~(Edge(r) < Nxt(r)) => d = Edge(r) - Nxt(r)
  BY <1>6 DEF d
<1>9. w \in 0 .. r.rcv_wnd /\ Edge(r) <= Nxt(r) + w /\ r.rcv_wnd - w < MinAdv
  BY <1>2, <1>3, <1>7, <1>8
<1> QED BY <1>1, <1>9

-----------------------------------------------------------------------------
(* ACKs.                                                                   *)

\* What sending an ACK changes: the flags, and the edge that counts as
\* announced, which does not move back.
LEMMA AckSent ==
  ASSUME NEW r, Base(r), NEW outcome \in Outcomes
  PROVE  LET a == tcp_send_empty_ack(r, outcome) IN
         /\ Base(a)
         /\ Nxt(a) = Nxt(r) /\ Right(a) = Right(r) /\ Edge(r) <= Edge(a)
         /\ a.rcv_wnd = r.rcv_wnd /\ a.rcv_ann_wnd = r.rcv_ann_wnd
         /\ a.ooseq = r.ooseq /\ a.fin = r.fin /\ a.rcv_nxt = r.rcv_nxt
         /\ outcome = "arrived" => Edge(a) = Nxt(r) + r.rcv_ann_wnd
<1> DEFINE a == tcp_send_empty_ack(r, outcome)
           x == Add(r.rcv_nxt, r.rcv_ann_wnd)
<1>1. /\ r \in Rcv /\ r.rcv_nxt \in SeqNos /\ r.rcv_ann_right_edge \in SeqNos
      /\ r.rcv_wnd \in Nat /\ r.rcv_wnd <= TCP_WND /\ r.rcv_ann_wnd \in Nat
      /\ Nxt(r) \in Nat /\ Edge(r) \in Nat /\ Right(r) = Nxt(r) + r.rcv_wnd
  BY RcvFacts DEF Base
<1>2. Window(r) /\ Sorted(r.ooseq, Nxt(r), Right(r))
  BY DEF Base
<1>3. Nxt(r) <= StreamLen + 1 /\ r.rcv_ann_wnd <= r.rcv_wnd /\ Edge(r) <= Nxt(r) + r.rcv_ann_wnd
  BY <1>2 DEF Window
<1>4. x \in SeqNos /\ Offset(x) = Nxt(r) + r.rcv_ann_wnd
  <2>1. Offset(r.rcv_nxt) + r.rcv_ann_wnd < SEQ
    <3>1. Nxt(r) + r.rcv_ann_wnd < SEQ
      BY <1>1, <1>3, Bounds
    <3> QED BY <3>1 DEF Nxt
  <2> QED BY <1>1, <2>1, OffsetAdd DEF Nxt
<1>5. \E e \in {r.rcv_ann_right_edge, x}, d, n \in BOOLEAN :
        /\ a = [r EXCEPT !.rcv_ann_right_edge = e, !.ackDelay = d, !.ackNow = n]
        /\ outcome = "arrived" => e = x
  <2>1. CASE outcome = "nobuf"
    <3>1. a = [r EXCEPT !.rcv_ann_right_edge = r.rcv_ann_right_edge, !.ackDelay = TRUE, !.ackNow = TRUE]
      BY <1>1, <2>1 DEF tcp_send_empty_ack, RetryAck, Rcv
    <3> HIDE DEF a, x
    <3> QED BY <2>1, <3>1
  <2>2. CASE outcome = "noroute"
    <3>1. a = [r EXCEPT !.rcv_ann_right_edge = x, !.ackDelay = TRUE, !.ackNow = TRUE]
      BY <1>1, <2>2 DEF tcp_send_empty_ack, RetryAck, tcp_output_alloc_header, Rcv
    <3> HIDE DEF a, x
    <3> QED BY <2>2, <3>1
  <2>3. CASE outcome \in {"lost", "arrived"}
    <3>1. a = [r EXCEPT !.rcv_ann_right_edge = x, !.ackDelay = FALSE, !.ackNow = FALSE]
      BY <1>1, <2>3 DEF tcp_send_empty_ack, Acked, tcp_output_alloc_header, Rcv
    <3> HIDE DEF a, x
    <3> QED BY <2>3, <3>1
  <2> QED BY <2>1, <2>2, <2>3 DEF Outcomes
<1> HIDE DEF a, x
<1>6. PICK e \in {r.rcv_ann_right_edge, x}, d \in BOOLEAN, n \in BOOLEAN :
        /\ a = [r EXCEPT !.rcv_ann_right_edge = e, !.ackDelay = d, !.ackNow = n]
        /\ outcome = "arrived" => e = x
  BY <1>5
<1>7. /\ a \in Rcv /\ a.rcv_nxt = r.rcv_nxt /\ a.rcv_wnd = r.rcv_wnd /\ a.rcv_ann_wnd = r.rcv_ann_wnd
      /\ a.ooseq = r.ooseq /\ a.fin = r.fin /\ a.rcv_ann_right_edge = e
  BY <1>1, <1>4, <1>6 DEF Rcv
<1>8. Nxt(a) = Nxt(r) /\ Right(a) = Right(r) /\ Edge(a) = Offset(e)
  BY <1>7 DEF Nxt, Right, Edge
<1>9. /\ Edge(a) \in {Edge(r), Nxt(r) + r.rcv_ann_wnd}
      /\ outcome = "arrived" => Edge(a) = Nxt(r) + r.rcv_ann_wnd
  BY <1>4, <1>6, <1>8 DEF Edge
<1>10. Edge(r) <= Edge(a) /\ Edge(a) <= Nxt(r) + r.rcv_ann_wnd
  BY <1>1, <1>3, <1>9
<1>11. Window(a)
  BY <1>2, <1>7, <1>8, <1>10 DEF Window
<1>12. Sorted(a.ooseq, Nxt(a), Right(a))
  BY <1>2, <1>7, <1>8
<1> QED BY <1>7, <1>8, <1>9, <1>10, <1>11, <1>12 DEF Base, a

\* What the peer knows after an ACK arrived.
LEMMA Heard ==
  ASSUME NEW r, Base(r), NEW p, Told(r, p)
  PROVE  LET h == PeerHears(p, r) IN
         /\ h \in Peers /\ h.una = Nxt(r) /\ p.edge <= h.edge
         /\ h.edge <= Nxt(r) + r.rcv_ann_wnd
         /\ Nxt(r) + r.rcv_ann_wnd <= h.edge + Unit - 1
<1> DEFINE w == r.rcv_ann_wnd
           k == w \div Unit
           s == Nxt(r) + RCV_WND_SCALE(w)
           h == PeerHears(p, r)
<1>1. w \in Nat /\ Nxt(r) \in Nat /\ Edge(r) \in Nat
  BY RcvFacts DEF Base
<1>2. Edge(r) <= Nxt(r) + w
  BY DEF Base, Window
<1>3. p \in Peers /\ p.una \in Nat /\ p.edge \in Nat /\ p.una <= Nxt(r) /\ p.edge <= Edge(r)
  BY DEF Told, Peers
<1>4. k \in Nat /\ Unit * k <= w /\ w < Unit * k + Unit /\ Unit \in Nat
  BY <1>1, Bounds, DivFacts
<1>5. RCV_WND_SCALE(w) = k * Unit
  BY DEF RCV_WND_SCALE, Unit
<1> HIDE DEF k, w
<1>6. RCV_WND_SCALE(w) \in Nat /\ RCV_WND_SCALE(w) <= w /\ w < RCV_WND_SCALE(w) + Unit
  <2>1. k * Unit = Unit * k /\ Unit * k \in Nat
    BY <1>4
  <2> QED BY <1>1, <1>4, <1>5, <2>1
<1>7. s \in Nat /\ s <= Nxt(r) + w /\ Nxt(r) + w < s + Unit
  BY <1>1, <1>4, <1>6
<1>8. h = [una |-> MaxOf(p.una, Nxt(r)), edge |-> MaxOf(p.edge, s)]
  BY DEF PeerHears, Nxt, w
<1> HIDE DEF s, h
<1>9. MaxOf(p.una, Nxt(r)) = Nxt(r)
  BY <1>1, <1>3, MinMax
<1>10. MaxOf(p.edge, s) = IF p.edge <= s THEN s ELSE p.edge
  BY <1>3, <1>7, MinMax
<1>11. h.una = Nxt(r) /\ h.edge = (IF p.edge <= s THEN s ELSE p.edge) /\ h \in Peers
  BY <1>1, <1>3, <1>7, <1>8, <1>9, <1>10 DEF Peers
<1>12. p.edge <= h.edge /\ h.edge <= Nxt(r) + w /\ Nxt(r) + w <= h.edge + Unit - 1
  BY <1>1, <1>2, <1>3, <1>4, <1>7, <1>11
<1> QED BY <1>11, <1>12 DEF w, h

\* a is r, but for its ACK flags.
Alike(a, r) ==
  /\ a \in Rcv /\ a.rcv_nxt = r.rcv_nxt /\ a.rcv_wnd = r.rcv_wnd /\ a.rcv_ann_wnd = r.rcv_ann_wnd
  /\ a.rcv_ann_right_edge = r.rcv_ann_right_edge /\ a.ooseq = r.ooseq /\ a.fin = r.fin

\* The flags are of no importance to the window.
LEMMA AlikeFacts ==
  ASSUME NEW r, Base(r), NEW a, Alike(a, r)
  PROVE  /\ Base(a) /\ Nxt(a) = Nxt(r) /\ Right(a) = Right(r) /\ Edge(a) = Edge(r)
         /\ a.fin = r.fin /\ a.rcv_wnd = r.rcv_wnd
<1>1. /\ a \in Rcv /\ a.rcv_nxt = r.rcv_nxt /\ a.rcv_wnd = r.rcv_wnd /\ a.rcv_ann_wnd = r.rcv_ann_wnd
      /\ a.rcv_ann_right_edge = r.rcv_ann_right_edge /\ a.ooseq = r.ooseq /\ a.fin = r.fin
  BY DEF Alike
<1>2. Nxt(a) = Nxt(r) /\ Right(a) = Right(r) /\ Edge(a) = Edge(r)
  BY <1>1 DEF Nxt, Right, Edge
<1>3. Window(a) /\ Sorted(a.ooseq, Nxt(a), Right(a))
  BY <1>1, <1>2 DEF Base, Window
<1> QED BY <1>1, <1>2, <1>3 DEF Base

\* The flags that tcp_ack_now, tcp_ack and Acked set.
LEMMA FlagFacts ==
  ASSUME NEW r, r \in Rcv
  PROVE  /\ Alike(tcp_ack_now(r), r) /\ tcp_ack_now(r).ackNow = TRUE
         /\ Alike(tcp_ack(r), r) /\ (tcp_ack(r).ackDelay \/ tcp_ack(r).ackNow)
         /\ Alike(Acked(r), r) /\ Alike(r, r)
<1>1. Alike(tcp_ack_now(r), r) /\ tcp_ack_now(r).ackNow = TRUE
  BY DEF Alike, tcp_ack_now, Rcv
<1>2. Alike(Acked(r), r) /\ Alike(r, r)
  BY DEF Alike, Acked, Rcv
<1>3. Alike(tcp_ack(r), r) /\ (tcp_ack(r).ackDelay \/ tcp_ack(r).ackNow)
  <2>1. CASE r.ackDelay
    <3>1. tcp_ack(r) = [r EXCEPT !.ackDelay = FALSE, !.ackNow = TRUE]
      BY <2>1 DEF tcp_ack, tcp_ack_now, Rcv
    <3> QED BY <3>1 DEF Alike, Rcv
  <2>2. CASE ~r.ackDelay
    <3>1. tcp_ack(r) = [r EXCEPT !.ackDelay = TRUE]
      BY <2>2 DEF tcp_ack
    <3> QED BY <3>1 DEF Alike, Rcv
  <2> QED BY <2>1, <2>2
<1> QED BY <1>1, <1>2, <1>3

\* The invariant after an ACK was sent, whatever became of it.
LEMMA AckKeeps ==
  ASSUME NEW r, Base(r), NEW p, Told(r, p), NEW outcome \in Outcomes, NEW lost \in Nat
  PROVE  LET a == tcp_send_empty_ack(r, outcome)
             h == PeerHears(p, r)
         IN /\ outcome = "arrived" => AckInv(a, h, lost) /\ h.una = Nxt(a)
            /\ AckInv(a, p, lost + 1)
<1> DEFINE a == tcp_send_empty_ack(r, outcome)
           h == PeerHears(p, r)
<1>1. /\ Base(a) /\ Nxt(a) = Nxt(r) /\ Right(a) = Right(r) /\ Edge(r) <= Edge(a) /\ a.fin = r.fin
      /\ outcome = "arrived" => Edge(a) = Nxt(r) + r.rcv_ann_wnd
  BY AckSent
<1>2. /\ h \in Peers /\ h.una = Nxt(r) /\ h.edge <= Nxt(r) + r.rcv_ann_wnd
      /\ Nxt(r) + r.rcv_ann_wnd <= h.edge + Unit - 1
  BY Heard
<1>3. p \in Peers /\ p.una <= Nxt(r) /\ p.edge <= Edge(r) /\ p.edge \in Nat
  BY DEF Told, Peers
<1>4. /\ r.rcv_wnd \in Nat /\ r.rcv_ann_wnd \in Nat /\ Nxt(r) \in Nat /\ Edge(r) \in Nat /\ Edge(a) \in Nat
      /\ Right(r) = Nxt(r) + r.rcv_wnd
  BY <1>1, RcvFacts DEF Base
<1> HIDE DEF a, h
<1>5. AckInv(a, p, lost + 1)
  <2>1. Told(a, p)
    BY <1>1, <1>3, <1>4 DEF Told
  <2>2. lost + 1 # 0
    OBVIOUS
  <2> QED BY <2>1, <2>2 DEF AckInv
<1>6. ASSUME outcome = "arrived" PROVE AckInv(a, h, lost) /\ h.una = Nxt(a)
  <2>1. Edge(a) = Nxt(r) + r.rcv_ann_wnd
    BY <1>1, <1>6
  <2>2. Told(a, h)
    BY <1>1, <1>2, <1>4, <2>1 DEF Told
  <2>3. ~r.fin => r.rcv_wnd - r.rcv_ann_wnd < Bound
    <3>1. ~r.fin => r.rcv_wnd - r.rcv_ann_wnd < MinAdv
      BY DEF Base, Window
    <3> QED BY <1>4, <3>1, Bounds
  <2>4. Close(a, h)
    BY <1>1, <1>2, <1>4, <2>1, <2>3 DEF Close
  <2>5. ~(h.una < Nxt(a)) /\ h.una = Nxt(a)
    BY <1>1, <1>2, <1>4
  <2> QED BY <2>2, <2>4, <2>5 DEF AckInv
<1> QED BY <1>5, <1>6 DEF a, h

-----------------------------------------------------------------------------
(* Cutting and joining segments.                                           *)

\* Comparisons of sequence numbers, as comparisons of their offsets.
LEMMA Compare ==
  ASSUME NEW x \in SeqNos, NEW y \in SeqNos, Offset(x) < SEQ \div 2, Offset(y) < SEQ \div 2
  PROVE  /\ TCP_SEQ_LT(x, y) <=> Offset(x) < Offset(y)
         /\ TCP_SEQ_GT(x, y) <=> Offset(y) < Offset(x)
         /\ TCP_SEQ_GEQ(x, y) <=> Offset(y) <= Offset(x)
         /\ TCP_SEQ_LEQ(x, y) <=> Offset(x) <= Offset(y)
<1>1. TCP_SEQ_LT(x, y) <=> Offset(x) < Offset(y)
  BY LessThan
<1>2. TCP_SEQ_LT(y, x) <=> Offset(y) < Offset(x)
  BY LessThan
<1>3. Offset(x) \in Nat /\ Offset(y) \in Nat
  BY OffsetType
<1> QED BY <1>1, <1>2, <1>3 DEF TCP_SEQ_GT, TCP_SEQ_GEQ, TCP_SEQ_LEQ

\* The ends of a segment of the stream can be compared.
LEMMA SegmentRange ==
  ASSUME NEW s \in Segment, Sane(s)
  PROVE  /\ Start(s) < SEQ \div 2 /\ Stop(s) < SEQ \div 2 /\ End(s) < SEQ \div 2
         /\ EndOf(s, TRUE) \in SeqNos /\ Offset(EndOf(s, TRUE)) = End(s)
         /\ EndOf(s, FALSE) \in SeqNos /\ Offset(EndOf(s, FALSE)) = Stop(s)
         /\ s.seqno \in SeqNos /\ Offset(s.seqno) = Start(s)
         /\ Start(s) < End(s) /\ Stop(s) <= StreamLen /\ Start(s) <= StreamLen
<1>1. Stop(s) <= StreamLen /\ Start(s) < End(s)
  BY DEF Sane
<1>2. /\ Start(s) \in Nat /\ Stop(s) \in Nat /\ End(s) \in Nat /\ s.seqno \in SeqNos
      /\ Start(s) <= Stop(s) /\ End(s) <= Stop(s) + 1
  BY SegmentFacts
<1>3. StreamLen \in Nat /\ StreamLen + 1 < SEQ \div 2 /\ SEQ \div 2 \in Nat
  BY SeqBounds
<1>4. Start(s) < SEQ \div 2 /\ Stop(s) < SEQ \div 2 /\ End(s) < SEQ \div 2 /\ Start(s) <= StreamLen
  BY <1>1, <1>2, <1>3
<1>5. /\ EndOf(s, TRUE) \in SeqNos /\ Offset(EndOf(s, TRUE)) = End(s)
      /\ EndOf(s, FALSE) \in SeqNos /\ Offset(EndOf(s, FALSE)) = Stop(s)
  BY <1>1, EndOffset
<1>6. Offset(s.seqno) = Start(s)
  BY DEF Start
<1> QED BY <1>1, <1>2, <1>4, <1>5, <1>6

\* A segment whose FIN is set or cleared.
LEMMA SetFin ==
  ASSUME NEW s \in Segment, Sane(s), NEW f \in BOOLEAN, Length(s) > 0 \/ f
  PROVE  LET t == [s EXCEPT !.fin = f] IN
         /\ t \in Segment /\ Sane(t) /\ t.fin = f /\ t.seqno = s.seqno /\ t.p = s.p
         /\ Start(t) = Start(s) /\ Stop(t) = Stop(s) /\ Length(t) = Length(s)
         /\ End(t) = Stop(s) + One(f)
<1> DEFINE t == [s EXCEPT !.fin = f]
<1>1. t \in Segment /\ t.fin = f /\ t.seqno = s.seqno /\ t.p = s.p
  BY DEF Segment
<1> HIDE DEF t
<1>2. Start(t) = Start(s) /\ Length(t) = Length(s)
  BY <1>1 DEF Start, Length
<1>3. Stop(t) = Stop(s) /\ End(t) = Stop(s) + One(f)
  BY <1>1, <1>2 DEF Stop, End
<1>4. Sane(t)
  <2>1. Start(s) \in Nat /\ Length(s) \in Nat /\ Stop(s) = Start(s) + Length(s)
    BY SegmentFacts
  <2>2. Stop(s) <= StreamLen /\ \A j \in 1 .. Length(s) : s.p[j] = Start(s) + j - 1
    BY DEF Sane
  <2>3. Start(t) < End(t)
    <3>1. CASE f
      <4>1. One(f) = 1
        BY <3>1 DEF One
      <4> QED BY <1>2, <1>3, <2>1, <4>1
    <3>2. CASE ~f
      <4>1. One(f) = 0
        BY <3>2 DEF One
      <4>2. Length(s) > 0
        BY <3>2
      <4> QED BY <1>2, <1>3, <2>1, <4>1, <4>2
    <3> QED BY <3>1, <3>2
  <2> QED BY <1>1, <1>2, <1>3, <2>2, <2>3 DEF Sane
<1> QED BY <1>1, <1>2, <1>3, <1>4 DEF t

\* A part of a sorted queue is sorted.
LEMMA SortedPart ==
  ASSUME NEW q \in Seq(Segment), NEW lo \in Nat, NEW hi \in Nat, Sorted(q, lo, hi),
         NEW k \in 0 .. Len(q)
  PROVE  /\ Sorted(SubSeq(q, 1, k), lo, hi)
         /\ Sorted(SubSeq(q, k + 1, Len(q)), lo, hi)
<1> DEFINE a == SubSeq(q, 1, k)
           b == SubSeq(q, k + 1, Len(q))
           n == Len(q)
<1>1. /\ n \in Nat /\ k \in Nat /\ k <= n
      /\ Len(a) = k /\ \A i \in 1 .. k : a[i] = q[i]
      /\ Len(b) = n - k /\ \A i \in 1 .. n - k : b[i] = q[k + i]
  BY FrontBack
<1> HIDE DEF a, b, n
<1>2. /\ \A i \in 1 .. n : /\ Sane(q[i]) /\ lo < Start(q[i]) /\ End(q[i]) <= hi
                           /\ q[i].fin => Stop(q[i]) = StreamLen
      /\ \A i, j \in 1 .. n : i < j => End(q[i]) <= Start(q[j])
  BY DEF Sorted, n
<1>3. Sorted(a, lo, hi)
  BY <1>1, <1>2, SMTT(30) DEF Sorted
<1>4. Sorted(b, lo, hi)
  <2>1. \A i \in 1 .. n - k : k + i \in 1 .. n
    BY <1>1
  <2>2. \A i \in 1 .. n - k : /\ Sane(b[i]) /\ lo < Start(b[i]) /\ End(b[i]) <= hi
                              /\ b[i].fin => Stop(b[i]) = StreamLen
    BY <1>1, <1>2, <2>1
  <2>3. ASSUME NEW i \in 1 .. n - k, NEW j \in 1 .. n - k, i < j PROVE End(b[i]) <= Start(b[j])
    <3>1. k + i \in 1 .. n /\ k + j \in 1 .. n /\ k + i < k + j
      BY <1>1, <2>1, <2>3
    <3> QED BY <1>1, <1>2, <3>1
  <2> QED BY <1>1, <2>2, <2>3 DEF Sorted
<1> QED BY <1>3, <1>4 DEF a, b, n

\* Two sorted queues, the second behind the first.
LEMMA SortedJoin ==
  ASSUME NEW a \in Seq(Segment), NEW b \in Seq(Segment), NEW lo \in Nat, NEW hi \in Nat,
         Sorted(a, lo, hi), Sorted(b, lo, hi),
         \A i \in 1 .. Len(a) : \A j \in 1 .. Len(b) : End(a[i]) <= Start(b[j])
  PROVE  a \o b \in Seq(Segment) /\ Sorted(a \o b, lo, hi)
<1> DEFINE c == a \o b
           n == Len(a)
           m == Len(b)
<1>1. /\ c \in Seq(Segment) /\ Len(c) = n + m /\ n \in Nat /\ m \in Nat
      /\ \A i \in 1 .. n : c[i] = a[i]
      /\ \A i \in n + 1 .. n + m : c[i] = b[i - n]
  BY Joined
<1>2. /\ \A i \in 1 .. n : /\ Sane(a[i]) /\ lo < Start(a[i]) /\ End(a[i]) <= hi
                           /\ a[i].fin => Stop(a[i]) = StreamLen
      /\ \A i, j \in 1 .. n : i < j => End(a[i]) <= Start(a[j])
  BY DEF Sorted
<1>3. /\ \A i \in 1 .. m : /\ Sane(b[i]) /\ lo < Start(b[i]) /\ End(b[i]) <= hi
                           /\ b[i].fin => Stop(b[i]) = StreamLen
      /\ \A i, j \in 1 .. m : i < j => End(b[i]) <= Start(b[j])
  BY DEF Sorted
<1>4. \A i \in 1 .. n : \A j \in 1 .. m : End(a[i]) <= Start(b[j])
  OBVIOUS
<1> HIDE DEF c, n, m
<1>5. \A i \in 1 .. n + m : i \notin 1 .. n => i \in n + 1 .. n + m /\ i - n \in 1 .. m
  BY <1>1
<1>6. \A i \in 1 .. n + m : /\ Sane(c[i]) /\ lo < Start(c[i]) /\ End(c[i]) <= hi
                            /\ c[i].fin => Stop(c[i]) = StreamLen
  <2> TAKE i \in 1 .. n + m
  <2>1. CASE i \in 1 .. n
    BY <1>1, <1>2, <2>1
  <2>2. CASE i \notin 1 .. n
    <3>1. i \in n + 1 .. n + m /\ i - n \in 1 .. m
      BY <1>5, <2>2
    <3>2. c[i] = b[i - n]
      BY <1>1, <3>1
    <3> QED BY <1>3, <3>1, <3>2
  <2> QED BY <2>1, <2>2
<1>7. ASSUME NEW i \in 1 .. n + m, NEW j \in 1 .. n + m, i < j PROVE End(c[i]) <= Start(c[j])
  <2>1. CASE j \in 1 .. n
    <3>1. i \in 1 .. n
      BY <1>1, <1>7, <2>1
    <3> QED BY <1>1, <1>2, <1>7, <2>1, <3>1
  <2>2. CASE i \in 1 .. n /\ j \notin 1 .. n
    <3>1. j \in n + 1 .. n + m /\ j - n \in 1 .. m
      BY <1>5, <2>2
    <3>2. c[i] = a[i] /\ c[j] = b[j - n]
      BY <1>1, <2>2, <3>1
    <3> QED BY <1>4, <2>2, <3>1, <3>2
  <2>3. CASE i \notin 1 .. n /\ j \notin 1 .. n
    <3>1. i \in n + 1 .. n + m /\ i - n \in 1 .. m /\ j \in n + 1 .. n + m /\ j - n \in 1 .. m
      BY <1>5, <2>3
    <3>2. c[i] = b[i - n] /\ c[j] = b[j - n] /\ i - n < j - n
      BY <1>1, <1>7, <3>1, SMTT(30)
    <3> QED BY <1>3, <3>1, <3>2
  <2>4. j \notin 1 .. n \/ j \in 1 .. n
    OBVIOUS
  <2> QED BY <2>1, <2>2, <2>3, <2>4
<1>8. Sorted(c, lo, hi)
  BY <1>1, <1>6, <1>7 DEF Sorted
<1> QED BY <1>1, <1>8 DEF c

\* One segment is a sorted queue.
LEMMA SortedOne ==
  ASSUME NEW s \in Segment, Sane(s), NEW lo \in Nat, NEW hi \in Nat,
         lo < Start(s), End(s) <= hi, s.fin => Stop(s) = StreamLen
  PROVE  <<s>> \in Seq(Segment) /\ Len(<<s>>) = 1 /\ <<s>>[1] = s /\ Sorted(<<s>>, lo, hi)
<1> DEFINE c == <<s>>
<1>1. c \in Seq(Segment) /\ Len(c) = 1 /\ c[1] = s
  OBVIOUS
<1> HIDE DEF c
<1>2. Sorted(c, lo, hi)
  BY <1>1 DEF Sorted
<1> QED BY <1>1, <1>2 DEF c

\* What the next segment on the queue leaves of s.
LEMMA TrimNext ==
  ASSUME NEW s \in Segment, Sane(s), ~s.fin, NEW rest \in Seq(Segment),
         rest # <<>> => Sane(rest[1]) /\ Start(s) < Start(rest[1])
  PROVE  LET t == TrimToNext(s, rest) IN
         /\ t \in Segment /\ Sane(t) /\ t.seqno = s.seqno /\ t.fin = FALSE /\ Length(t) > 0
         /\ Start(t) = Start(s) /\ Stop(t) <= Stop(s)
         /\ rest # <<>> => Stop(t) <= Start(rest[1])
         /\ rest = <<>> => t = s
<1> DEFINE t == TrimToNext(s, rest)
           h == Head(rest)
           n == Diff(h.seqno, s.seqno)
<1>1. /\ Start(s) \in Nat /\ Stop(s) \in Nat /\ Length(s) \in Nat /\ Stop(s) = Start(s) + Length(s)
      /\ End(s) = Stop(s) /\ s.fin = FALSE
  BY SegmentFacts
<1>2. Start(s) < Stop(s) /\ Length(s) > 0
  BY <1>1 DEF Sane
<1>3. ASSUME rest # <<>>
      PROVE  /\ h = rest[1] /\ Start(h) \in Nat /\ n = Start(h) - Start(s) /\ n \in Nat /\ n >= 1
             /\ TCP_SEQ_GT(EndOf(s, FALSE), h.seqno) <=> Start(h) < Stop(s)
  <2>1. h = rest[1] /\ h \in Segment /\ Sane(h) /\ Start(s) < Start(h)
    BY <1>3
  <2> HIDE DEF h
  <2>2. /\ h.seqno \in SeqNos /\ Offset(h.seqno) = Start(h) /\ Start(h) < SEQ \div 2
        /\ s.seqno \in SeqNos /\ Offset(s.seqno) = Start(s)
        /\ EndOf(s, FALSE) \in SeqNos /\ Offset(EndOf(s, FALSE)) = Stop(s) /\ Stop(s) < SEQ \div 2
    BY <2>1, SegmentRange
  <2>3. Start(h) \in Nat
    BY <2>1, SegmentFacts
  <2>4. TCP_SEQ_GT(EndOf(s, FALSE), h.seqno) <=> Start(h) < Stop(s)
    BY <2>2, Compare
  <2>5. Offset(s.seqno) <= Offset(h.seqno)
    BY <1>1, <2>1, <2>2, <2>3
  <2>6. n = Start(h) - Start(s)
    BY <2>2, <2>5, DiffOffset
  <2> HIDE DEF n
  <2>7. n \in Nat /\ n >= 1
    BY <1>1, <2>1, <2>3, <2>6
  <2> QED BY <2>1, <2>3, <2>4, <2>6, <2>7
<1>4. CASE rest # <<>> /\ Start(h) < Stop(s)
  <2>1. t = CutTo(s, n)
    BY <1>3, <1>4 DEF TrimToNext
  <2> HIDE DEF n, h
  <2>2. n \in Nat /\ 1 <= n /\ n < Length(s) /\ n <= Length(s) /\ Start(h) = Start(s) + n
    BY <1>1, <1>3, <1>4
  <2> DEFINE c == CutTo(s, n)
  <2>3. c \in Segment /\ Sane(c) /\ c.fin = s.fin /\ Length(c) = n /\ Start(c) = Start(s) /\ Stop(c) = Start(s) + n
    BY <2>2, CutFacts
  <2>4. c.seqno = s.seqno
    BY DEF CutTo, Segment
  <2>5. Stop(c) <= Stop(s) /\ Stop(c) <= Start(rest[1]) /\ Length(c) > 0
    BY <1>1, <1>3, <1>4, <2>2, <2>3
  <2> HIDE DEF c, t
  <2>6. t = c
    BY <2>1 DEF c
  <2> QED BY <1>1, <1>4, <2>3, <2>4, <2>5, <2>6 DEF t
<1>5. CASE ~(rest # <<>> /\ Start(h) < Stop(s))
  <2>1. t = s
    BY <1>3, <1>5 DEF TrimToNext
  <2>2. rest # <<>> => Stop(s) <= Start(rest[1])
    <3> HIDE DEF n, h
    <3> QED BY <1>1, <1>3, <1>5
  <2> HIDE DEF t
  <2> QED BY <1>1, <1>2, <2>1, <2>2 DEF t
<1> QED BY <1>4, <1>5

\* What s leaves of the queue behind it, and the queue of s.
LEMMA CoverFacts ==
  ASSUME NEW s \in Segment, Sane(s), s.fin => Stop(s) = StreamLen,
         NEW q \in Seq(Segment), NEW lo \in Nat, NEW hi \in Nat,
         Sorted(q, lo, hi), End(s) <= hi,
         \A i \in 1 .. Len(q) :
           Start(s) < Start(q[i]) \/ (Start(s) = Start(q[i]) /\ Stop(q[i]) < Stop(s))
  PROVE  LET c == CoverOoseq(s, q) IN
         /\ c.s \in Segment /\ Sane(c.s) /\ c.s.seqno = s.seqno /\ Start(c.s) = Start(s)
         /\ End(c.s) <= hi /\ (c.s.fin => Stop(c.s) = StreamLen)
         /\ c.rest \in Seq(Segment) /\ Sorted(c.rest, lo, hi)
         /\ \A i \in 1 .. Len(c.rest) : End(c.s) <= Start(c.rest[i])
<1> DEFINE Covered(i) == TCP_SEQ_GEQ(EndOf(s, FALSE), EndOf(q[i], FALSE))
           n == Len(q)
           B == {j \in 0 .. n : \A i \in 1 .. j : Covered(i)}
           k == IF s.fin THEN n ELSE Max(B)
           front == SubSeq(q, 1, k)
           rest == SubSeq(q, k + 1, n)
           f == InheritsFin(s, front)
           t == TrimToNext(s, rest)
           u == [t EXCEPT !.fin = f]
           c == CoverOoseq(s, q)
<1>1. n \in Nat
  OBVIOUS
<1>2. c = [rest |-> rest, s |-> u]
  BY DEF CoverOoseq, Leading
<1>3. /\ Start(s) \in Nat /\ Stop(s) \in Nat /\ End(s) \in Nat /\ Length(s) \in Nat /\ Stop(s) = Start(s) + Length(s)
      /\ End(s) = (IF s.fin THEN Stop(s) + 1 ELSE Stop(s)) /\ s.fin \in BOOLEAN /\ Stop(s) <= StreamLen
  BY SegmentFacts DEF Sane
<1>4. /\ \A i \in 1 .. n : /\ Sane(q[i]) /\ lo < Start(q[i]) /\ End(q[i]) <= hi /\ q[i] \in Segment
                           /\ q[i].fin => Stop(q[i]) = StreamLen
      /\ \A i, j \in 1 .. n : i < j => End(q[i]) <= Start(q[j])
  BY DEF Sorted
<1>5. \A i \in 1 .. n : /\ Start(q[i]) \in Nat /\ Stop(q[i]) \in Nat /\ End(q[i]) \in Nat
                        /\ Start(q[i]) <= Stop(q[i]) /\ q[i].fin \in BOOLEAN
                        /\ End(q[i]) = IF q[i].fin THEN Stop(q[i]) + 1 ELSE Stop(q[i])
                        /\ Stop(q[i]) <= StreamLen /\ Start(q[i]) < End(q[i])
  BY <1>4, SegmentFacts DEF Sane
<1>6. \A i \in 1 .. n : Covered(i) <=> Stop(q[i]) <= Stop(s)
  <2> TAKE i \in 1 .. n
  <2>1. q[i] \in Segment /\ Sane(q[i])
    BY <1>4
  <2>2. /\ EndOf(q[i], FALSE) \in SeqNos /\ Offset(EndOf(q[i], FALSE)) = Stop(q[i]) /\ Stop(q[i]) < SEQ \div 2
        /\ EndOf(s, FALSE) \in SeqNos /\ Offset(EndOf(s, FALSE)) = Stop(s) /\ Stop(s) < SEQ \div 2
    BY <2>1, SegmentRange
  <2> QED BY <2>2, Compare
<1>7. k \in 0 .. n /\ (~s.fin => /\ \A i \in 1 .. k : Stop(q[i]) <= Stop(s)
                                 /\ k < n => Stop(s) < Stop(q[k + 1]))
  <2>1. CASE s.fin
    BY <1>1, <2>1
  <2>2. CASE ~s.fin
    <3> DEFINE T == {i \in 1 .. n : Covered(i)}
               A == {j \in 0 .. n : \A i \in 1 .. j : i \in T}
               m == Max(A)
    <3>1. A = B
      <4>1. \A j \in 0 .. n : \A i \in 1 .. j : i \in 1 .. n
        BY <1>1
      <4> HIDE DEF n, Covered
      <4> QED BY <4>1
    <3>2. k = m
      BY <2>2, <3>1
    <3>3. m \in 0 .. n /\ (\A i \in 1 .. m : i \in T) /\ (m < n => (m + 1) \notin T)
      <4> HIDE DEF n, T
      <4> QED BY <1>1, LeadingSet
    <3> HIDE DEF m, k, Covered
    <3>4. \A i \in 1 .. m : Stop(q[i]) <= Stop(s)
      BY <1>6, <3>3
    <3>5. ASSUME m < n PROVE Stop(s) < Stop(q[m + 1])
      <4>1. m + 1 \in 1 .. n
        BY <1>1, <3>3, <3>5
      <4>2. ~Covered(m + 1)
        BY <3>3, <3>5, <4>1
      <4> QED BY <1>3, <1>5, <1>6, <4>1, <4>2
    <3> QED BY <3>2, <3>3, <3>4, <3>5
  <2> QED BY <2>1, <2>2
<1> HIDE DEF k, B, Covered
<1>8. /\ k \in Nat /\ k <= n
      /\ front \in Seq(Segment) /\ Len(front) = k /\ \A i \in 1 .. k : front[i] = q[i]
      /\ rest \in Seq(Segment) /\ Len(rest) = n - k /\ \A i \in 1 .. n - k : rest[i] = q[k + i]
  BY <1>1, <1>7, FrontBack
<1>9. Sorted(rest, lo, hi)
  BY <1>7, SortedPart
<1>10. f <=> s.fin \/ \E i \in 1 .. k : q[i].fin
  BY <1>8 DEF InheritsFin
<1>11. f \in BOOLEAN
  BY DEF InheritsFin
<1> HIDE DEF front, f, n, rest
<1>12. CASE s.fin
  <2>1. k = n
    BY <1>12 DEF k
  <2>2. rest = <<>>
    BY <1>1, <1>8, <2>1
  <2>3. t = s
    BY <2>2 DEF TrimToNext
  <2>4. f = TRUE
    BY <1>10, <1>11, <1>12
  <2>5. u = s
    BY <1>12, <2>3, <2>4 DEF Segment
  <2>6. c.s = s /\ c.rest = <<>>
    BY <1>2, <2>2, <2>5
  <2> HIDE DEF c, u, t
  <2> QED BY <1>9, <2>2, <2>6 DEF c
<1>13. CASE ~s.fin
  <2>1. ASSUME rest # <<>>
        PROVE  /\ k + 1 \in 1 .. n /\ rest[1] = q[k + 1] /\ Sane(rest[1]) /\ Start(s) < Start(rest[1])
               /\ ~f
    <3>1. k + 1 \in 1 .. n /\ 1 \in 1 .. n - k /\ k < n
      <4>1. Len(rest) # 0
        BY <1>8, <2>1
      <4> QED BY <1>1, <1>8, <4>1
    <3>2. rest[1] = q[k + 1]
      BY <1>8, <3>1
    <3>3. Stop(s) < Stop(q[k + 1])
      BY <1>7, <1>13, <3>1
    <3>4. Start(s) < Start(q[k + 1])
      <4>1. Start(s) < Start(q[k + 1]) \/ Stop(q[k + 1]) < Stop(s)
        BY <3>1 DEF n
      <4> QED BY <1>3, <1>5, <3>1, <3>3, <4>1, SMTT(30)
    <3>5. ASSUME NEW i \in 1 .. k, q[i].fin PROVE FALSE
      <4>1. i \in 1 .. n /\ i < k + 1
        BY <1>1, <1>8
      <4>2. Stop(q[i]) = StreamLen /\ End(q[i]) = Stop(q[i]) + 1
        BY <1>4, <1>5, <3>5, <4>1
      <4>3. End(q[i]) <= Start(q[k + 1])
        BY <1>4, <3>1, <4>1
      <4>4. Start(q[k + 1]) <= StreamLen
        BY <1>5, <3>1, SeqBounds
      <4> QED BY <1>5, <3>1, <4>1, <4>2, <4>3, <4>4, SeqBounds
    <3> QED BY <1>4, <1>10, <1>13, <3>1, <3>2, <3>4, <3>5
  <2>2. /\ t \in Segment /\ Sane(t) /\ t.seqno = s.seqno /\ t.fin = FALSE /\ Length(t) > 0
        /\ Start(t) = Start(s) /\ Stop(t) <= Stop(s)
        /\ rest # <<>> => Stop(t) <= Start(rest[1])
        /\ rest = <<>> => t = s
    BY <1>8, <1>13, <2>1, TrimNext
  <2> HIDE DEF t
  <2>3. /\ u \in Segment /\ Sane(u) /\ u.fin = f /\ u.seqno = s.seqno
        /\ Start(u) = Start(s) /\ Stop(u) = Stop(t) /\ End(u) = Stop(t) + One(f)
    BY <1>11, <2>2, SetFin
  <2> HIDE DEF u
  <2>4. Stop(t) \in Nat
    BY <2>2, SegmentFacts
  <2>5. f => rest = <<>> /\ Stop(t) = StreamLen /\ Stop(t) + 1 <= hi
    <3> SUFFICES ASSUME f PROVE rest = <<>> /\ Stop(t) = StreamLen /\ Stop(t) + 1 <= hi
      OBVIOUS
    <3>1. PICK i \in 1 .. k : q[i].fin
      BY <1>10, <1>13
    <3>2. i \in 1 .. n
      BY <1>1, <1>8
    <3>3. Stop(q[i]) = StreamLen /\ End(q[i]) = Stop(q[i]) + 1 /\ End(q[i]) <= hi
      BY <1>4, <1>5, <3>1, <3>2
    <3>4. Stop(q[i]) <= Stop(s)
      BY <1>7, <1>13
    <3>5. rest = <<>> /\ t = s
      BY <2>1, <2>2
    <3> QED BY <1>3, <1>5, <3>2, <3>3, <3>4, <3>5, SeqBounds
  <2>6. End(u) <= hi /\ (rest # <<>> => End(u) <= Start(rest[1]))
    <3>1. CASE f
      <4>1. One(f) = 1
        BY <3>1 DEF One
      <4> QED BY <2>3, <2>4, <2>5, <3>1, <4>1
    <3>2. CASE ~f
      <4>1. One(f) = 0
        BY <3>2 DEF One
      <4>2. End(u) = Stop(t)
        BY <2>3, <2>4, <4>1
      <4>3. Stop(t) <= hi
        BY <1>3, <1>13, <2>2, <2>4
      <4> QED BY <2>2, <4>2, <4>3
    <3> QED BY <3>1, <3>2
  <2>7. ASSUME NEW i \in 1 .. Len(rest) PROVE End(u) <= Start(rest[i])
    <3>1. /\ i \in 1 .. n - k /\ rest # <<>> /\ k + 1 \in 1 .. n /\ k + i \in 1 .. n /\ 1 \in 1 .. n - k
          /\ rest[i] = q[k + i] /\ rest[1] = q[k + 1]
      BY <1>1, <1>8, <2>1
    <3>2. Start(q[k + 1]) <= Start(q[k + i])
      <4>1. CASE i = 1
        BY <1>5, <3>1, <4>1
      <4>2. CASE i > 1
        <5>1. k + 1 < k + i
          BY <1>8, <3>1, <4>2
        <5>2. End(q[k + 1]) <= Start(q[k + i])
          BY <1>4, <3>1, <5>1
        <5> QED BY <1>5, <3>1, <5>2, SMTT(30)
      <4> QED BY <1>1, <1>8, <3>1, <4>1, <4>2, SMTT(30)
    <3>3. End(u) \in Nat
      BY <2>3, SegmentFacts
    <3> QED BY <1>5, <2>6, <3>1, <3>2, <3>3, SMTT(30)
  <2>8. c.s = u /\ c.rest = rest
    BY <1>2
  <2> HIDE DEF c
  <2>9. u.fin => Stop(u) = StreamLen
    BY <2>3, <2>5
  <2> QED BY <1>8, <1>9, <2>3, <2>6, <2>7, <2>8, <2>9 DEF c
<1> QED BY <1>3, <1>12, <1>13

\* In a sorted queue the starts grow, and only the last segment has the FIN.
LEMMA SortedFacts ==
  ASSUME NEW q \in Seq(Segment), NEW lo \in Nat, NEW hi \in Nat, Sorted(q, lo, hi)
  PROVE  /\ \A i \in 1 .. Len(q) : /\ q[i] \in Segment /\ Sane(q[i]) /\ q[i].fin \in BOOLEAN
                                   /\ Start(q[i]) \in Nat /\ Stop(q[i]) \in Nat /\ End(q[i]) \in Nat
                                   /\ Start(q[i]) <= Stop(q[i]) /\ Stop(q[i]) <= End(q[i])
                                   /\ ~q[i].fin => End(q[i]) = Stop(q[i])
         /\ \A i, j \in 1 .. Len(q) : i < j =>
              /\ Start(q[i]) < Start(q[j]) /\ End(q[i]) <= Start(q[j]) /\ ~q[i].fin
<1>1. \A i \in 1 .. Len(q) : /\ q[i] \in Segment /\ Sane(q[i]) /\ q[i].fin \in BOOLEAN
                             /\ Start(q[i]) \in Nat /\ Stop(q[i]) \in Nat /\ End(q[i]) \in Nat
                             /\ Start(q[i]) <= Stop(q[i]) /\ Stop(q[i]) <= End(q[i])
                             /\ End(q[i]) = IF q[i].fin THEN Stop(q[i]) + 1 ELSE Stop(q[i])
  <2> TAKE i \in 1 .. Len(q)
  <2>1. q[i] \in Segment /\ Sane(q[i])
    BY DEF Sorted
  <2> QED BY <2>1, SegmentFacts
<1>2. ASSUME NEW i \in 1 .. Len(q), NEW j \in 1 .. Len(q), i < j
      PROVE  Start(q[i]) < Start(q[j]) /\ End(q[i]) <= Start(q[j]) /\ ~q[i].fin
  <2>1. End(q[i]) <= Start(q[j]) /\ Start(q[i]) < End(q[i]) /\ Stop(q[j]) <= StreamLen
    BY <1>2 DEF Sorted, Sane
  <2>2. Start(q[i]) < Start(q[j])
    BY <1>1, <2>1, SMTT(30)
  <2>3. ASSUME q[i].fin PROVE FALSE
    <3>1. Stop(q[i]) = StreamLen /\ End(q[i]) = Stop(q[i]) + 1
      BY <1>1, <2>3 DEF Sorted
    <3> QED BY <1>1, <2>1, <3>1, SeqBounds
  <2> QED BY <2>1, <2>2, <2>3
<1> QED BY <1>1, <1>2

\* A segment without the FIN that is cut where another one starts.
LEMMA CutBefore ==
  ASSUME NEW h \in Segment, Sane(h), ~h.fin, NEW s \in Segment, Sane(s), Start(h) < Start(s)
  PROVE  LET t == IF TCP_SEQ_GT(EndOf(h, FALSE), s.seqno)
                    THEN CutTo(h, Diff(s.seqno, h.seqno)) ELSE h
         IN /\ t \in Segment /\ Sane(t) /\ t.fin = FALSE
            /\ Start(t) = Start(h) /\ End(t) <= End(h) /\ End(t) <= Start(s)
<1> DEFINE t == IF TCP_SEQ_GT(EndOf(h, FALSE), s.seqno)
                  THEN CutTo(h, Diff(s.seqno, h.seqno)) ELSE h
           rest == <<s>>
<1>1. rest \in Seq(Segment) /\ rest # <<>> /\ rest[1] = s /\ Head(rest) = s
  OBVIOUS
<1>2. t = TrimToNext(h, rest)
  BY <1>1 DEF TrimToNext
<1> HIDE DEF rest, t
<1>3. /\ t \in Segment /\ Sane(t) /\ t.fin = FALSE /\ Start(t) = Start(h)
      /\ Stop(t) <= Stop(h) /\ Stop(t) <= Start(s)
  BY <1>1, <1>2, TrimNext, ZenonT(60)
<1>4. End(t) = Stop(t) /\ End(h) = Stop(h)
  BY <1>3, SegmentFacts
<1> QED BY <1>3, <1>4 DEF t

\* A segment put on the queue behind the first i ones.
LEMMA InsertFacts ==
  ASSUME NEW q \in Seq(Segment), NEW lo \in Nat, NEW hi \in Nat, Sorted(q, lo, hi),
         NEW i \in 0 .. Len(q), i > 0 => ~q[i].fin,
         NEW s \in Segment, Sane(s), s.fin => Stop(s) = StreamLen, lo < Start(s), End(s) <= hi,
         \A j \in 1 .. i : Start(q[j]) < Start(s),
         \A j \in i + 1 .. Len(q) :
           Start(s) < Start(q[j]) \/ (Start(s) = Start(q[j]) /\ Stop(q[j]) < Stop(s))
  PROVE  InsertAfter(q, i, s) \in Seq(Segment) /\ Sorted(InsertAfter(q, i, s), lo, hi)
<1> DEFINE n == Len(q)
           back == SubSeq(q, i + 1, n)
           c == CoverOoseq(s, back)
           head == [j \in 1 .. i |->
                      IF j = i /\ TCP_SEQ_GT(EndOf(q[i], FALSE), s.seqno)
                        THEN CutTo(q[i], Diff(s.seqno, q[i].seqno))
                        ELSE q[j]]
           cs == c.s
           rest == c.rest
           one == <<cs>>
           a == head \o one
<1>1. InsertAfter(q, i, s) = a \o rest
  BY DEF InsertAfter
<1>2. /\ n \in Nat /\ i \in Nat /\ i <= n
      /\ back \in Seq(Segment) /\ Len(back) = n - i /\ \A j \in 1 .. n - i : back[j] = q[i + j]
  BY FrontBack
<1>3. Sorted(back, lo, hi)
  BY SortedPart
<1>4. /\ \A j \in 1 .. n : /\ q[j] \in Segment /\ Sane(q[j])
                           /\ Start(q[j]) \in Nat /\ Stop(q[j]) \in Nat /\ End(q[j]) \in Nat
                           /\ lo < Start(q[j]) /\ End(q[j]) <= hi /\ (q[j].fin => Stop(q[j]) = StreamLen)
      /\ \A j, k \in 1 .. n : j < k => /\ Start(q[j]) < Start(q[k]) /\ End(q[j]) <= Start(q[k]) /\ ~q[j].fin
  BY SortedFacts DEF Sorted
<1> HIDE DEF n, back, c
<1>5. \A j \in 1 .. Len(back) :
        Start(s) < Start(back[j]) \/ (Start(s) = Start(back[j]) /\ Stop(back[j]) < Stop(s))
  <2> TAKE j \in 1 .. Len(back)
  <2>1. i + j \in i + 1 .. n /\ back[j] = q[i + j]
    BY <1>2
  <2> QED BY <2>1 DEF n
<1>6. /\ cs \in Segment /\ Sane(cs) /\ Start(cs) = Start(s)
      /\ End(cs) <= hi /\ (cs.fin => Stop(cs) = StreamLen)
      /\ rest \in Seq(Segment) /\ Sorted(rest, lo, hi)
      /\ \A j \in 1 .. Len(rest) : End(cs) <= Start(rest[j])
  BY <1>2, <1>3, <1>5, CoverFacts DEF c
<1> HIDE DEF cs, rest
<1>7. ASSUME NEW j \in 1 .. i
      PROVE  /\ head[j] \in Segment /\ Sane(head[j]) /\ head[j].fin = FALSE
             /\ Start(head[j]) = Start(q[j]) /\ End(head[j]) <= End(q[j]) /\ End(head[j]) <= Start(s)
  <2>1. j \in 1 .. n /\ Start(q[j]) < Start(s) /\ q[j] \in Segment /\ Sane(q[j])
    BY <1>2, <1>4, SMTT(30)
  <2>2. CASE j = i
    <3>1. head[j] = IF TCP_SEQ_GT(EndOf(q[j], FALSE), s.seqno) THEN CutTo(q[j], Diff(s.seqno, q[j].seqno)) ELSE q[j]
      BY <2>2
    <3>2. ~q[j].fin
      BY <1>2, <2>2
    <3> HIDE DEF head
    <3> QED BY <2>1, <3>1, <3>2, CutBefore, ZenonT(60)
  <2>3. CASE j # i
    <3>1. head[j] = q[j]
      BY <2>3
    <3> HIDE DEF head
    <3>2. i \in 1 .. n /\ j < i
      BY <1>2, <2>3
    <3>3. End(q[j]) <= Start(q[i]) /\ Start(q[i]) < Start(s) /\ ~q[j].fin
      <4>1. i \in 1 .. i
        BY <1>2, <3>2
      <4> QED BY <1>4, <2>1, <3>2, <4>1
    <3>4. Start(s) \in Nat /\ q[j].fin \in BOOLEAN
      BY <2>1, SegmentFacts
    <3>5. End(q[j]) <= Start(s)
      BY <1>4, <2>1, <3>2, <3>3, <3>4
    <3>6. End(q[j]) <= End(q[j])
      BY <1>4, <2>1
    <3> QED BY <2>1, <3>1, <3>3, <3>4, <3>5, <3>6
  <2> QED BY <2>2, <2>3
<1>8. head \in Seq(Segment) /\ Len(head) = i
  <2>1. head = [j \in 1 .. i |-> head[j]]
    OBVIOUS
  <2> HIDE DEF head
  <2>2. head \in [1 .. i -> Segment]
    BY <1>7, <2>1
  <2> QED BY <1>2, <2>2, SMTT(30)
<1> HIDE DEF head
<1>9. Sorted(head, lo, hi)
  <2>1. \A j \in 1 .. i : /\ Sane(head[j]) /\ lo < Start(head[j]) /\ End(head[j]) <= hi
                          /\ head[j].fin => Stop(head[j]) = StreamLen
    <3> TAKE j \in 1 .. i
    <3>1. /\ head[j] \in Segment /\ Sane(head[j]) /\ head[j].fin = FALSE
          /\ Start(head[j]) = Start(q[j]) /\ End(head[j]) <= End(q[j])
      BY <1>7
    <3>2. End(head[j]) \in Nat
      BY <3>1, SegmentFacts
    <3>3. j \in 1 .. n
      BY <1>2
    <3> QED BY <1>4, <3>1, <3>2, <3>3
  <2>2. ASSUME NEW j \in 1 .. i, NEW k \in 1 .. i, j < k PROVE End(head[j]) <= Start(head[k])
    <3>1. j \in 1 .. n /\ k \in 1 .. n
      BY <1>2
    <3>2. End(q[j]) <= Start(q[k]) /\ Start(head[k]) = Start(q[k]) /\ End(head[j]) <= End(q[j])
      BY <1>4, <1>7, <2>2, <3>1
    <3>3. End(head[j]) \in Nat
      <4>1. head[j] \in Segment
        BY <1>7
      <4> QED BY <4>1, SegmentFacts
    <3> QED BY <1>4, <3>1, <3>2, <3>3
  <2> QED BY <1>8, <2>1, <2>2 DEF Sorted
<1>10. one \in Seq(Segment) /\ Len(one) = 1 /\ one[1] = cs /\ Sorted(one, lo, hi)
  BY <1>6, SortedOne
<1> HIDE DEF one
<1>11. \A j \in 1 .. Len(head) : \A k \in 1 .. Len(one) : End(head[j]) <= Start(one[k])
  <2> TAKE j \in 1 .. Len(head)
  <2> TAKE k \in 1 .. Len(one)
  <2>1. k = 1
    BY <1>10
  <2> QED BY <1>6, <1>7, <1>8, <1>10, <2>1
<1>12. a \in Seq(Segment) /\ Sorted(a, lo, hi)
  BY <1>8, <1>9, <1>10, <1>11, SortedJoin
<1>13. Len(a) = i + 1 /\ (\A j \in 1 .. i : a[j] = head[j]) /\ a[i + 1] = cs
  <2>1. /\ Len(a) = Len(head) + Len(one) /\ (\A j \in 1 .. Len(head) : a[j] = head[j])
        /\ \A j \in 1 .. Len(one) : a[Len(head) + j] = one[j]
    <3>1. head \in Seq(Segment) /\ one \in Seq(Segment)
      BY <1>8, <1>10
    <3> QED BY <3>1, Joined
  <2> QED BY <1>8, <1>10, <2>1
<1> HIDE DEF a
<1>14. \A j \in 1 .. Len(a) : \A k \in 1 .. Len(rest) : End(a[j]) <= Start(rest[k])
  <2> TAKE j \in 1 .. Len(a)
  <2> TAKE k \in 1 .. Len(rest)
  <2>1. End(cs) <= Start(rest[k]) /\ Start(cs) < End(cs) /\ Start(cs) = Start(s)
    BY <1>6 DEF Sane
  <2>2. Start(cs) \in Nat /\ End(cs) \in Nat /\ Start(rest[k]) \in Nat
    <3>1. rest[k] \in Segment
      BY <1>6
    <3> QED BY <1>6, <3>1, SegmentFacts
  <2>3. CASE j = i + 1
    BY <1>13, <2>1, <2>3
  <2>4. CASE j # i + 1
    <3>1. j \in 1 .. i
      BY <1>2, <1>13, <2>4
    <3>2. a[j] = head[j] /\ End(head[j]) <= Start(s) /\ head[j] \in Segment
      BY <1>7, <1>13, <3>1
    <3>3. End(head[j]) \in Nat
      BY <3>2, SegmentFacts
    <3> QED BY <2>1, <2>2, <3>2, <3>3
  <2> QED BY <2>3, <2>4
<1>15. a \o rest \in Seq(Segment) /\ Sorted(a \o rest, lo, hi)
  BY <1>6, <1>12, <1>14, SortedJoin
<1> QED BY <1>1, <1>15

\* A segment that does not overrun the window is not cut.
LEMMA Untrimmed ==
  ASSUME NEW r \in Rcv, Nxt(r) <= StreamLen + 1, NEW s \in Segment, Sane(s), End(s) <= Right(r)
  PROVE  TrimToWindow(r, s) = s
<1>1. /\ NewRightEdge(r) \in SeqNos /\ Offset(NewRightEdge(r)) = Right(r) /\ Right(r) < SEQ \div 2
      /\ EndOf(s, TRUE) \in SeqNos /\ Offset(EndOf(s, TRUE)) = End(s) /\ End(s) < SEQ \div 2
  BY RightEdge, SegmentRange
<1>2. TCP_SEQ_GT(EndOf(s, TRUE), NewRightEdge(r)) <=> Right(r) < End(s)
  BY <1>1, Compare
<1>3. Right(r) \in Nat /\ End(s) \in Nat
  BY RcvFacts, SegmentFacts
<1>4. ~(Right(r) < End(s))
  BY <1>3
<1>5. ~TCP_SEQ_GT(EndOf(s, TRUE), NewRightEdge(r))
  BY <1>2, <1>4
<1> QED BY <1>5 DEF TrimToWindow

\* The queue with a segment that is not the next in sequence.
LEMMA EnqueueFacts ==
  ASSUME NEW r, Base(r), NEW s \in Segment, Sane(s), s.fin => Stop(s) = StreamLen,
         Nxt(r) < Start(s), End(s) <= Right(r)
  PROVE  Enqueue(r, s) \in Seq(Segment) /\ Sorted(Enqueue(r, s), Nxt(r), Right(r))
<1> DEFINE q == r.ooseq
           n == Len(q)
           lo == Nxt(r)
           hi == Right(r)
           same == {i \in 1 .. n : q[i].seqno = s.seqno}
           below == {i \in 1 .. n : TCP_SEQ_LT(q[i].seqno, s.seqno)}
           b == Cardinality(below)
           Fine(x) == x \in Seq(Segment) /\ Sorted(x, lo, hi)
<1>1. q \in Seq(Segment) /\ lo \in Nat /\ hi \in Nat /\ Sorted(q, lo, hi) /\ n \in Nat
  BY RcvFacts DEF Base
<1>2. /\ \A j \in 1 .. n : /\ q[j] \in Segment /\ Sane(q[j]) /\ q[j].fin \in BOOLEAN
                           /\ Start(q[j]) \in Nat /\ Stop(q[j]) \in Nat
      /\ \A j, k \in 1 .. n : j < k => Start(q[j]) < Start(q[k]) /\ ~q[j].fin
  BY <1>1, SortedFacts
<1>3. s.seqno \in SeqNos /\ Start(s) \in Nat /\ Length(s) \in Nat /\ Stop(s) = Start(s) + Length(s)
  BY SegmentFacts
<1>4. TrimToWindow(r, s) = s
  BY Untrimmed DEF Base, Window
<1>5. lo < Start(s) /\ End(s) <= hi
  OBVIOUS
<1> HIDE DEF lo, hi
<1>6. CASE q = <<>>
  <2>1. Enqueue(r, s) = <<s>>
    BY <1>6 DEF Enqueue
  <2>2. Fine(<<s>>)
    BY <1>1, <1>5, SortedOne
  <2> QED BY <2>1, <2>2 DEF lo, hi
<1>7. CASE q # <<>> /\ same # {}
  <2> DEFINE k == CHOOSE k \in same : TRUE
  <2>1. k \in same
    BY <1>7
  <2>2. Enqueue(r, s) = IF Length(s) > Length(q[k]) /\ k < n THEN InsertAfter(q, k - 1, s) ELSE q
    BY <1>7 DEF Enqueue
  <2> HIDE DEF k
  <2>3. k \in 1 .. n /\ q[k].seqno = s.seqno
    BY <2>1
  <2>4. Start(q[k]) = Start(s)
    BY <2>3 DEF Start
  <2>5. CASE Length(s) > Length(q[k]) /\ k < n
    <3>1. k - 1 \in 0 .. n
      BY <1>1, <2>3
    <3>2. k - 1 > 0 => ~q[k - 1].fin
      <4>1. k - 1 > 0 => k - 1 \in 1 .. n /\ k - 1 < k
        BY <1>1, <2>3
      <4> QED BY <1>2, <2>3, <4>1
    <3>3. \A j \in 1 .. k - 1 : Start(q[j]) < Start(s)
      <4> TAKE j \in 1 .. k - 1
      <4>1. j \in 1 .. n /\ j < k
        BY <1>1, <2>3
      <4> QED BY <1>2, <2>3, <2>4, <4>1
    <3>4. Stop(q[k]) < Stop(s)
      <4>1. Stop(q[k]) = Start(q[k]) + Length(q[k]) /\ Length(q[k]) \in Nat
        BY <1>2, <2>3, SegmentFacts
      <4> QED BY <1>3, <2>4, <2>5, <4>1
    <3>5. \A j \in (k - 1) + 1 .. n :
            Start(s) < Start(q[j]) \/ (Start(s) = Start(q[j]) /\ Stop(q[j]) < Stop(s))
      <4> TAKE j \in (k - 1) + 1 .. n
      <4>1. j \in 1 .. n /\ (j = k \/ k < j)
        BY <1>1, <2>3
      <4>2. CASE j = k
        BY <2>4, <3>4, <4>2
      <4>3. CASE k < j
        BY <1>2, <2>3, <2>4, <4>1, <4>3
      <4> QED BY <4>1, <4>2, <4>3
    <3>6. Fine(InsertAfter(q, k - 1, s))
      <4> DEFINE i == k - 1
      <4> HIDE DEF i, q
      <4>1. /\ i \in 0 .. Len(q) /\ (i > 0 => ~q[i].fin) /\ (\A j \in 1 .. i : Start(q[j]) < Start(s))
            /\ \A j \in i + 1 .. Len(q) :
                 Start(s) < Start(q[j]) \/ (Start(s) = Start(q[j]) /\ Stop(q[j]) < Stop(s))
        BY <3>1, <3>2, <3>3, <3>5 DEF i
      <4>2. Fine(InsertAfter(q, i, s))
        BY <1>1, <1>5, <4>1, InsertFacts
      <4> QED BY <4>2 DEF i
    <3> QED BY <2>2, <2>5, <3>6 DEF lo, hi
  <2>6. CASE ~(Length(s) > Length(q[k]) /\ k < n)
    BY <1>1, <2>2, <2>6 DEF lo, hi
  <2> QED BY <2>5, <2>6
<1>8. CASE q # <<>> /\ same = {}
  <2>1. \A j \in 1 .. n : Start(q[j]) # Start(s) /\ (TCP_SEQ_LT(q[j].seqno, s.seqno) <=> Start(q[j]) < Start(s))
    <3> TAKE j \in 1 .. n
    <3>1. /\ q[j].seqno \in SeqNos /\ Offset(q[j].seqno) = Start(q[j]) /\ Start(q[j]) < SEQ \div 2
          /\ Offset(s.seqno) = Start(s) /\ Start(s) < SEQ \div 2
      BY <1>2, SegmentRange
    <3>2. q[j].seqno # s.seqno
      BY <1>8
    <3> QED BY <1>3, <3>1, <3>2, OffsetInjective, Compare
  <2>2. b \in 0 .. n /\ (\A j \in 1 .. b : Start(q[j]) < Start(s)) /\ (\A j \in b + 1 .. n : Start(s) < Start(q[j]))
    <3> DEFINE A == {j \in 0 .. n : \A i \in 1 .. j : i \in below}
               m == Max(A)
    <3>1. m \in 0 .. n /\ (\A i \in 1 .. m : i \in below) /\ (m < n => (m + 1) \notin below)
      <4> HIDE DEF n, below
      <4> QED BY <1>1, LeadingSet
    <3> HIDE DEF m, q, n
    <3>2. \A j \in m + 1 .. n : j \notin below /\ Start(s) < Start(q[j])
      <4> TAKE j \in m + 1 .. n
      <4>1. j \in 1 .. n /\ m + 1 \in 1 .. n /\ m < n /\ (j = m + 1 \/ m + 1 < j)
        BY <1>1, <3>1
      <4>2. ~(Start(q[m + 1]) < Start(s))
        BY <2>1, <3>1, <4>1
      <4>3. Start(q[m + 1]) <= Start(q[j])
        BY <1>2, <4>1
      <4>4. ~(Start(q[j]) < Start(s)) /\ Start(q[j]) # Start(s)
        BY <1>2, <1>3, <2>1, <4>1, <4>2, <4>3
      <4> QED BY <1>2, <1>3, <2>1, <4>1, <4>4
    <3>3. below = 1 .. m
      <4>1. \A j \in 1 .. n : j \in 1 .. m \/ j \in m + 1 .. n
        BY <1>1, <3>1
      <4> QED BY <3>1, <3>2, <4>1
    <3>4. b = m
      <4>1. m \in Int /\ m >= 0
        BY <1>1, <3>1
      <4>2. Cardinality(1 .. m) = IF 1 > m THEN 0 ELSE m - 1 + 1
        BY <4>1, FS_Interval
      <4>3. Cardinality(1 .. m) = m
        BY <4>1, <4>2
      <4> QED BY <3>3, <4>3
    <3>5. \A j \in 1 .. m : Start(q[j]) < Start(s)
      BY <2>1, <3>1
    <3> HIDE DEF b
    <3> QED BY <3>1, <3>2, <3>4, <3>5
  <2>3. Enqueue(r, s) = IF b < n THEN InsertAfter(q, b, s) ELSE IF q[b].fin THEN q ELSE InsertAfter(q, b, TrimToWindow(r, s))
    BY <1>8 DEF Enqueue
  <2> HIDE DEF b
  <2>4. ASSUME b > 0 => ~q[b].fin PROVE Fine(InsertAfter(q, b, s))
    <3> HIDE DEF q
    <3>1. \A j \in b + 1 .. Len(q) :
            Start(s) < Start(q[j]) \/ (Start(s) = Start(q[j]) /\ Stop(q[j]) < Stop(s))
      BY <2>2
    <3> QED BY <1>1, <1>5, <2>2, <2>4, <3>1, InsertFacts
  <2>5. CASE b < n
    <3>1. b > 0 => ~q[b].fin
      <4>1. b > 0 => b \in 1 .. n /\ n \in 1 .. n
        BY <1>1, <2>2
      <4> QED BY <1>2, <2>5, <4>1
    <3> QED BY <2>3, <2>4, <2>5, <3>1 DEF lo, hi
  <2>6. CASE ~(b < n) /\ q[b].fin
    BY <1>1, <2>3, <2>6 DEF lo, hi
  <2>7. CASE ~(b < n) /\ ~q[b].fin
    BY <1>4, <2>3, <2>4, <2>7 DEF lo, hi
  <2> QED BY <2>5, <2>6, <2>7
<1> QED BY <1>6, <1>7, <1>8

-----------------------------------------------------------------------------
(* Segments in sequence.                                                   *)

\* The bytes of the stream from a on and before b.
Stretch(a, b) == [j \in 1 .. b - a |-> a + j - 1]

\* Runs of bytes that follow each other, from a on; the i-th one ends before
\* e[i].
Contiguous(ss, a, e) ==
  \A i \in 1 .. Len(ss) : LET b == IF i = 1 THEN a ELSE e[i - 1] IN
    a <= b /\ b <= e[i] /\ ss[i] = Stretch(b, e[i])

\* All of the bytes of such runs.
LEMMA FlattenRun ==
  ASSUME NEW m \in Nat, m >= 1, NEW a \in Nat, NEW e \in [1 .. m -> Nat],
         NEW ss \in Seq(Seq(Nat)), Len(ss) = m, Contiguous(ss, a, e)
  PROVE  FlattenSeq(ss) = Stretch(a, e[m])
<1> DEFINE f == CHOOSE f : f = [i \in 1 .. Len(ss) |-> IF i = 1 THEN ss[i] ELSE f[i - 1] \o ss[i]]
           Run(i) == [j \in 1 .. e[i] - a |-> a + j - 1]
           F == [i \in 1 .. m |-> Run(i)]
           Step(g) == [i \in 1 .. m |-> IF i = 1 THEN ss[i] ELSE g[i - 1] \o ss[i]]
           B(i) == IF i = 1 THEN a ELSE e[i - 1]
<1>0. \A i \in 1 .. m : LET b == IF i = 1 THEN a ELSE e[i - 1] IN
        a <= b /\ b <= e[i] /\ ss[i] = [j \in 1 .. e[i] - b |-> b + j - 1]
  BY DEF Contiguous, Stretch
<1>1. Len(ss) # 0 /\ Len(ss) \in Nat
  OBVIOUS
<1>2. FlattenSeq(ss) = f[Len(ss)]
  BY <1>1, Zenon DEF FlattenSeq
<1>3. \A i \in 1 .. m : B(i) \in Nat /\ e[i] \in Nat /\ a <= B(i) /\ B(i) <= e[i]
  <2> TAKE i \in 1 .. m
  <2>1. i # 1 => i - 1 \in 1 .. m
    OBVIOUS
  <2>2. B(i) \in Nat /\ e[i] \in Nat
    BY <2>1
  <2> QED BY <1>0, <2>2
<1>4. \A i \in 1 .. m : ss[i] = [j \in 1 .. e[i] - B(i) |-> B(i) + j - 1]
  BY <1>0
<1>5. B(1) = a /\ \A i \in 1 .. m : i # 1 => B(i) = e[i - 1]
  BY DEF B
<1> HIDE DEF B
<1>6. \A i \in 1 .. m : Run(i) \in Seq(Nat) /\ Len(Run(i)) = e[i] - a /\ \A j \in 1 .. e[i] - a : Run(i)[j] = a + j - 1
  <2> TAKE i \in 1 .. m
  <2>1. e[i] - a \in Nat /\ \A j \in 1 .. e[i] - a : a + j - 1 \in Nat
    BY <1>3
  <2> DEFINE n == e[i] - a
  <2> HIDE DEF n
  <2>2. n \in Nat /\ \A j \in 1 .. n : a + j - 1 \in Nat
    BY <2>1 DEF n
  <2>3. /\ [j \in 1 .. n |-> a + j - 1] \in Seq(Nat) /\ Len([j \in 1 .. n |-> a + j - 1]) = n
        /\ \A j \in 1 .. n : [k \in 1 .. n |-> a + k - 1][j] = a + j - 1
    BY <2>2
  <2> QED BY <2>3 DEF n
<1>7. ASSUME NEW i \in 1 .. m, i # 1 PROVE Run(i) = Run(i - 1) \o ss[i]
  <2> DEFINE x == Run(i - 1)
             y == ss[i]
             z == Run(i)
             b == e[i - 1]
             c == e[i]
  <2>1. i - 1 \in 1 .. m
    BY <1>7
  <2>2. b \in Nat /\ c \in Nat /\ a <= b /\ b <= c
    BY <1>3, <1>5, <1>7, <2>1
  <2>3. x \in Seq(Nat) /\ Len(x) = b - a /\ \A j \in 1 .. b - a : x[j] = a + j - 1
    BY <1>6, <2>1
  <2>4. z \in Seq(Nat) /\ Len(z) = c - a /\ \A j \in 1 .. c - a : z[j] = a + j - 1
    BY <1>6
  <2>5. y = [j \in 1 .. c - b |-> b + j - 1]
    BY <1>4, <1>5, <1>7
  <2> HIDE DEF x, y, z, b, c
  <2>6. y \in Seq(Nat) /\ Len(y) = c - b /\ \A j \in 1 .. c - b : y[j] = b + j - 1
    <3>1. c - b \in Nat /\ \A j \in 1 .. c - b : b + j - 1 \in Nat
      BY <2>2
    <3> DEFINE n == c - b
    <3> HIDE DEF n
    <3>2. n \in Nat /\ (\A j \in 1 .. n : b + j - 1 \in Nat) /\ y = [j \in 1 .. n |-> b + j - 1]
      BY <2>5, <3>1 DEF n
    <3>3. y \in Seq(Nat) /\ Len(y) = n /\ \A j \in 1 .. n : y[j] = b + j - 1
      BY <3>2
    <3> QED BY <3>3 DEF n
  <2> DEFINE w == x \o y
  <2>7. /\ w \in Seq(Nat) /\ Len(w) = Len(x) + Len(y)
        /\ \A j \in 1 .. Len(x) : w[j] = x[j]
        /\ \A j \in Len(x) + 1 .. Len(x) + Len(y) : w[j] = y[j - Len(x)]
    <3>1. x \in Seq(Nat) /\ y \in Seq(Nat)
      BY <2>3, <2>6
    <3> QED BY <3>1, Joined
  <2> HIDE DEF w
  <2>8. Len(w) = c - a
    BY <2>2, <2>3, <2>6, <2>7
  <2>9. \A j \in 1 .. c - a : w[j] = a + j - 1
    <3> TAKE j \in 1 .. c - a
    <3>1. CASE j <= b - a
      <4>1. j \in 1 .. b - a
        BY <2>2, <3>1
      <4> QED BY <2>3, <2>7, <4>1
    <3>2. CASE ~(j <= b - a)
      <4>1. j \in Len(x) + 1 .. Len(x) + Len(y) /\ j - (b - a) \in 1 .. c - b
        BY <2>2, <2>3, <2>6, <3>2
      <4>2. w[j] = y[j - (b - a)]
        BY <2>3, <2>7, <4>1
      <4>3. y[j - (b - a)] = b + (j - (b - a)) - 1
        BY <2>6, <4>1
      <4> QED BY <2>2, <4>2, <4>3
    <3> QED BY <3>1, <3>2
  <2>10. w \in Seq(Nat) /\ z \in Seq(Nat) /\ Len(w) = Len(z) /\ \A j \in 1 .. Len(w) : w[j] = z[j]
    BY <2>4, <2>7, <2>8, <2>9
  <2>11. w = z
    BY <2>10, Same
  <2> QED BY <2>11 DEF w, x, y, z
<1>8. Run(1) = ss[1]
  <2>1. 1 \in 1 .. m
    OBVIOUS
  <2> QED BY <1>4, <1>5, <2>1
<1> HIDE DEF Run
<1>9. F = Step(F)
  <2>1. ASSUME NEW i \in 1 .. m PROVE F[i] = IF i = 1 THEN ss[i] ELSE F[i - 1] \o ss[i]
    <3>1. CASE i = 1
      BY <1>8, <3>1
    <3>2. CASE i # 1
      <4>1. i - 1 \in 1 .. m
        BY <3>2
      <4> QED BY <1>7, <3>2, <4>1
    <3> QED BY <3>1, <3>2
  <2>2. F = [i \in 1 .. m |-> F[i]]
    OBVIOUS
  <2> HIDE DEF F
  <2> QED BY <2>1, <2>2
<1>10. f = Step(f)
  <2>1. \E g : g = [i \in 1 .. Len(ss) |-> IF i = 1 THEN ss[i] ELSE g[i - 1] \o ss[i]]
    <3> HIDE DEF F
    <3> WITNESS F
    <3> QED BY <1>9
  <2>2. f = [i \in 1 .. Len(ss) |-> IF i = 1 THEN ss[i] ELSE f[i - 1] \o ss[i]]
    BY <2>1, Zenon
  <2> QED BY <2>2
<1> HIDE DEF f
<1>11. \A i \in 1 .. m : f[i] = F[i]
  <2> DEFINE Bad == {i \in 1 .. m : f[i] # F[i]}
  <2> SUFFICES ASSUME Bad # {} PROVE FALSE
    OBVIOUS
  <2>1. PICK i \in Bad : \A j \in Bad : i <= j
    <3>1. Bad \subseteq Nat
      OBVIOUS
    <3> HIDE DEF Bad
    <3> QED BY <3>1, NatMin
  <2> HIDE DEF F
  <2>2. i \in 1 .. m /\ f[i] # F[i]
    BY <2>1
  <2>3. /\ f[i] = IF i = 1 THEN ss[i] ELSE f[i - 1] \o ss[i]
        /\ F[i] = IF i = 1 THEN ss[i] ELSE F[i - 1] \o ss[i]
    BY <1>9, <1>10, <2>2
  <2>4. i # 1 /\ f[i - 1] # F[i - 1]
    BY <2>2, <2>3
  <2>5. i - 1 \in 1 .. m /\ i - 1 < i
    BY <2>2, <2>4
  <2>6. i - 1 \in Bad
    BY <2>4, <2>5
  <2> QED BY <2>1, <2>2, <2>5, <2>6
<1>12. f[m] = Run(m)
  BY <1>11
<1> QED BY <1>2, <1>12 DEF Run, Stretch

\* The run of segments that begins with s, their bytes, and what is left of the
\* queue behind it.
LEMMA RunFacts ==
  ASSUME NEW s \in Segment, Sane(s), s.fin => Stop(s) = StreamLen,
         NEW rest \in Seq(Segment), NEW lo \in Nat, NEW hi \in Nat,
         Sorted(rest, lo, hi), End(s) <= hi, \A i \in 1 .. Len(rest) : End(s) <= Start(rest[i])
  PROVE  LET k     == NowInSequence(s, rest)
             taken == <<s>> \o SubSeq(rest, 1, k)
             last  == taken[k + 1]
             left  == SubSeq(rest, k + 1, Len(rest))
         IN /\ last \in Segment /\ Sane(last) /\ Start(s) <= Start(last) /\ End(last) <= hi
            /\ last.fin => Stop(last) = StreamLen
            /\ FlattenSeq([i \in 1 .. k + 1 |-> taken[i].p]) = Stretch(Start(s), Stop(last))
            /\ left \in Seq(Segment) /\ Sorted(left, End(last), hi)
<1> DEFINE n == Len(rest)
           Prev(i) == IF i = 1 THEN s ELSE rest[i - 1]
           Follows(i) == rest[i].seqno = EndOf(Prev(i), TRUE)
           B == {j \in 0 .. n : \A i \in 1 .. j : Follows(i)}
           k == NowInSequence(s, rest)
           front == SubSeq(rest, 1, k)
           one == <<s>>
           taken == one \o front
           last == taken[k + 1]
           left == SubSeq(rest, k + 1, n)
           a == Start(s)
<1>1. n \in Nat
  OBVIOUS
<1>2. k = Max(B)
  BY DEF NowInSequence, Leading
<1>3. /\ \A i \in 1 .. n : /\ rest[i] \in Segment /\ Sane(rest[i]) /\ End(rest[i]) <= hi
                           /\ rest[i].fin => Stop(rest[i]) = StreamLen
      /\ \A i, j \in 1 .. n : i < j => End(rest[i]) <= Start(rest[j])
      /\ \A i \in 1 .. n : End(s) <= Start(rest[i])
  BY DEF Sorted
\* Prev(i + 1) is the i-th segment of s and the queue.
<1>4. \A i \in 1 .. n + 1 : /\ Prev(i) \in Segment /\ Sane(Prev(i)) /\ End(Prev(i)) <= hi
                            /\ Prev(i).fin => Stop(Prev(i)) = StreamLen
  <2> TAKE i \in 1 .. n + 1
  <2>1. CASE i = 1
    BY <2>1
  <2>2. CASE i # 1
    <3>1. i - 1 \in 1 .. n
      BY <1>1, <2>2
    <3> HIDE DEF n
    <3> QED BY <1>3, <2>2, <3>1
  <2> QED BY <2>1, <2>2
<1>5. \A i, j \in 1 .. n + 1 : i < j => End(Prev(i)) <= Start(Prev(j))
  <2> TAKE i, j \in 1 .. n + 1
  <2> SUFFICES ASSUME i < j PROVE End(Prev(i)) <= Start(Prev(j))
    OBVIOUS
  <2>1. j # 1 /\ j - 1 \in 1 .. n
    BY <1>1
  <2>2. CASE i = 1
    <3> HIDE DEF n
    <3> QED BY <1>3, <2>1, <2>2
  <2>3. CASE i # 1
    <3>1. i - 1 \in 1 .. n /\ i - 1 < j - 1
      BY <1>1, <2>3
    <3> HIDE DEF n
    <3> QED BY <1>3, <2>1, <2>3, <3>1
  <2> QED BY <2>2, <2>3
<1>6. Prev(1) = s /\ \A i \in 1 .. n : Prev(i + 1) = rest[i]
  <2>1. \A i \in 1 .. n : i + 1 # 1 /\ (i + 1) - 1 = i
    BY <1>1
  <2> HIDE DEF n
  <2> QED BY <2>1
<1> HIDE DEF Prev, n
<1>7. \A i \in 1 .. n + 1 : /\ Start(Prev(i)) \in Nat /\ Stop(Prev(i)) \in Nat /\ End(Prev(i)) \in Nat
                            /\ Length(Prev(i)) \in Nat /\ Stop(Prev(i)) = Start(Prev(i)) + Length(Prev(i))
                            /\ Start(Prev(i)) <= Stop(Prev(i)) /\ Stop(Prev(i)) <= StreamLen
                            /\ Prev(i).fin \in BOOLEAN
                            /\ End(Prev(i)) = IF Prev(i).fin THEN Stop(Prev(i)) + 1 ELSE Stop(Prev(i))
                            /\ Start(Prev(i)) < End(Prev(i))
  BY <1>4, SegmentFacts DEF Sane
<1>8. \A i \in 1 .. n : Follows(i) <=> Start(Prev(i + 1)) = End(Prev(i))
  <2> TAKE i \in 1 .. n
  <2>1. i \in 1 .. n + 1 /\ i + 1 \in 1 .. n + 1
    BY <1>1
  <2>2. Prev(i) \in Segment /\ Sane(Prev(i)) /\ Prev(i + 1) \in Segment /\ Sane(Prev(i + 1)) /\ rest[i] = Prev(i + 1)
    BY <1>4, <1>6, <2>1
  <2>3. /\ EndOf(Prev(i), TRUE) \in SeqNos /\ Offset(EndOf(Prev(i), TRUE)) = End(Prev(i))
        /\ rest[i].seqno \in SeqNos /\ Offset(rest[i].seqno) = Start(Prev(i + 1))
    BY <2>2, SegmentRange
  <2> QED BY <2>3, OffsetInjective
<1>9. k \in 0 .. n /\ (\A i \in 1 .. k : Follows(i)) /\ (k < n => ~Follows(k + 1))
  <2> DEFINE T == {i \in 1 .. n : Follows(i)}
             A == {j \in 0 .. n : \A i \in 1 .. j : i \in T}
             m == Max(A)
  <2>1. A = B
    <3>1. \A j \in 0 .. n : \A i \in 1 .. j : i \in 1 .. n
      BY <1>1
    <3> HIDE DEF Follows
    <3> QED BY <3>1
  <2>2. k = m
    BY <1>2, <2>1
  <2>3. m \in 0 .. n /\ (\A i \in 1 .. m : i \in T) /\ (m < n => (m + 1) \notin T)
    <3> HIDE DEF T
    <3> QED BY <1>1, LeadingSet
  <2> HIDE DEF m, k, Follows
  <2>4. m < n => m + 1 \in 1 .. n
    BY <1>1, <2>3
  <2> QED BY <2>2, <2>3, <2>4
<1> HIDE DEF k, B, Follows
<1>10. k \in Nat /\ k <= n /\ k + 1 \in 1 .. n + 1
  BY <1>1, <1>9
<1>11. /\ front \in Seq(Segment) /\ Len(front) = k /\ (\A i \in 1 .. k : front[i] = rest[i])
       /\ left \in Seq(Segment) /\ Len(left) = n - k /\ (\A i \in 1 .. n - k : left[i] = rest[k + i])
  BY <1>9, FrontBack DEF n
<1> HIDE DEF front, left
<1>12. /\ taken \in Seq(Segment) /\ Len(taken) = k + 1
       /\ \A i \in 1 .. k + 1 : taken[i] = Prev(i)
  <2>1. one \in Seq(Segment) /\ Len(one) = 1 /\ one[1] = s
    OBVIOUS
  <2> HIDE DEF one
  <2>2. /\ taken \in Seq(Segment) /\ Len(taken) = Len(one) + Len(front)
        /\ \A i \in 1 .. Len(one) : taken[i] = one[i]
        /\ \A i \in Len(one) + 1 .. Len(one) + Len(front) : taken[i] = front[i - Len(one)]
    <3>1. one \in Seq(Segment) /\ front \in Seq(Segment)
      BY <1>11, <2>1
    <3> QED BY <3>1, Joined
  <2> HIDE DEF taken
  <2>3. ASSUME NEW i \in 1 .. k + 1 PROVE taken[i] = Prev(i)
    <3>1. CASE i = 1
      BY <1>6, <2>1, <2>2, <3>1
    <3>2. CASE i # 1
      <4>1. i \in Len(one) + 1 .. Len(one) + Len(front) /\ i - 1 \in 1 .. k /\ i - 1 \in 1 .. n /\ (i - 1) + 1 = i
        BY <1>1, <1>10, <1>11, <2>1, <3>2
      <4>2. taken[i] = front[i - 1]
        BY <2>1, <2>2, <4>1
      <4>3. front[i - 1] = rest[i - 1]
        BY <1>11, <4>1
      <4>4. Prev((i - 1) + 1) = rest[i - 1]
        BY <1>6, <4>1
      <4> QED BY <4>1, <4>2, <4>3, <4>4
    <3> QED BY <3>1, <3>2
  <2>4. Len(taken) = k + 1
    BY <1>10, <1>11, <2>1, <2>2
  <2> QED BY <2>2, <2>3, <2>4
<1> HIDE DEF taken, one
<1>13. last = Prev(k + 1)
  <2>1. k + 1 \in 1 .. k + 1
    BY <1>10
  <2> QED BY <1>12, <2>1
<1> HIDE DEF last
<1>14. /\ last \in Segment /\ Sane(last) /\ End(last) <= hi /\ (last.fin => Stop(last) = StreamLen)
       /\ Start(last) \in Nat /\ Stop(last) \in Nat /\ End(last) \in Nat
  BY <1>4, <1>7, <1>10, <1>13
\* Where each of them starts.
<1>15. ASSUME NEW i \in 1 .. k + 1, i # 1
       PROVE  i - 1 \in 1 .. k + 1 /\ Start(Prev(i)) = Stop(Prev(i - 1))
  <2>1. i - 1 \in 1 .. k + 1 /\ i - 1 \in 1 .. k /\ i - 1 \in 1 .. n /\ i \in 1 .. n + 1 /\ i - 1 \in 1 .. n + 1 /\ (i - 1) + 1 = i
    BY <1>1, <1>10, <1>15
  <2>2. Start(Prev(i)) = End(Prev(i - 1))
    <3>1. Follows(i - 1)
      BY <1>9, <2>1
    <3>2. Start(Prev((i - 1) + 1)) = End(Prev(i - 1))
      BY <1>8, <2>1, <3>1
    <3> QED BY <2>1, <3>2
  <2>3. ~Prev(i - 1).fin
    <3> SUFFICES ASSUME Prev(i - 1).fin PROVE FALSE
      OBVIOUS
    <3>1. Stop(Prev(i - 1)) = StreamLen /\ End(Prev(i - 1)) = Stop(Prev(i - 1)) + 1
      BY <1>4, <1>7, <2>1
    <3>2. Start(Prev(i)) <= StreamLen
      <4>1. /\ Start(Prev(i)) \in Nat /\ Stop(Prev(i)) \in Nat
            /\ Start(Prev(i)) <= Stop(Prev(i)) /\ Stop(Prev(i)) <= StreamLen
        BY <1>7, <2>1
      <4> QED BY <4>1, SeqBounds
    <3> QED BY <2>2, <3>1, <3>2, SeqBounds
  <2> QED BY <1>7, <2>1, <2>2, <2>3
<1>16. \A i \in 1 .. k + 1 : a <= Start(Prev(i))
  <2> TAKE i \in 1 .. k + 1
  <2>1. i \in 1 .. n + 1 /\ 1 \in 1 .. n + 1
    BY <1>1, <1>10
  <2>2. CASE i = 1
    BY <1>6, <1>7, <2>1, <2>2
  <2>3. CASE i # 1
    <3>1. 1 < i
      BY <2>3
    <3>2. End(Prev(1)) <= Start(Prev(i))
      BY <1>5, <2>1, <3>1
    <3> QED BY <1>6, <1>7, <2>1, <3>2
  <2> QED BY <2>2, <2>3
<1>17. a <= Start(last)
  BY <1>10, <1>13, <1>16
<1>18. FlattenSeq([i \in 1 .. k + 1 |-> taken[i].p]) = Stretch(a, Stop(last))
  <2> DEFINE m == k + 1
             e == [i \in 1 .. m |-> Stop(Prev(i))]
             ss == [i \in 1 .. m |-> taken[i].p]
  <2>1. m \in Nat /\ m >= 1 /\ a \in Nat
    BY <1>10, SegmentFacts
  <2>2. \A i \in 1 .. m : i \in 1 .. n + 1
    BY <1>1, <1>10
  <2>3. e \in [1 .. m -> Nat] /\ \A i \in 1 .. m : e[i] = Stop(Prev(i))
    BY <1>7, <2>2
  <2>4. \A i \in 1 .. m : ss[i] = Prev(i).p /\ Prev(i).p \in Seq(Nat)
    <3> TAKE i \in 1 .. m
    <3>1. Prev(i) \in Segment /\ taken[i] = Prev(i)
      BY <1>4, <1>12, <2>2
    <3>2. Prev(i).p \in Seq(0 .. StreamLen - 1)
      BY <3>1, SegmentFacts
    <3>3. Prev(i).p \in Seq(Nat)
      <4> DEFINE x == Prev(i).p
                 T == 0 .. StreamLen - 1
      <4>1. x \in Seq(T) /\ T \subseteq Nat
        BY <3>2, SeqBounds
      <4> HIDE DEF x, T
      <4>2. Len(x) \in Nat /\ x \in [1 .. Len(x) -> T]
        BY <4>1, LenProperties
      <4>4. x \in [1 .. Len(x) -> Nat]
        BY <4>1, <4>2
      <4>5. x \in Seq(Nat)
        BY <4>2, <4>4
      <4> QED BY <4>5 DEF x
    <3> QED BY <3>1, <3>3
  <2> HIDE DEF m, e
  <2>5. ss \in Seq(Seq(Nat)) /\ Len(ss) = m
    <3>1. ss \in [1 .. m -> Seq(Nat)]
      BY <2>4
    <3> HIDE DEF ss
    <3> QED BY <2>1, <3>1
  <2> HIDE DEF ss
  <2>6. \A i \in 1 .. m : LET b == IF i = 1 THEN a ELSE e[i - 1] IN
           a <= b /\ b <= e[i] /\ ss[i] = Stretch(b, e[i])
    <3> TAKE i \in 1 .. m
    <3> DEFINE b == IF i = 1 THEN a ELSE e[i - 1]
               P == Prev(i)
    <3>1. b = Start(P)
      <4>1. CASE i = 1
        BY <1>6, <4>1
      <4>2. CASE i # 1
        <5>1. i - 1 \in 1 .. m /\ Start(P) = Stop(Prev(i - 1))
          BY <1>15, <4>2 DEF m
        <5> QED BY <2>3, <4>2, <5>1
      <4> QED BY <4>1, <4>2
    <3> HIDE DEF b
    <3>2. /\ P \in Segment /\ Sane(P) /\ e[i] = Stop(P) /\ ss[i] = P.p /\ P.p \in Seq(Nat)
          /\ Start(P) \in Nat /\ Length(P) \in Nat /\ Stop(P) = Start(P) + Length(P) /\ a <= Start(P)
      BY <1>4, <1>7, <1>16, <2>2, <2>3, <2>4 DEF m
    <3> HIDE DEF P
    <3>3. a <= b /\ b <= e[i] /\ e[i] - b = Length(P)
      BY <3>1, <3>2
    <3>4. P.p = [j \in 1 .. Length(P) |-> Start(P) + j - 1]
      <4>1. \A j \in 1 .. Length(P) : P.p[j] = Start(P) + j - 1
        BY <3>2 DEF Sane
      <4>2. P.p = [j \in 1 .. Length(P) |-> P.p[j]]
        BY <3>2 DEF Length
      <4> QED BY <4>1, <4>2
    <3>5. ss[i] = Stretch(b, e[i])
      BY <3>1, <3>2, <3>3, <3>4 DEF Stretch
    <3> QED BY <3>3, <3>5 DEF b
  <2> HIDE DEF a
  <2>7. FlattenSeq(ss) = Stretch(a, e[m])
    <3>1. e \in [1 .. m -> Nat]
      BY <2>3
    <3>2. Contiguous(ss, a, e)
      BY <2>5, <2>6 DEF Contiguous
    <3> QED BY <2>1, <2>5, <3>1, <3>2, FlattenRun
  <2>8. e[m] = Stop(last)
    <3>1. m \in 1 .. m
      BY <2>1
    <3> QED BY <1>13, <2>3, <3>1 DEF m
  <2> QED BY <2>7, <2>8 DEF ss, m
<1>19. Sorted(left, End(last), hi)
  <2>1. /\ \A i \in 1 .. n - k : /\ k + i \in 1 .. n /\ left[i] = rest[k + i] /\ rest[k + i] = Prev(k + i + 1)
                                 /\ k + i + 1 \in 1 .. n + 1 /\ k + 1 < k + i + 1
    BY <1>1, <1>6, <1>10, <1>11, SMTT(30)
  <2>2. ASSUME NEW i \in 1 .. n - k PROVE End(last) < Start(left[i])
    <3>1. End(last) <= Start(left[i]) /\ Start(left[i]) \in Nat
      BY <1>5, <1>7, <1>10, <1>13, <2>1
    <3>2. ASSUME i = 1 PROVE End(last) # Start(left[i])
      <4>1. k < n /\ k + 1 \in 1 .. n
        BY <1>1, <1>10, <3>2
      <4>2. ~Follows(k + 1)
        BY <1>9, <4>1
      <4>3. Start(Prev(k + 1 + 1)) # End(Prev(k + 1))
        BY <1>8, <4>1, <4>2
      <4> QED BY <1>13, <2>1, <3>2, <4>3
    <3>3. ASSUME i # 1 PROVE End(last) # Start(left[i])
      <4>1. 1 \in 1 .. n - k /\ k + 1 \in 1 .. n /\ k + i \in 1 .. n /\ k + 1 < k + i
        BY <1>1, <1>10, <3>3
      <4>2. left[1] = rest[k + 1] /\ left[i] = rest[k + i] /\ rest[k + 1] \in Segment
        BY <1>3, <2>1, <4>1
      <4>3. End(rest[k + 1]) <= Start(rest[k + i]) /\ Start(rest[k + 1]) < End(rest[k + 1])
        BY <1>3, <4>1 DEF Sane
      <4>4. End(last) <= Start(rest[k + 1])
        <5>1. rest[k + 1] = Prev(k + 1 + 1) /\ k + 1 + 1 \in 1 .. n + 1 /\ k + 1 < k + 1 + 1
          BY <2>1, <4>1
        <5> QED BY <1>5, <1>10, <1>13, <5>1
      <4>5. Start(rest[k + 1]) \in Nat /\ End(rest[k + 1]) \in Nat
        BY <4>2, SegmentFacts
      <4> QED BY <1>14, <3>1, <4>2, <4>3, <4>4, <4>5
    <3> QED BY <1>14, <3>1, <3>2, <3>3
  <2>3. \A i \in 1 .. n - k : /\ Sane(left[i]) /\ End(left[i]) <= hi /\ (left[i].fin => Stop(left[i]) = StreamLen)
    BY <1>3, <2>1
  <2>4. ASSUME NEW i \in 1 .. n - k, NEW j \in 1 .. n - k, i < j PROVE End(left[i]) <= Start(left[j])
    <3>1. k + i \in 1 .. n /\ k + j \in 1 .. n /\ k + i < k + j
      BY <1>10, <2>1, <2>4
    <3> QED BY <1>3, <2>1, <3>1
  <2> QED BY <1>11, <2>2, <2>3, <2>4 DEF Sorted
<1> QED BY <1>11, <1>14, <1>17, <1>18, <1>19 DEF last, taken, one, front, left, n, k

\* What becomes of the receive side r when the bytes before b, and the FIN, have
\* come in sequence.
Took(r, g) ==
  \E b \in Nat :
    /\ Nxt(r) <= b /\ b <= StreamLen /\ g.out = Stretch(Nxt(r), b)
    /\ g.fin \in BOOLEAN /\ (g.fin => b = StreamLen)
    /\ Nxt(g.r) = b + One(g.fin) /\ Nxt(r) < Nxt(g.r) /\ Right(g.r) = Right(r)
    /\ Edge(g.r) = Edge(r) /\ (g.r.ackDelay \/ g.r.ackNow)

\* A segment and what follows it on the queue are passed on.
LEMMA PassFacts ==
  ASSUME NEW r, Base(r), NEW c, c.s \in Segment, Sane(c.s), c.s.fin => Stop(c.s) = StreamLen,
         Start(c.s) = Nxt(r), End(c.s) <= Right(r),
         c.rest \in Seq(Segment), Sorted(c.rest, Nxt(r), Right(r)),
         \A i \in 1 .. Len(c.rest) : End(c.s) <= Start(c.rest[i])
  PROVE  LET g == PassOn(r, c) IN Base(g.r) /\ g.r.fin = r.fin /\ Took(r, g)
<1> DEFINE s == c.s
           rest == c.rest
           k == NowInSequence(s, rest)
           taken == <<s>> \o SubSeq(rest, 1, k)
           last == taken[k + 1]
           left == SubSeq(rest, k + 1, Len(rest))
           run == FlattenSeq([i \in 1 .. k + 1 |-> taken[i].p])
           n == Diff(EndOf(last, TRUE), r.rcv_nxt)
           x == [r EXCEPT !.rcv_nxt = Add(@, n), !.rcv_wnd = @ - n, !.ooseq = left]
           y == tcp_update_rcv_ann_wnd(x)
           z == tcp_ack(y)
           g == PassOn(r, c)
<1>1. g = [r |-> z, out |-> run, fin |-> last.fin]
  BY DEF PassOn
<1>2. /\ r \in Rcv /\ r.rcv_nxt \in SeqNos /\ r.rcv_wnd \in Nat /\ r.rcv_wnd <= TCP_WND
      /\ Nxt(r) \in Nat /\ Right(r) \in Nat /\ Right(r) = Nxt(r) + r.rcv_wnd /\ Edge(r) \in Nat
      /\ Nxt(r) = Offset(r.rcv_nxt)
  BY RcvFacts DEF Base, Nxt
<1>3. TCP_WND <= Right(r) /\ Edge(r) <= Right(r)
  <2>1. TCP_WND <= Right(r) /\ Edge(r) <= Nxt(r) + r.rcv_ann_wnd /\ r.rcv_ann_wnd <= r.rcv_wnd
    BY DEF Base, Window
  <2>2. r.rcv_ann_wnd \in Nat
    BY <1>2, RcvFacts
  <2> QED BY <1>2, <2>1, <2>2
<1>4. /\ last \in Segment /\ Sane(last) /\ Start(s) <= Start(last) /\ End(last) <= Right(r)
      /\ last.fin => Stop(last) = StreamLen
      /\ run = Stretch(Start(s), Stop(last))
      /\ left \in Seq(Segment) /\ Sorted(left, End(last), Right(r))
  BY <1>2, RunFacts
<1> HIDE DEF s, rest, k, taken, last, left, run, g
<1>5. /\ Start(last) \in Nat /\ Stop(last) \in Nat /\ End(last) \in Nat /\ last.fin \in BOOLEAN
      /\ End(last) = Stop(last) + One(last.fin) /\ Start(last) <= Stop(last) /\ Stop(last) <= StreamLen
      /\ EndOf(last, TRUE) \in SeqNos /\ Offset(EndOf(last, TRUE)) = End(last) /\ Start(last) < End(last)
      /\ End(last) <= StreamLen + 1 /\ End(last) < SEQ \div 2
  <2>1. /\ Start(last) \in Nat /\ Stop(last) \in Nat /\ End(last) \in Nat /\ last.fin \in BOOLEAN
        /\ Start(last) <= Stop(last) /\ End(last) <= Stop(last) + 1
    BY <1>4, SegmentFacts
  <2>2. /\ EndOf(last, TRUE) \in SeqNos /\ Offset(EndOf(last, TRUE)) = End(last) /\ Start(last) < End(last)
        /\ Stop(last) <= StreamLen /\ End(last) < SEQ \div 2
    BY <1>4, SegmentRange
  <2>3. End(last) <= StreamLen + 1
    BY <2>1, <2>2, SeqBounds
  <2>4. End(last) = Stop(last) + One(last.fin)
    BY DEF End
  <2> QED BY <2>1, <2>2, <2>3, <2>4
<1>6. Start(s) = Nxt(r) /\ Nxt(r) <= Start(last)
  BY <1>4 DEF s
<1>7. n = End(last) - Nxt(r) /\ n \in Nat /\ n >= 1 /\ n <= r.rcv_wnd /\ Nxt(r) + n = End(last)
  <2>1. Offset(r.rcv_nxt) <= Offset(EndOf(last, TRUE))
    <3>1. Nxt(r) <= End(last)
      BY <1>2, <1>5, <1>6
    <3> QED BY <1>2, <1>5, <3>1
  <2>2. n = End(last) - Nxt(r)
    BY <1>2, <1>5, <2>1, DiffOffset
  <2> HIDE DEF n
  <2> QED BY <1>2, <1>4, <1>5, <1>6, <2>2, SMTT(30)
<1> HIDE DEF n
<1>8. Add(r.rcv_nxt, n) \in SeqNos /\ Offset(Add(r.rcv_nxt, n)) = End(last)
  <2>1. Offset(r.rcv_nxt) + n < SEQ
    BY <1>2, <1>5, <1>7, Bounds, SMTT(30)
  <2> QED BY <1>2, <1>7, <2>1, OffsetAdd
<1>9. /\ x \in Rcv /\ x.rcv_nxt = Add(r.rcv_nxt, n) /\ x.rcv_wnd = r.rcv_wnd - n /\ x.ooseq = left
      /\ x.rcv_ann_right_edge = r.rcv_ann_right_edge /\ x.fin = r.fin
  <2> DEFINE v == Add(r.rcv_nxt, n)
             w == r.rcv_wnd - n
  <2>1. v \in SeqNos /\ w \in 0 .. TCP_WND /\ left \in Seq(Segment)
    BY <1>2, <1>4, <1>7, <1>8, Bounds
  <2> HIDE DEF v, w
  <2>2. x = [r EXCEPT !.rcv_nxt = v, !.rcv_wnd = w, !.ooseq = left]
    BY DEF v, w
  <2> HIDE DEF x
  <2>3. /\ x \in Rcv /\ x.rcv_nxt = v /\ x.rcv_wnd = w /\ x.ooseq = left
        /\ x.rcv_ann_right_edge = r.rcv_ann_right_edge /\ x.fin = r.fin
    BY <1>2, <2>1, <2>2 DEF Rcv
  <2> QED BY <2>3 DEF v, w
<1> HIDE DEF x
<1>10. Nxt(x) = End(last) /\ Right(x) = Right(r) /\ Edge(x) = Edge(r)
  <2>1. Nxt(x) = End(last) /\ Edge(x) = Edge(r)
    BY <1>8, <1>9 DEF Nxt, Edge
  <2>2. Right(x) = End(last) + (r.rcv_wnd - n)
    BY <1>9, <2>1 DEF Right
  <2> QED BY <1>2, <1>5, <1>7, <2>1, <2>2
<1>11. PICK w \in 0 .. x.rcv_wnd :
         /\ y = [x EXCEPT !.rcv_ann_wnd = w]
         /\ Edge(x) <= Nxt(x) + w /\ x.rcv_wnd - w < MinAdv
  <2>1. Nxt(x) <= StreamLen + 1 /\ Edge(x) <= Right(x)
    BY <1>3, <1>5, <1>10
  <2> QED BY <1>9, <2>1, Updated
<1> HIDE DEF y
<1>12. /\ y \in Rcv /\ y.rcv_nxt = x.rcv_nxt /\ y.rcv_wnd = x.rcv_wnd /\ y.ooseq = left /\ y.rcv_ann_wnd = w
       /\ y.rcv_ann_right_edge = x.rcv_ann_right_edge /\ y.fin = r.fin
  <2>1. x.rcv_wnd \in 0 .. TCP_WND /\ TCP_WND \in Nat
    BY <1>9, Bounds DEF Rcv
  <2>2. w \in 0 .. TCP_WND
    BY <2>1
  <2> QED BY <1>9, <1>11, <2>2 DEF Rcv
<1>13. Nxt(y) = End(last) /\ Right(y) = Right(r) /\ Edge(y) = Edge(r)
  <2>1. Nxt(y) = Nxt(x) /\ Right(y) = Right(x) /\ Edge(y) = Edge(x)
    BY <1>12 DEF Nxt, Right, Edge
  <2> QED BY <1>10, <2>1
<1>14. Base(y)
  <2>1. y.rcv_wnd \in Nat
    BY <1>12, RcvFacts
  <2>2. Window(y)
    BY <1>3, <1>5, <1>10, <1>11, <1>12, <1>13, <2>1 DEF Window
  <2> QED BY <1>4, <1>12, <1>13, <2>2 DEF Base
<1>15. Alike(z, y) /\ (z.ackDelay \/ z.ackNow)
  BY <1>12, FlagFacts
<1> HIDE DEF z
<1>16. Base(z) /\ Nxt(z) = Nxt(y) /\ Right(z) = Right(y) /\ Edge(z) = Edge(y) /\ z.fin = y.fin
  BY <1>14, <1>15, AlikeFacts
<1>17. g.r = z /\ g.out = run /\ g.fin = last.fin
  BY <1>1
<1>18. Took(r, g)
  <2> DEFINE b == Stop(last)
  <2>1. b \in Nat /\ Nxt(r) <= b /\ b <= StreamLen
    BY <1>2, <1>5, <1>6
  <2>2. g.out = Stretch(Nxt(r), b)
    BY <1>4, <1>6, <1>17
  <2>3. g.fin \in BOOLEAN /\ (g.fin => b = StreamLen)
    BY <1>4, <1>5, <1>17
  <2>4. Nxt(g.r) = b + One(g.fin) /\ Nxt(r) < Nxt(g.r)
    <3>1. Nxt(g.r) = End(last)
      BY <1>13, <1>16, <1>17
    <3> QED BY <1>2, <1>5, <1>6, <1>17, <3>1
  <2>5. Right(g.r) = Right(r) /\ Edge(g.r) = Edge(r) /\ (g.r.ackDelay \/ g.r.ackNow)
    BY <1>13, <1>15, <1>16, <1>17
  <2> HIDE DEF b
  <2> QED BY <2>1, <2>2, <2>3, <2>4, <2>5 DEF Took
<1> QED BY <1>12, <1>16, <1>17, <1>18 DEF g

\* The value of With.
LEMMA Single ==
  ASSUME NEW v
  PROVE  (CHOOSE y \in {v} : TRUE) = v
OBVIOUS

\* The next segment in sequence.
LEMMA InSequenceFacts ==
  ASSUME NEW r, Base(r), NEW s \in Segment, Sane(s), s.fin => Stop(s) = StreamLen,
         Start(s) = Nxt(r), End(s) <= Right(r)
  PROVE  LET g == InSequence(r, s) IN Base(g.r) /\ g.r.fin = r.fin /\ Took(r, g)
<1> DEFINE c == CoverOoseq(s, r.ooseq)
<1>1. /\ r \in Rcv /\ Nxt(r) <= StreamLen + 1 /\ r.ooseq \in Seq(Segment) /\ Sorted(r.ooseq, Nxt(r), Right(r))
      /\ Nxt(r) \in Nat /\ Right(r) \in Nat
  BY RcvFacts DEF Base, Window
<1>2. TrimToWindow(r, s) = s
  BY <1>1, Untrimmed
<1>3. InSequence(r, s) = PassOn(r, c)
  <2>1. {PassOn(r, x) : x \in {c}} = {PassOn(r, c)}
    OBVIOUS
  <2>2. InSequence(r, s) = CHOOSE y \in {PassOn(r, x) : x \in {c}} : TRUE
    BY <1>2 DEF InSequence, With
  <2> QED BY <2>1, <2>2, Single
<1>4. \A i \in 1 .. Len(r.ooseq) :
        Start(s) < Start(r.ooseq[i]) \/ (Start(s) = Start(r.ooseq[i]) /\ Stop(r.ooseq[i]) < Stop(s))
  BY <1>1 DEF Sorted
<1>5. /\ c.s \in Segment /\ Sane(c.s) /\ Start(c.s) = Start(s)
      /\ End(c.s) <= Right(r) /\ (c.s.fin => Stop(c.s) = StreamLen)
      /\ c.rest \in Seq(Segment) /\ Sorted(c.rest, Nxt(r), Right(r))
      /\ \A i \in 1 .. Len(c.rest) : End(c.s) <= Start(c.rest[i])
  BY <1>1, <1>4, CoverFacts
<1> HIDE DEF c
<1>6. Start(c.s) = Nxt(r)
  BY <1>5
<1> DEFINE g == PassOn(r, c)
<1>7. Base(g.r) /\ g.r.fin = r.fin /\ Took(r, g)
  BY <1>5, <1>6, PassFacts
<1> QED BY <1>3, <1>7

-----------------------------------------------------------------------------
(* tcp_receive.                                                            *)

\* The part of a segment from rcv_nxt on.
LEMMA TrimFacts ==
  ASSUME NEW r, Base(r), NEW s \in Segment, Sane(s)
  PROVE  LET t == TrimFront(r, s) IN
         /\ t \in Segment /\ Sane(t) /\ t.fin = s.fin /\ Stop(t) = Stop(s) /\ End(t) = End(s)
         /\ t = s \/ (Start(t) = Nxt(r) /\ Start(s) + 1 < End(s))
<1> DEFINE t == TrimFront(r, s)
           lo == Add(s.seqno, 1)
           hi == Add(s.seqno, TCP_TCPLEN(s) - 1)
           n == Diff(r.rcv_nxt, s.seqno)
           In == TCP_SEQ_BETWEEN(r.rcv_nxt, lo, hi)
<1>1. /\ r \in Rcv /\ r.rcv_nxt \in SeqNos /\ Nxt(r) \in Nat /\ Offset(r.rcv_nxt) = Nxt(r)
      /\ Nxt(r) <= StreamLen + 1 /\ Nxt(r) < SEQ \div 2
  <2>1. r \in Rcv /\ Nxt(r) <= StreamLen + 1
    BY DEF Base, Window
  <2> QED BY <2>1, RcvFacts, RightEdge DEF Nxt
<1>2. /\ s.seqno \in SeqNos /\ Offset(s.seqno) = Start(s) /\ Start(s) < End(s) /\ End(s) < SEQ \div 2
      /\ Start(s) \in Nat /\ Length(s) \in Nat /\ End(s) \in Nat /\ s.fin \in BOOLEAN
      /\ Stop(s) = Start(s) + Length(s) /\ End(s) = IF s.fin THEN Stop(s) + 1 ELSE Stop(s)
  BY SegmentFacts, SegmentRange
<1>3. SEQ \in Nat /\ SEQ \div 2 \in Nat /\ 2 * (SEQ \div 2) = SEQ
  BY SeqBounds
<1>4. TCP_TCPLEN(s) = End(s) - Start(s)
  <2>1. TCP_TCPLEN(s) = Length(s) + One(s.fin) /\ End(s) = Start(s) + Length(s) + One(s.fin)
    BY DEF TCP_TCPLEN, Length, End, Stop
  <2>2. One(s.fin) \in Nat
    BY DEF One
  <2> QED BY <1>2, <2>1, <2>2
<1>5. lo \in SeqNos /\ Offset(lo) = Start(s) + 1
  <2>1. Offset(s.seqno) + 1 < SEQ
    BY <1>2, <1>3
  <2> QED BY <1>2, <2>1, OffsetAdd
<1>6. hi \in SeqNos /\ Offset(hi) = End(s) - 1
  <2> DEFINE m == TCP_TCPLEN(s) - 1
  <2>1. m \in Nat /\ Offset(s.seqno) + m < SEQ /\ Start(s) + m = End(s) - 1
    BY <1>2, <1>3, <1>4
  <2> HIDE DEF m
  <2>2. Add(s.seqno, m) \in SeqNos /\ Offset(Add(s.seqno, m)) = Start(s) + m
    BY <1>2, <2>1, OffsetAdd
  <2> QED BY <2>1, <2>2 DEF m
<1> HIDE DEF lo, hi
<1>7. In <=> Start(s) + 1 <= Nxt(r) /\ Nxt(r) <= End(s) - 1
  <2>1. Offset(lo) < SEQ \div 2 /\ Offset(hi) < SEQ \div 2 /\ Offset(r.rcv_nxt) < SEQ \div 2
    BY <1>1, <1>2, <1>3, <1>5, <1>6
  <2>2. TCP_SEQ_GEQ(r.rcv_nxt, lo) <=> Offset(lo) <= Offset(r.rcv_nxt)
    BY <1>1, <1>5, <2>1, Compare
  <2>3. TCP_SEQ_LEQ(r.rcv_nxt, hi) <=> Offset(r.rcv_nxt) <= Offset(hi)
    BY <1>1, <1>6, <2>1, Compare
  <2> QED BY <1>1, <1>5, <1>6, <2>2, <2>3 DEF TCP_SEQ_BETWEEN
<1>8. t = IF In THEN [s EXCEPT !.seqno = r.rcv_nxt, !.p = SubSeq(s.p, n + 1, Len(s.p))] ELSE s
  BY DEF TrimFront, lo, hi, Segment
<1> HIDE DEF In, t
<1>9. CASE In
  <2>1. Start(s) + 1 <= Nxt(r) /\ Nxt(r) <= End(s) - 1
    BY <1>7, <1>9
  <2>2. n = Nxt(r) - Start(s)
    <3>1. Offset(s.seqno) <= Offset(r.rcv_nxt)
      BY <1>1, <1>2, <2>1
    <3> QED BY <1>1, <1>2, <3>1, DiffOffset
  <2> HIDE DEF n
  <2>3. n \in Nat /\ 1 <= n /\ n <= Length(s) /\ (n < Length(s) \/ s.fin) /\ Start(s) + n = Nxt(r)
    BY <1>1, <1>2, <2>1, <2>2
  <2> DEFINE rest == [s EXCEPT !.seqno = Add(s.seqno, n), !.p = SubSeq(s.p, n + 1, Len(s.p))]
  <2>4. /\ rest \in Segment /\ Sane(rest) /\ rest.fin = s.fin
        /\ Start(rest) = Start(s) + n /\ Stop(rest) = Stop(s)
    BY <2>3, CutFacts
  <2>5. Add(s.seqno, n) = r.rcv_nxt
    <3>1. Offset(s.seqno) + n < SEQ
      BY <1>1, <1>2, <1>3, <2>3
    <3>2. Add(s.seqno, n) \in SeqNos /\ Offset(Add(s.seqno, n)) = Nxt(r)
      BY <1>2, <2>3, <3>1, OffsetAdd
    <3> QED BY <1>1, <3>2, OffsetInjective
  <2>6. t = rest
    BY <1>8, <1>9, <2>5
  <2> HIDE DEF rest
  <2>7. End(rest) = End(s)
    BY <2>4 DEF End
  <2>8. Start(s) + 1 < End(s)
    BY <1>1, <1>2, <2>1
  <2> QED BY <2>3, <2>4, <2>6, <2>7, <2>8 DEF t
<1>10. CASE ~In
  BY <1>8, <1>10 DEF t
<1> QED BY <1>9, <1>10

\* A segment is in the window when it starts there.
LEMMA InWindowMeans ==
  ASSUME NEW r, Base(r), NEW s \in Segment, Sane(s)
  PROVE  InWindow(r, s) <=> Nxt(r) <= Start(s) /\ Start(s) < Right(r)
<1> DEFINE x == NewRightEdge(r)
           y == Add(x, -1)
<1>1. r \in Rcv /\ Nxt(r) <= StreamLen + 1 /\ TCP_WND <= Right(r)
  BY DEF Base, Window
<1>2. /\ r.rcv_nxt \in SeqNos /\ Nxt(r) \in Nat /\ Right(r) \in Nat /\ Offset(r.rcv_nxt) = Nxt(r)
  BY <1>1, RcvFacts DEF Nxt
<1>3. x \in SeqNos /\ Offset(x) = Right(r) /\ Right(r) < SEQ \div 2 /\ Nxt(r) < SEQ \div 2
  BY <1>1, RightEdge
<1>4. s.seqno \in SeqNos /\ Offset(s.seqno) = Start(s) /\ Start(s) < SEQ \div 2 /\ Start(s) \in Nat
  BY SegmentRange, SegmentFacts
<1> HIDE DEF x
<1>5. Offset(x) >= 1
  BY <1>1, <1>2, <1>3, Bounds
<1>6. y \in SeqNos /\ Offset(y) = Right(r) - 1
  BY <1>3, <1>5, OffsetBack
<1> HIDE DEF y
<1>7. Offset(y) < SEQ \div 2
  BY <1>2, <1>3, <1>6, SeqBounds
<1>8. TCP_SEQ_GEQ(s.seqno, r.rcv_nxt) <=> Nxt(r) <= Start(s)
  BY <1>2, <1>3, <1>4, Compare
<1>9. TCP_SEQ_LEQ(s.seqno, y) <=> Start(s) <= Right(r) - 1
  BY <1>4, <1>6, <1>7, Compare
<1>10. InWindow(r, s) <=> TCP_SEQ_GEQ(s.seqno, r.rcv_nxt) /\ TCP_SEQ_LEQ(s.seqno, y)
  BY DEF InWindow, TCP_SEQ_BETWEEN, x, y
<1> QED BY <1>2, <1>4, <1>8, <1>9, <1>10

\* What tcp_receive returns: bytes in sequence, or nothing.  The window does not
\* move back, and what the peer knows is not ahead.
Returned(r, g) ==
  /\ Base(g.r) /\ g.r.fin = r.fin /\ Edge(r) <= Edge(g.r)
  /\ \/ ~r.fin /\ Took(r, g)
     \/ g.out = <<>> /\ g.fin = FALSE /\ g.r.rcv_wnd = r.rcv_wnd /\ Nxt(g.r) = Nxt(r) /\ Right(g.r) = Right(r)

\* A segment that the peer may send: it ends in the window, or is a probe.
Fair(r, s) ==
  /\ s \in Segment /\ Sane(s) /\ (s.fin => Stop(s) = StreamLen)
  /\ End(s) <= Right(r) \/ End(s) = Start(s) + 1

\* A segment is sorted in, and the ACK that it causes.
LEMMA SortFacts ==
  ASSUME NEW r, Base(r), NEW p, NEW lost \in Nat, AckInv(r, p, lost), NEW s,
         TCP_TCPLEN(s) > 0 => Fair(r, s),
         NEW nomem \in BOOLEAN, NEW outcome \in Outcomes,
         outcome # "arrived" => AcksAtOnce(r, s)
  PROVE  LET g == Sort(r, s, TrimFront(r, s), nomem, outcome)
             h == IF AcksAtOnce(r, s) /\ outcome = "arrived" THEN PeerHears(p, r) ELSE p
         IN Returned(r, g) /\ AckInv(g.r, h, lost + One(outcome # "arrived"))
<1> DEFINE t == TrimFront(r, s)
           g == Sort(r, s, t, nomem, outcome)
           h == IF AcksAtOnce(r, s) /\ outcome = "arrived" THEN PeerHears(p, r) ELSE p
           l == lost + One(outcome # "arrived")
<1>1. /\ r \in Rcv /\ Told(r, p) /\ Nxt(r) \in Nat /\ Right(r) \in Nat /\ Edge(r) \in Nat /\ r.rcv_nxt \in SeqNos
      /\ Nxt(r) = Offset(r.rcv_nxt) /\ r.fin \in BOOLEAN
  BY RcvFacts DEF Base, AckInv, Nxt
<1>2. outcome = "arrived" => l = lost
  BY DEF One
<1>3. outcome # "arrived" => l = lost + 1
  BY DEF One
<1>4. AcksAtOnce(r, s) <=> HasContent(r, s) /\ ~(InWindow(r, t) /\ t.seqno = r.rcv_nxt)
  BY DEF AcksAtOnce
<1>5. HasContent(r, s) => ~r.fin /\ Fair(r, s)
  BY DEF HasContent
<1> HIDE DEF l, t
\* Without an ACK.
<1>6. ASSUME ~AcksAtOnce(r, s), Base(g.r), g.r.fin = r.fin, Nxt(r) <= Nxt(g.r), Right(g.r) = Right(r), Edge(g.r) = Edge(r),
             Nxt(r) < Nxt(g.r) \/ r.ackDelay \/ r.ackNow => g.r.ackDelay \/ g.r.ackNow
      PROVE  AckInv(g.r, h, l)
  <2>1. h = p /\ l = lost
    BY <1>2, <1>6
  <2> HIDE DEF g, h
  <2>2. Nxt(g.r) \in Nat
    BY <1>6, RcvFacts DEF Base
  <2>3. p \in Peers /\ p.una <= Nxt(r) /\ p.edge <= Edge(r) /\ p.una \in Nat
    BY <1>1 DEF Told, Peers
  <2>4. Told(g.r, p)
    BY <1>1, <1>6, <2>2, <2>3 DEF Told
  <2>5. lost = 0 => Close(g.r, p)
    BY <1>6 DEF AckInv, Close
  <2>6. lost = 0 /\ p.una < Nxt(g.r) => g.r.ackDelay \/ g.r.ackNow
    <3> SUFFICES ASSUME lost = 0, p.una < Nxt(g.r) PROVE g.r.ackDelay \/ g.r.ackNow
      OBVIOUS
    <3>1. CASE p.una < Nxt(r)
      <4>1. r.ackDelay \/ r.ackNow
        BY <3>1 DEF AckInv
      <4> QED BY <1>6, <4>1
    <3>2. CASE ~(p.una < Nxt(r))
      <4>1. Nxt(r) < Nxt(g.r)
        BY <1>1, <2>2, <2>3, <3>2
      <4> QED BY <1>6, <4>1
    <3> QED BY <3>1, <3>2
  <2> QED BY <2>1, <2>4, <2>5, <2>6 DEF AckInv
\* With one; x is what the ACK is sent for.
<1>7. ASSUME AcksAtOnce(r, s), NEW x, Base(x), x.fin = r.fin, x.rcv_nxt = r.rcv_nxt, x.rcv_wnd = r.rcv_wnd,
             x.rcv_ann_wnd = r.rcv_ann_wnd, Edge(x) = Edge(r), g = Ignored(tcp_send_empty_ack(x, outcome))
      PROVE  Returned(r, g) /\ AckInv(g.r, h, l)
  <2> DEFINE a == tcp_send_empty_ack(x, outcome)
  <2>1. g.r = a /\ g.out = <<>> /\ g.fin = FALSE
    BY <1>7 DEF Ignored
  <2>2. Nxt(x) = Nxt(r) /\ Right(x) = Right(r) /\ PeerHears(p, x) = PeerHears(p, r)
    BY <1>7 DEF Nxt, Right, PeerHears
  <2>3. Told(x, p)
    BY <1>1, <1>7, <2>2 DEF Told
  <2>4. /\ Base(a) /\ Nxt(a) = Nxt(x) /\ Right(a) = Right(x) /\ Edge(x) <= Edge(a)
        /\ a.rcv_wnd = x.rcv_wnd /\ a.fin = x.fin
    BY <1>7, AckSent
  <2>5. /\ outcome = "arrived" => AckInv(a, PeerHears(p, x), lost)
        /\ AckInv(a, p, lost + 1)
    BY <1>7, <2>3, AckKeeps
  <2> HIDE DEF a, g
  <2>6. AckInv(a, h, l)
    <3>1. CASE outcome = "arrived"
      BY <1>2, <1>7, <2>2, <2>5, <3>1
    <3>2. CASE outcome # "arrived"
      BY <1>3, <2>5, <3>2
    <3> QED BY <3>1, <3>2
  <2>7. Returned(r, g)
    BY <1>7, <2>1, <2>2, <2>4 DEF Returned
  <2> QED BY <2>1, <2>6, <2>7
<1>8. CASE ~HasContent(r, s)
  <2> DEFINE a == IF InWindow(r, s) THEN r ELSE tcp_ack_now(r)
  <2>1. g = Ignored(a)
    BY <1>8 DEF Sort
  <2>2. Alike(a, r) /\ (r.ackDelay \/ r.ackNow => a.ackDelay \/ a.ackNow)
    <3>1. CASE InWindow(r, s)
      BY <1>1, <3>1, FlagFacts
    <3>2. CASE ~InWindow(r, s)
      BY <1>1, <3>2, FlagFacts
    <3> QED BY <3>1, <3>2
  <2> HIDE DEF a
  <2>3. g.r = a /\ g.out = <<>> /\ g.fin = FALSE
    BY <2>1 DEF Ignored
  <2>4. Base(a) /\ Nxt(a) = Nxt(r) /\ Right(a) = Right(r) /\ Edge(a) = Edge(r) /\ a.fin = r.fin /\ a.rcv_wnd = r.rcv_wnd
    BY <2>2, AlikeFacts
  <2>5. ~AcksAtOnce(r, s)
    BY <1>4, <1>8
  <2>6. /\ Nxt(r) <= Nxt(a) /\ Edge(r) <= Edge(a)
        /\ Nxt(r) < Nxt(a) \/ r.ackDelay \/ r.ackNow => a.ackDelay \/ a.ackNow
    BY <1>1, <2>2, <2>4
  <2>7. AckInv(g.r, h, l)
    BY <1>6, <2>3, <2>4, <2>5, <2>6
  <2> HIDE DEF g
  <2>8. Returned(r, g)
    BY <2>3, <2>4, <2>6 DEF Returned
  <2> QED BY <2>7, <2>8 DEF g, h, l, t
<1>9. CASE HasContent(r, s)
  <2>1. Fair(r, s) /\ ~r.fin
    BY <1>5, <1>9
  <2>2. s \in Segment /\ Sane(s) /\ (s.fin => Stop(s) = StreamLen) /\ (End(s) <= Right(r) \/ End(s) = Start(s) + 1)
    BY <2>1 DEF Fair
  <2>3. /\ t \in Segment /\ Sane(t) /\ t.fin = s.fin /\ Stop(t) = Stop(s) /\ End(t) = End(s)
        /\ t = s \/ (Start(t) = Nxt(r) /\ Start(s) + 1 < End(s))
    BY <2>2, TrimFacts DEF t
  <2>4. InWindow(r, t) <=> Nxt(r) <= Start(t) /\ Start(t) < Right(r)
    BY <2>3, InWindowMeans
  <2>5. ASSUME InWindow(r, t) PROVE End(t) <= Right(r)
    <3>1. Start(s) \in Nat /\ End(s) \in Nat /\ Start(t) \in Nat
      BY <2>2, <2>3, SegmentFacts
    <3>2. CASE End(s) <= Right(r)
      BY <2>3, <3>2
    <3>3. CASE End(s) = Start(s) + 1
      <4>1. ~(Start(s) + 1 < End(s))
        BY <3>1, <3>3
      <4>2. t = s
        BY <2>3, <4>1
      <4>3. Start(s) < Right(r)
        BY <2>4, <2>5, <4>2
      <4> QED BY <1>1, <2>3, <3>1, <3>3, <4>3
    <3> QED BY <2>2, <3>2, <3>3
  <2>6. t.fin => Stop(t) = StreamLen
    BY <2>2, <2>3
  <2>7. t.seqno \in SeqNos /\ Offset(t.seqno) = Start(t) /\ Start(t) \in Nat
    BY <2>3, SegmentRange, SegmentFacts
  <2>8. CASE ~InWindow(r, t)
    <3>1. g = Ignored(tcp_send_empty_ack(r, outcome))
      BY <1>9, <2>8 DEF Sort
    <3>2. AcksAtOnce(r, s)
      BY <1>4, <1>9, <2>8
    <3>3. Returned(r, g) /\ AckInv(g.r, h, l)
      BY <1>7, <3>1, <3>2
    <3> QED BY <3>3 DEF g, h, l, t
  <2>9. CASE InWindow(r, t) /\ t.seqno = r.rcv_nxt
    <3>1. g = InSequence(r, t)
      BY <1>9, <2>9 DEF Sort
    <3>2. Start(t) = Nxt(r)
      BY <1>1, <2>7, <2>9
    <3>3. ~AcksAtOnce(r, s)
      BY <1>4, <2>9
    <3> DEFINE i == InSequence(r, t)
    <3>4. Base(i.r) /\ i.r.fin = r.fin /\ Took(r, i)
      BY <2>3, <2>5, <2>6, <2>9, <3>2, InSequenceFacts
    <3>5. Base(g.r) /\ g.r.fin = r.fin /\ Took(r, g)
      BY <3>1, <3>4
    <3> HIDE DEF i, g
    <3>6. Nxt(r) < Nxt(g.r) /\ Right(g.r) = Right(r) /\ Edge(g.r) = Edge(r) /\ (g.r.ackDelay \/ g.r.ackNow)
      BY <3>5 DEF Took
    <3>7. Nxt(g.r) \in Nat
      BY <3>5, RcvFacts DEF Base
    <3>8. Nxt(r) <= Nxt(g.r) /\ Edge(r) <= Edge(g.r)
      BY <1>1, <3>6, <3>7
    <3>9. AckInv(g.r, h, l)
      BY <1>6, <3>3, <3>5, <3>6, <3>8
    <3>10. Returned(r, g)
      BY <2>1, <3>5, <3>8 DEF Returned
    <3> QED BY <3>9, <3>10 DEF g, h, l, t
  <2>10. CASE InWindow(r, t) /\ t.seqno # r.rcv_nxt
    <3> DEFINE q == IF nomem THEN r.ooseq ELSE Enqueue(r, t)
               x == [r EXCEPT !.ooseq = q]
    <3>1. g = Ignored(tcp_send_empty_ack(x, outcome))
      BY <1>9, <2>10 DEF Sort
    <3>2. AcksAtOnce(r, s)
      BY <1>4, <1>9, <2>10
    <3>3. Nxt(r) < Start(t)
      <4>1. Nxt(r) # Start(t)
        BY <1>1, <2>7, <2>10, OffsetInjective
      <4> QED BY <1>1, <2>4, <2>7, <2>10, <4>1
    <3>4. q \in Seq(Segment) /\ Sorted(q, Nxt(r), Right(r))
      <4>1. r.ooseq \in Seq(Segment) /\ Sorted(r.ooseq, Nxt(r), Right(r))
        BY RcvFacts DEF Base
      <4>2. Enqueue(r, t) \in Seq(Segment) /\ Sorted(Enqueue(r, t), Nxt(r), Right(r))
        BY <2>3, <2>5, <2>6, <2>10, <3>3, EnqueueFacts
      <4> QED BY <4>1, <4>2
    <3> HIDE DEF q
    <3>5. /\ x \in Rcv /\ x.rcv_nxt = r.rcv_nxt /\ x.rcv_wnd = r.rcv_wnd /\ x.rcv_ann_wnd = r.rcv_ann_wnd
          /\ x.rcv_ann_right_edge = r.rcv_ann_right_edge /\ x.ooseq = q /\ x.fin = r.fin
      BY <1>1, <3>4 DEF Rcv
    <3> HIDE DEF x
    <3>6. Nxt(x) = Nxt(r) /\ Right(x) = Right(r) /\ Edge(x) = Edge(r)
      BY <3>5 DEF Nxt, Right, Edge
    <3>7. Base(x)
      <4>1. Window(x)
        BY <3>5, <3>6 DEF Base, Window
      <4> QED BY <3>4, <3>5, <3>6, <4>1 DEF Base
    <3>8. Returned(r, g) /\ AckInv(g.r, h, l)
      BY <1>7, <3>1, <3>2, <3>5, <3>6, <3>7
    <3> QED BY <3>8 DEF g, h, l, t
  <2> QED BY <2>8, <2>9, <2>10
<1> QED BY <1>8, <1>9

-----------------------------------------------------------------------------
(* tcp_input.                                                              *)

\* A queue stays sorted when the window grows.
LEMMA SortedWider ==
  ASSUME NEW q \in Seq(Segment), NEW lo \in Nat, NEW hi \in Nat, Sorted(q, lo, hi), NEW n \in Nat
  PROVE  Sorted(q, lo, hi + n)
<1>1. ASSUME NEW i \in 1 .. Len(q) PROVE End(q[i]) <= hi + n
  <2>1. q[i] \in Segment
    OBVIOUS
  <2>2. End(q[i]) \in Nat
    BY <2>1, SegmentFacts
  <2>3. End(q[i]) <= hi
    BY DEF Sorted
  <2> QED BY <2>2, <2>3
<1> QED BY <1>1 DEF Sorted

\* The FIN is taken.
LEMMA FinFacts ==
  ASSUME NEW r, Base(r), r.rcv_wnd < TCP_WND
  PROVE  LET v == GotFin(r) IN
         /\ Base(v) /\ Nxt(v) = Nxt(r) /\ Edge(v) = Edge(r) /\ v.fin = TRUE /\ v.ackNow = TRUE
         /\ v.rcv_wnd = r.rcv_wnd + 1
<1> DEFINE v == GotFin(r)
           w == r.rcv_wnd + 1
<1>1. /\ r \in Rcv /\ r.rcv_wnd \in Nat /\ r.rcv_ann_wnd \in Nat /\ r.rcv_wnd # TCP_WND
      /\ Nxt(r) \in Nat /\ Right(r) = Nxt(r) + r.rcv_wnd /\ r.ooseq \in Seq(Segment)
  BY RcvFacts, Bounds DEF Base
<1>2. w \in 0 .. TCP_WND
  BY <1>1, Bounds
<1>3. v = [r EXCEPT !.fin = TRUE, !.rcv_wnd = w, !.ackNow = TRUE]
  BY <1>1 DEF GotFin, tcp_ack_now, Rcv
<1> HIDE DEF v, w
<1>4. /\ v \in Rcv /\ v.rcv_nxt = r.rcv_nxt /\ v.rcv_ann_wnd = r.rcv_ann_wnd
      /\ v.rcv_ann_right_edge = r.rcv_ann_right_edge /\ v.ooseq = r.ooseq /\ v.rcv_wnd = w
      /\ v.fin = TRUE /\ v.ackNow = TRUE
  BY <1>1, <1>2, <1>3 DEF Rcv
<1>5. Nxt(v) = Nxt(r) /\ Edge(v) = Edge(r) /\ Right(v) = Right(r) + 1
  <2>1. Nxt(v) = Nxt(r) /\ Edge(v) = Edge(r) /\ Right(v) = Nxt(r) + w
    BY <1>4 DEF Nxt, Edge, Right
  <2> QED BY <1>1, <2>1 DEF w
<1>6. Window(v)
  <2>1. /\ Nxt(r) <= StreamLen + 1 /\ TCP_WND <= Right(r) /\ Edge(r) <= Nxt(r) + r.rcv_ann_wnd
        /\ r.rcv_ann_wnd <= r.rcv_wnd
    BY DEF Base, Window
  <2>2. TCP_WND <= Right(v) /\ v.rcv_ann_wnd <= v.rcv_wnd
    BY <1>1, <1>4, <1>5, <2>1, Bounds DEF w
  <2> QED BY <1>4, <1>5, <2>1, <2>2 DEF Window
<1>7. Sorted(v.ooseq, Nxt(v), Right(v))
  <2>1. Sorted(r.ooseq, Nxt(r), Right(r))
    BY DEF Base
  <2>2. Right(r) \in Nat
    BY <1>1
  <2>3. Sorted(r.ooseq, Nxt(r), Right(r) + 1)
    BY <1>1, <2>1, <2>2, SortedWider
  <2> QED BY <1>4, <1>5, <2>3
<1> QED BY <1>4, <1>5, <1>6, <1>7 DEF Base, v, w

\* What a segment comes to: bytes in sequence and the FIN, or nothing.
Came(r, out, y) ==
  \/ /\ ~r.fin
     /\ \E b \in Nat : /\ Nxt(r) <= b /\ b <= StreamLen /\ out = Stretch(Nxt(r), b)
                       /\ Nxt(y) = b + One(y.fin) /\ (y.fin => b = StreamLen) /\ Nxt(y) <= Right(r)
                       /\ y.rcv_wnd = r.rcv_wnd - (b - Nxt(r))
  \/ out = <<>> /\ y.fin = r.fin /\ y.rcv_wnd = r.rcv_wnd /\ Nxt(y) = Nxt(r)

\* What tcp_receive returned is taken into the pcb, the FIN included.
LEMMA TakenFacts ==
  ASSUME NEW r, Base(r), NEW g, Returned(r, g), NEW p, NEW lost \in Nat, AckInv(g.r, p, lost)
  PROVE  LET v == IF g.fin THEN GotFin(g.r) ELSE g.r IN
         Base(v) /\ Edge(r) <= Edge(v) /\ AckInv(v, p, lost) /\ Came(r, g.out, v)
<1> DEFINE v == IF g.fin THEN GotFin(g.r) ELSE g.r
           y == g.r
<1>1. /\ Base(y) /\ y.fin = r.fin /\ Edge(r) <= Edge(y)
      /\ r.rcv_wnd \in Nat /\ r.rcv_wnd <= TCP_WND /\ Nxt(r) \in Nat /\ Right(r) = Nxt(r) + r.rcv_wnd
      /\ y.rcv_wnd \in Nat /\ Nxt(y) \in Nat /\ Right(y) = Nxt(y) + y.rcv_wnd /\ r.fin \in BOOLEAN
  BY RcvFacts DEF Returned, Base
<1>2. CASE ~r.fin /\ Took(r, g)
  <2>1. PICK b \in Nat :
          /\ Nxt(r) <= b /\ b <= StreamLen /\ g.out = Stretch(Nxt(r), b)
          /\ g.fin \in BOOLEAN /\ (g.fin => b = StreamLen)
          /\ Nxt(y) = b + One(g.fin) /\ Nxt(r) < Nxt(y) /\ Right(y) = Right(r)
          /\ Edge(y) = Edge(r) /\ (y.ackDelay \/ y.ackNow)
    BY <1>2 DEF Took
  <2>2. CASE g.fin
    <3> DEFINE z == GotFin(y)
    <3>1. Nxt(y) = b + 1 /\ b = StreamLen
      BY <2>1, <2>2 DEF One
    <3>2. y.rcv_wnd < TCP_WND
      BY <1>1, <2>1, Bounds
    <3>3. /\ Base(z) /\ Nxt(z) = Nxt(y) /\ Edge(z) = Edge(y) /\ z.fin = TRUE /\ z.ackNow = TRUE
          /\ z.rcv_wnd = y.rcv_wnd + 1
      BY <1>1, <3>2, FinFacts
    <3>4. v = z
      BY <2>2
    <3> HIDE DEF v, z
    <3>5. AckInv(v, p, lost)
      <4>1. Told(y, p) /\ (lost = 0 => Close(y, p))
        BY DEF AckInv
      <4>2. Told(v, p) /\ (lost = 0 => Close(v, p))
        BY <3>3, <3>4, <4>1 DEF Told, Close
      <4> QED BY <3>3, <3>4, <4>2 DEF AckInv
    <3>6. v.rcv_wnd = r.rcv_wnd - (b - Nxt(r)) /\ Nxt(v) = b + One(v.fin) /\ Nxt(v) <= Right(r)
      <4>1. One(v.fin) = 1
        BY <3>3, <3>4 DEF One
      <4> QED BY <1>1, <2>1, <3>1, <3>3, <3>4, <4>1
    <3>7. Came(r, g.out, v)
      BY <1>2, <2>1, <3>1, <3>6 DEF Came
    <3> QED BY <1>1, <3>3, <3>4, <3>5, <3>7 DEF v
  <2>3. CASE ~g.fin
    <3>1. v = y /\ v.fin = FALSE
      BY <1>1, <1>2, <2>3
    <3>2. One(v.fin) = 0 /\ One(g.fin) = 0
      BY <2>3, <3>1 DEF One
    <3> HIDE DEF v
    <3>3. v.rcv_wnd = r.rcv_wnd - (b - Nxt(r)) /\ Nxt(v) = b + One(v.fin) /\ Nxt(v) <= Right(r)
      BY <1>1, <2>1, <3>1, <3>2
    <3>4. Came(r, g.out, v)
      BY <1>2, <2>1, <3>1, <3>3 DEF Came
    <3> QED BY <1>1, <3>1, <3>4 DEF v
  <2> QED BY <2>2, <2>3
<1>3. CASE g.out = <<>> /\ g.fin = FALSE /\ g.r.rcv_wnd = r.rcv_wnd /\ Nxt(g.r) = Nxt(r) /\ Right(g.r) = Right(r)
  <2>1. v = y
    BY <1>3
  <2>2. Came(r, g.out, y)
    BY <1>1, <1>3 DEF Came
  <2> QED BY <1>1, <2>1, <2>2
<1> QED BY <1>2, <1>3 DEF Returned

\* tcp_output, with the ACK that is due.
LEMMA OutputFacts ==
  ASSUME NEW r, Base(r), NEW p, NEW lost \in Nat, AckInv(r, p, lost), NEW outcome \in Outcomes,
         outcome # "arrived" => r.ackNow
  PROVE  LET a == tcp_output(r, outcome)
             h == IF r.ackNow /\ outcome = "arrived" THEN PeerHears(p, r) ELSE p
         IN /\ Base(a) /\ Nxt(a) = Nxt(r) /\ Edge(r) <= Edge(a) /\ a.fin = r.fin /\ a.rcv_wnd = r.rcv_wnd
            /\ AckInv(a, h, lost + One(outcome # "arrived"))
            /\ r.ackNow /\ lost + One(outcome # "arrived") = 0 => h.una = Nxt(a)
<1> DEFINE a == tcp_output(r, outcome)
           h == IF r.ackNow /\ outcome = "arrived" THEN PeerHears(p, r) ELSE p
           l == lost + One(outcome # "arrived")
<1>1. outcome = "arrived" => l = lost
  BY DEF One
<1>2. outcome # "arrived" => l = lost + 1
  BY DEF One
<1>3. r \in Rcv /\ Edge(r) \in Nat /\ r.ackNow \in BOOLEAN /\ Told(r, p)
  BY RcvFacts DEF Base, AckInv
<1> HIDE DEF l
<1>4. CASE ~r.ackNow
  <2>1. a = r /\ h = p /\ outcome = "arrived"
    BY <1>4 DEF tcp_output
  <2>2. AckInv(a, h, l) /\ Edge(r) <= Edge(a)
    BY <1>1, <1>3, <2>1
  <2> QED BY <1>4, <2>1, <2>2 DEF l
<1>5. CASE r.ackNow
  <2> DEFINE e == tcp_send_empty_ack(r, outcome)
  <2>1. a = e /\ h = IF outcome = "arrived" THEN PeerHears(p, r) ELSE p
    BY <1>5 DEF tcp_output
  <2>2. Base(e) /\ Nxt(e) = Nxt(r) /\ Edge(r) <= Edge(e) /\ e.rcv_wnd = r.rcv_wnd /\ e.fin = r.fin
    BY AckSent
  <2>3. /\ outcome = "arrived" => AckInv(e, PeerHears(p, r), lost) /\ PeerHears(p, r).una = Nxt(e)
        /\ AckInv(e, p, lost + 1)
    BY <1>3, AckKeeps
  <2> HIDE DEF e, a, h
  <2>4. AckInv(a, h, l) /\ (l = 0 => h.una = Nxt(a))
    <3>1. CASE outcome = "arrived"
      BY <1>1, <2>1, <2>3, <3>1
    <3>2. CASE outcome # "arrived"
      BY <1>2, <2>1, <2>3, <3>2
    <3> QED BY <3>1, <3>2
  <2> QED BY <2>1, <2>2, <2>4 DEF a, h, l
<1> QED BY <1>3, <1>4, <1>5

\* tcp_input, but for the segment's effect on the stream.
LEMMA FinishFacts ==
  ASSUME NEW r, Base(r), NEW g, Returned(r, g), NEW p, NEW lost \in Nat, AckInv(g.r, p, lost),
         NEW outcome \in Outcomes,
         outcome # "arrived" => Finish(g, p, outcome).acks
  PROVE  LET x == Finish(g, p, outcome) IN
         /\ Base(x.rcv) /\ Edge(r) <= Edge(x.rcv) /\ Came(r, x.out, x.rcv)
         /\ AckInv(x.rcv, x.peer, lost + One(outcome # "arrived"))
<1> DEFINE x == Finish(g, p, outcome)
           v == IF g.fin THEN GotFin(g.r) ELSE g.r
           h == IF v.ackNow /\ outcome = "arrived" THEN PeerHears(p, v) ELSE p
           a == tcp_output(v, outcome)
<1>1. x.rcv = a /\ x.out = g.out /\ x.acks = v.ackNow /\ x.peer = h
  BY DEF Finish
<1>2. Base(v) /\ Edge(r) <= Edge(v) /\ AckInv(v, p, lost) /\ Came(r, g.out, v)
  BY TakenFacts
<1> HIDE DEF v, x
<1>3. outcome # "arrived" => v.ackNow
  BY <1>1 DEF x
<1>4. /\ Base(a) /\ Nxt(a) = Nxt(v) /\ Edge(v) <= Edge(a) /\ a.fin = v.fin /\ a.rcv_wnd = v.rcv_wnd
      /\ AckInv(a, h, lost + One(outcome # "arrived"))
  BY <1>2, <1>3, OutputFacts
<1> HIDE DEF a, h
<1>5. Edge(r) \in Nat /\ Edge(v) \in Nat /\ Edge(a) \in Nat
  BY <1>2, <1>4, RcvFacts DEF Base
<1>6. Edge(r) <= Edge(a)
  BY <1>2, <1>4, <1>5
<1>7. Came(r, x.out, a)
  BY <1>1, <1>2, <1>4 DEF Came
<1> QED BY <1>1, <1>4, <1>6, <1>7 DEF x

\* What a segment makes of the receive side, and of what the peer knows.
LEMMA InputFacts ==
  ASSUME Base(rcv), ackLost \in Nat, AckInv(rcv, peer, ackLost), NEW s,
         TCP_TCPLEN(s) > 0 => Fair(rcv, s),
         NEW nomem \in BOOLEAN, NEW o1 \in Outcomes, NEW o2 \in Outcomes,
         o1 # "arrived" => AcksAtOnce(rcv, s),
         o2 # "arrived" => tcp_input(s, nomem, o1, o2).acks
  PROVE  LET x == tcp_input(s, nomem, o1, o2) IN
         /\ Base(x.rcv) /\ Edge(rcv) <= Edge(x.rcv) /\ Came(rcv, x.out, x.rcv)
         /\ AckInv(x.rcv, x.peer, ackLost + One(o1 # "arrived") + One(o2 # "arrived"))
<1> DEFINE t == TrimFront(rcv, s)
           g == Sort(rcv, s, t, nomem, o1)
           h == IF AcksAtOnce(rcv, s) /\ o1 = "arrived" THEN PeerHears(peer, rcv) ELSE peer
           x == Finish(g, h, o2)
           l == ackLost + One(o1 # "arrived")
<1>1. tcp_receive(rcv, s, nomem, o1) = g
  <2>1. {Sort(rcv, s, z, nomem, o1) : z \in {t}} = {g}
    OBVIOUS
  <2>2. tcp_receive(rcv, s, nomem, o1) = CHOOSE y \in {Sort(rcv, s, z, nomem, o1) : z \in {t}} : TRUE
    BY DEF tcp_receive, With
  <2> QED BY <2>1, <2>2, Single
<1>2. tcp_input(s, nomem, o1, o2) = x
  <2>1. {Finish(z, h, o2) : z \in {g}} = {x}
    OBVIOUS
  <2>2. tcp_input(s, nomem, o1, o2) = CHOOSE y \in {Finish(z, h, o2) : z \in {g}} : TRUE
    BY <1>1 DEF tcp_input, With
  <2> QED BY <2>1, <2>2, Single
<1>3. Returned(rcv, g) /\ AckInv(g.r, h, l)
  BY SortFacts
<1>4. l \in Nat
  BY DEF One
<1> HIDE DEF t, g, h, l
<1>5. o2 # "arrived" => x.acks
  BY <1>2
<1>6. /\ Base(x.rcv) /\ Edge(rcv) <= Edge(x.rcv) /\ Came(rcv, x.out, x.rcv)
      /\ AckInv(x.rcv, x.peer, l + One(o2 # "arrived"))
  BY <1>3, <1>4, <1>5, FinishFacts
<1> HIDE DEF x
<1> QED BY <1>2, <1>6 DEF l

\* What the peer sends within the window it was told of, and its probes.
LEMMA PeerFair ==
  ASSUME Base(rcv), Told(rcv, peer), NEW off \in 0 .. StreamLen, NEW n \in Nat, NEW fin \in BOOLEAN,
         MaySend(off, n, fin)
  PROVE  TCP_TCPLEN(PeerSegment(off, n, fin)) > 0 => Fair(rcv, PeerSegment(off, n, fin))
<1> DEFINE x == SeqNo(off)
           s == SegmentAt(x, off, n, fin)
<1>1. off \in Nat /\ off < SEQ /\ StreamLen \in Nat
  BY SeqBounds
<1>2. x \in SeqNos /\ Offset(x) = off
  BY <1>1, OffsetISS DEF SeqNo
<1>3. /\ off + n <= StreamLen /\ (fin => off + n = StreamLen)
      /\ off + n + One(fin) <= peer.edge \/ n + One(fin) = 1
  BY DEF MaySend
<1>4. PeerSegment(off, n, fin) = s
  BY DEF PeerSegment
<1>5. TCP_TCPLEN(s) = n + One(fin)
  <2> DEFINE f == [i \in 1 .. n |-> off + i - 1]
  <2>1. f \in Seq(Int) /\ Len(f) = n
    BY <1>1
  <2>2. s.p = f /\ s.fin = fin
    BY DEF SegmentAt
  <2> HIDE DEF f, s
  <2> QED BY <2>1, <2>2 DEF TCP_TCPLEN
<1> HIDE DEF x
<1>6. ASSUME TCP_TCPLEN(s) > 0 PROVE Fair(rcv, s)
  <2>1. n > 0 \/ fin
    <3>1. ~fin => One(fin) = 0
      BY DEF One
    <3> QED BY <1>5, <1>6, <3>1
  <2>2. s \in Segment /\ Sane(s) /\ Start(s) = off /\ Length(s) = n /\ s.fin = fin
    BY <1>2, <1>3, <2>1, NewSegment
  <2> HIDE DEF s
  <2>3. Stop(s) = off + n /\ End(s) = off + n + One(fin)
    BY <2>2 DEF Stop, End
  <2>4. /\ peer.edge \in Nat /\ peer.edge <= Edge(rcv) /\ Edge(rcv) \in Nat /\ Right(rcv) = Nxt(rcv) + rcv.rcv_wnd
        /\ Edge(rcv) <= Nxt(rcv) + rcv.rcv_ann_wnd /\ rcv.rcv_ann_wnd <= rcv.rcv_wnd
        /\ Nxt(rcv) \in Nat /\ rcv.rcv_wnd \in Nat /\ rcv.rcv_ann_wnd \in Nat
    BY RcvFacts DEF Base, Window, Told, Peers
  <2>5. One(fin) \in Nat
    BY DEF One
  <2>6. End(s) <= Right(rcv) \/ End(s) = Start(s) + 1
    <3>1. CASE off + n + One(fin) <= peer.edge
      BY <1>1, <2>3, <2>4, <2>5, <3>1
    <3>2. CASE n + One(fin) = 1
      BY <1>1, <2>2, <2>3, <2>5, <3>2
    <3> QED BY <1>3, <3>1, <3>2
  <2> QED BY <1>3, <2>2, <2>3, <2>6 DEF Fair
<1> QED BY <1>4, <1>6

-----------------------------------------------------------------------------
(* The invariant.                                                          *)

\* What was delivered is the stream up to rcv_nxt, and what of it is unread is
\* missing from the window.
Stream ==
  /\ delivered \in Seq(Nat) /\ \A i \in 1 .. Len(delivered) : delivered[i] = i - 1
  /\ Nxt(rcv) = Len(delivered) + One(rcv.fin)
  /\ Len(delivered) <= StreamLen /\ (rcv.fin => Len(delivered) = StreamLen)
  /\ unread \in Nat /\ rcv.rcv_wnd + unread = TCP_WND

RecvInv ==
  /\ Base(rcv)
  /\ Stream
  /\ ackLost \in 0 .. MaxAckLoss
  /\ AckInv(rcv, peer, ackLost)

\* The stream goes on where it was.
LEMMA StreamGrows ==
  ASSUME NEW d \in Seq(Nat), \A i \in 1 .. Len(d) : d[i] = i - 1, NEW b \in Nat, Len(d) <= b
  PROVE  LET e == Stretch(Len(d), b) IN
         /\ Len(e) = b - Len(d) /\ d \o e \in Seq(Nat) /\ Len(d \o e) = b
         /\ \A i \in 1 .. b : (d \o e)[i] = i - 1
<1> DEFINE n == Len(d)
           m == b - n
           e == Stretch(n, b)
<1>1. n \in Nat /\ m \in Nat
  BY LenProperties
<1>2. e = [j \in 1 .. m |-> n + j - 1]
  BY DEF Stretch
<1> HIDE DEF m
<1>3. \A j \in 1 .. m : n + j - 1 \in Nat
  BY <1>1
<1> HIDE DEF n, e
<1>4. e \in Seq(Nat) /\ Len(e) = m /\ \A j \in 1 .. m : e[j] = n + j - 1
  BY <1>1, <1>2, <1>3
<1>5. /\ d \o e \in Seq(Nat) /\ Len(d \o e) = Len(d) + Len(e)
      /\ \A i \in 1 .. Len(d) : (d \o e)[i] = d[i]
      /\ \A i \in Len(d) + 1 .. Len(d) + Len(e) : (d \o e)[i] = e[i - Len(d)]
  BY <1>4, Joined
<1>6. Len(d) + Len(e) = b
  BY <1>1, <1>4 DEF m, n
<1>7. ASSUME NEW i \in 1 .. b PROVE (d \o e)[i] = i - 1
  <2>1. CASE i <= Len(d)
    <3>1. i \in 1 .. Len(d)
      BY <1>1, <2>1 DEF n
    <3> QED BY <1>5, <3>1
  <2>2. CASE ~(i <= Len(d))
    <3>1. i \in Len(d) + 1 .. Len(d) + Len(e) /\ i - Len(d) \in 1 .. m /\ n + (i - Len(d)) - 1 = i - 1
      BY <1>1, <1>6, <2>2 DEF n, m
    <3> QED BY <1>4, <1>5, <3>1
  <2> QED BY <2>1, <2>2
<1> QED BY <1>4, <1>5, <1>6, <1>7 DEF e, n, m

\* The stream and the window after a segment.
LEMMA StreamKept ==
  ASSUME RecvInv, NEW out, Came(rcv, out, rcv'), rcv' \in Rcv,
         delivered' = delivered \o out, unread' = unread + Len(out)
  PROVE  Stream'
<1>1. /\ delivered \in Seq(Nat) /\ \A i \in 1 .. Len(delivered) : delivered[i] = i - 1
      /\ Nxt(rcv) = Len(delivered) + One(rcv.fin)
      /\ Len(delivered) <= StreamLen /\ (rcv.fin => Len(delivered) = StreamLen)
      /\ unread \in Nat /\ rcv.rcv_wnd + unread = TCP_WND /\ rcv.rcv_wnd \in Nat
  BY RcvFacts DEF RecvInv, Stream, Base
<1>2. Len(delivered) \in Nat /\ StreamLen \in Nat /\ TCP_WND \in Nat
  BY <1>1, LenProperties, Bounds
<1>3. CASE ~rcv.fin /\
           \E b \in Nat : /\ Nxt(rcv) <= b /\ b <= StreamLen /\ out = Stretch(Nxt(rcv), b)
                          /\ Nxt(rcv') = b + One(rcv'.fin) /\ (rcv'.fin => b = StreamLen) /\ Nxt(rcv') <= Right(rcv)
                          /\ rcv'.rcv_wnd = rcv.rcv_wnd - (b - Nxt(rcv))
  <2>1. PICK b \in Nat : /\ Nxt(rcv) <= b /\ b <= StreamLen /\ out = Stretch(Nxt(rcv), b)
                         /\ Nxt(rcv') = b + One(rcv'.fin) /\ (rcv'.fin => b = StreamLen)
                         /\ rcv'.rcv_wnd = rcv.rcv_wnd - (b - Nxt(rcv))
    BY <1>3
  <2>2. Nxt(rcv) = Len(delivered)
    <3>1. One(rcv.fin) = 0
      BY <1>3 DEF One
    <3> QED BY <1>1, <1>2, <3>1
  <2>3. /\ Len(out) = b - Len(delivered) /\ delivered \o out \in Seq(Nat) /\ Len(delivered \o out) = b
        /\ \A i \in 1 .. b : (delivered \o out)[i] = i - 1
    <3>1. Len(delivered) <= b /\ out = Stretch(Len(delivered), b) /\ b \in Nat
      BY <2>1, <2>2
    <3> QED BY <1>1, <3>1, StreamGrows
  <2>4. unread' \in Nat /\ rcv'.rcv_wnd + unread' = TCP_WND
    <3> DEFINE m == b - Len(delivered)
               w == rcv.rcv_wnd
    <3>1. Len(delivered) <= b /\ b \in Nat /\ unread' = unread + m /\ rcv'.rcv_wnd = w - m
      BY <2>1, <2>2, <2>3
    <3>2. m \in Nat
      BY <1>2, <3>1
    <3>3. w \in Nat /\ unread \in Nat /\ w + unread = TCP_WND
      BY <1>1
    <3> HIDE DEF m, w
    <3>4. unread + m \in Nat /\ (w - m) + (unread + m) = TCP_WND
      BY <3>2, <3>3, Bounds
    <3> QED BY <3>1, <3>4
  <2> QED BY <2>1, <2>3, <2>4 DEF Stream, Nxt
<1>4. CASE out = <<>> /\ rcv'.fin = rcv.fin /\ rcv'.rcv_wnd = rcv.rcv_wnd /\ Nxt(rcv') = Nxt(rcv)
  <2>1. delivered' = delivered /\ unread' = unread
    BY <1>1, <1>4
  <2> QED BY <1>1, <1>4, <2>1 DEF Stream, Nxt
<1> QED BY <1>3, <1>4 DEF Came

\* How the receive side may go on: by the bytes of a segment, or by bytes that
\* the application gives back.
Goes(r, y) ==
  \/ \E out : Came(r, out, y)
  \/ \E n \in 1 .. TCP_WND : y.rcv_wnd = r.rcv_wnd + n /\ y.rcv_wnd <= TCP_WND /\ y.fin = r.fin

\* What every step does.
Kept == RecvInv' /\ Edge(rcv) <= Edge(rcv') /\ Goes(rcv, rcv')

\* Fates are outcomes.
LEMMA FateFacts ==
  ASSUME NEW o \in Fates
  PROVE  o \in Outcomes /\ One(o # "arrived") \in Nat
BY DEF Fates, One

\* A segment arrives.
LEMMA DeliverKeeps ==
  ASSUME RecvInv, Deliver
  PROVE  Kept
<1>1. PICK off \in 0 .. StreamLen, n \in 0 .. MaxSeg, fin \in BOOLEAN :
        /\ MaySend(off, n, fin)
        /\ \E nomem \in BOOLEAN, o1, o2 \in Fates : Arrive(PeerSegment(off, n, fin), nomem, o1, o2)
  BY DEF Deliver
<1> DEFINE s == PeerSegment(off, n, fin)
<1>2. PICK nomem \in BOOLEAN, o1 \in Fates, o2 \in Fates : Arrive(s, nomem, o1, o2)
  BY <1>1
<1>3. o1 \in Outcomes /\ o2 \in Outcomes /\ One(o1 # "arrived") \in Nat /\ One(o2 # "arrived") \in Nat
  BY <1>2, FateFacts
<1> DEFINE x == tcp_input(s, nomem, o1, o2)
           l == ackLost + One(o1 # "arrived") + One(o2 # "arrived")
<1>4. /\ o1 # "arrived" => AcksAtOnce(rcv, s)
      /\ o2 # "arrived" => x.acks
      /\ rcv' = x.rcv /\ delivered' = delivered \o x.out /\ unread' = unread + Len(x.out)
      /\ peer' = x.peer /\ ackLost' = l /\ ackLost' <= MaxAckLoss
  BY <1>2 DEF Arrive
<1>5. Base(rcv) /\ AckInv(rcv, peer, ackLost) /\ ackLost \in Nat /\ Told(rcv, peer)
  BY Bounds DEF RecvInv, AckInv
<1>6. n \in Nat
  BY Bounds
<1>7. TCP_TCPLEN(s) > 0 => Fair(rcv, s)
  BY <1>1, <1>5, <1>6, PeerFair
<1> HIDE DEF s
<1>8. /\ Base(x.rcv) /\ Edge(rcv) <= Edge(x.rcv) /\ Came(rcv, x.out, x.rcv) /\ AckInv(x.rcv, x.peer, l)
  BY <1>3, <1>4, <1>5, <1>7, InputFacts
<1> HIDE DEF x
<1>9. l \in Nat
  BY <1>3, <1>5
<1> HIDE DEF l
<1>10. /\ Base(rcv') /\ Edge(rcv) <= Edge(rcv') /\ Came(rcv, x.out, rcv') /\ AckInv(rcv', peer', ackLost')
  BY <1>4, <1>8
<1>11. ackLost' \in 0 .. MaxAckLoss
  BY <1>4, <1>9, Bounds
<1>12. rcv' \in Rcv
  BY <1>10 DEF Base
<1>13. Stream'
  BY <1>4, <1>10, <1>12, StreamKept
<1>14. RecvInv'
  BY <1>10, <1>11, <1>13 DEF RecvInv, Base, AckInv, Told, Close, Window, Nxt, Edge, Right
<1> QED BY <1>10, <1>14 DEF Kept, Goes

\* The window after tcp_recved: it grows by what is given back.
LEMMA GrownFacts ==
  ASSUME RecvInv, NEW n \in 1 .. unread
  PROVE  LET u == [rcv EXCEPT !.rcv_wnd = MinOf(rcv.rcv_wnd + n, TCP_WND)] IN
         /\ u \in Rcv /\ u.rcv_wnd = rcv.rcv_wnd + n /\ u.rcv_wnd <= TCP_WND
         /\ u.rcv_nxt = rcv.rcv_nxt /\ u.ooseq = rcv.ooseq /\ u.rcv_ann_right_edge = rcv.rcv_ann_right_edge
         /\ u.ackDelay = rcv.ackDelay /\ u.ackNow = rcv.ackNow /\ u.fin = rcv.fin
         /\ Nxt(u) = Nxt(rcv) /\ Edge(u) = Edge(rcv) /\ Right(u) = Right(rcv) + n /\ Edge(u) <= Right(u)
<1> DEFINE w == rcv.rcv_wnd + n
           u == [rcv EXCEPT !.rcv_wnd = MinOf(rcv.rcv_wnd + n, TCP_WND)]
<1>1. /\ rcv \in Rcv /\ rcv.rcv_wnd \in Nat /\ unread \in Nat /\ rcv.rcv_wnd + unread = TCP_WND
      /\ Nxt(rcv) \in Nat /\ Edge(rcv) \in Nat /\ Right(rcv) = Nxt(rcv) + rcv.rcv_wnd /\ rcv.rcv_ann_wnd \in Nat
      /\ Edge(rcv) <= Nxt(rcv) + rcv.rcv_ann_wnd /\ rcv.rcv_ann_wnd <= rcv.rcv_wnd
  BY RcvFacts DEF RecvInv, Base, Window, Stream
<1>2. n \in Nat /\ w \in 0 .. TCP_WND
  BY <1>1, Bounds
<1>3. MinOf(w, TCP_WND) = w
  BY <1>2, MinMax, Bounds
<1>4. u = [rcv EXCEPT !.rcv_wnd = w]
  BY <1>3
<1> HIDE DEF u, w
<1>5. /\ u \in Rcv /\ u.rcv_wnd = w
      /\ u.rcv_nxt = rcv.rcv_nxt /\ u.ooseq = rcv.ooseq /\ u.rcv_ann_right_edge = rcv.rcv_ann_right_edge
      /\ u.ackDelay = rcv.ackDelay /\ u.ackNow = rcv.ackNow /\ u.fin = rcv.fin
  BY <1>1, <1>2, <1>4 DEF Rcv
<1>6. Nxt(u) = Nxt(rcv) /\ Edge(u) = Edge(rcv) /\ Right(u) = Nxt(rcv) + w
  BY <1>5 DEF Nxt, Edge, Right
<1>7. Right(u) = Right(rcv) + n /\ Edge(u) <= Right(u)
  BY <1>1, <1>2, <1>6 DEF w
<1>8. w = rcv.rcv_wnd + n /\ w <= TCP_WND
  BY <1>2, Bounds DEF w
<1> QED BY <1>5, <1>6, <1>7, <1>8 DEF u

\* Bytes are given back.
LEMMA ReadKeeps ==
  ASSUME RecvInv, NEW n \in 1 .. TCP_WND, NEW o \in Fates, tcp_recved(n, o)
  PROVE  Kept
<1> DEFINE u == [rcv EXCEPT !.rcv_wnd = MinOf(rcv.rcv_wnd + n, TCP_WND)]
           r == tcp_update_rcv_ann_wnd(u)
           z == tcp_ack_now(r)
           ack == WndInflation(u) >= TCP_WND_UPDATE_THRESHOLD
           l == ackLost + One(o # "arrived")
<1>1. /\ n \in 1 .. unread /\ unread' = unread - n /\ (~ack => o = "arrived")
      /\ rcv' = (IF ack THEN tcp_output(z, o) ELSE r)
      /\ peer' = (IF ack /\ o = "arrived" THEN PeerHears(peer, r) ELSE peer)
      /\ ackLost' = l /\ ackLost' <= MaxAckLoss /\ delivered' = delivered
  BY DEF tcp_recved
<1>2. /\ u \in Rcv /\ u.rcv_wnd = rcv.rcv_wnd + n /\ u.rcv_wnd <= TCP_WND
      /\ u.rcv_nxt = rcv.rcv_nxt /\ u.ooseq = rcv.ooseq /\ u.rcv_ann_right_edge = rcv.rcv_ann_right_edge
      /\ u.ackDelay = rcv.ackDelay /\ u.ackNow = rcv.ackNow /\ u.fin = rcv.fin
      /\ Nxt(u) = Nxt(rcv) /\ Edge(u) = Edge(rcv) /\ Right(u) = Right(rcv) + n /\ Edge(u) <= Right(u)
  BY <1>1, GrownFacts
<1> HIDE DEF u
<1>3. /\ Base(rcv) /\ AckInv(rcv, peer, ackLost) /\ Told(rcv, peer) /\ ackLost \in Nat
      /\ Nxt(rcv) <= StreamLen + 1 /\ TCP_WND <= Right(rcv) /\ rcv.ooseq \in Seq(Segment)
      /\ Sorted(rcv.ooseq, Nxt(rcv), Right(rcv))
      /\ rcv.rcv_wnd \in Nat /\ Nxt(rcv) \in Nat /\ Right(rcv) \in Nat /\ Edge(rcv) \in Nat
  BY RcvFacts, Bounds DEF RecvInv, AckInv, Base, Window
<1>4. n \in Nat /\ n >= 1 /\ One(o # "arrived") \in Nat /\ o \in Outcomes
  BY FateFacts, Bounds
<1>5. PICK w \in 0 .. u.rcv_wnd :
        /\ r = [u EXCEPT !.rcv_ann_wnd = w] /\ Edge(u) <= Nxt(u) + w /\ u.rcv_wnd - w < MinAdv
  <2>1. Nxt(u) <= StreamLen + 1
    BY <1>2, <1>3
  <2> QED BY <1>2, <2>1, Updated
<1>6. w \in Nat /\ w <= u.rcv_wnd /\ w \in 0 .. TCP_WND
  <2>1. u.rcv_wnd \in Nat /\ u.rcv_wnd <= TCP_WND /\ TCP_WND \in Nat
    BY <1>2, RcvFacts, Bounds
  <2>2. w \in 0 .. u.rcv_wnd
    BY <1>5
  <2> QED BY <2>1, <2>2
<1> HIDE DEF r
<1>7. /\ r \in Rcv /\ r.rcv_nxt = u.rcv_nxt /\ r.rcv_wnd = u.rcv_wnd /\ r.rcv_ann_wnd = w /\ r.ooseq = u.ooseq
      /\ r.rcv_ann_right_edge = u.rcv_ann_right_edge /\ r.fin = u.fin
      /\ r.ackDelay = u.ackDelay /\ r.ackNow = u.ackNow
  BY <1>2, <1>5, <1>6 DEF Rcv
<1>8. Nxt(r) = Nxt(rcv) /\ Edge(r) = Edge(rcv) /\ Right(r) = Right(rcv) + n
  BY <1>2, <1>7 DEF Nxt, Edge, Right
<1>9. Base(r)
  <2>1. Sorted(r.ooseq, Nxt(r), Right(r))
    <3>1. Sorted(rcv.ooseq, Nxt(rcv), Right(rcv) + n)
      BY <1>3, <1>4, SortedWider
    <3> QED BY <1>2, <1>7, <1>8, <3>1
  <2>2. TCP_WND <= Right(r)
    BY <1>3, <1>4, <1>8, Bounds
  <2>3. Window(r)
    BY <1>2, <1>3, <1>5, <1>6, <1>7, <1>8, <2>2 DEF Window
  <2> QED BY <1>7, <2>1, <2>3 DEF Base
<1>10. Told(r, peer)
  BY <1>3, <1>8 DEF Told
<1>11. l \in Nat /\ ackLost' \in 0 .. MaxAckLoss
  BY <1>1, <1>3, <1>4, Bounds, SMTT(30)
<1>12. /\ Base(rcv') /\ AckInv(rcv', peer', ackLost') /\ Edge(rcv) <= Edge(rcv') /\ Nxt(rcv') = Nxt(rcv)
       /\ rcv'.fin = rcv.fin /\ rcv'.rcv_wnd = rcv.rcv_wnd + n
  <2>1. CASE ack
    <3> DEFINE a == tcp_send_empty_ack(z, o)
    <3>1. Alike(z, r) /\ z.ackNow = TRUE
      BY <1>7, FlagFacts
    <3> HIDE DEF z
    <3>2. Base(z) /\ Nxt(z) = Nxt(r) /\ Edge(z) = Edge(r) /\ z.fin = r.fin /\ z.rcv_wnd = r.rcv_wnd
      BY <1>9, <3>1, AlikeFacts
    <3>3. PeerHears(peer, z) = PeerHears(peer, r)
      BY <3>1 DEF PeerHears, Alike
    <3>4. Told(z, peer)
      BY <1>10, <3>2 DEF Told
    <3>5. /\ Base(a) /\ Nxt(a) = Nxt(z) /\ Edge(z) <= Edge(a) /\ a.rcv_wnd = z.rcv_wnd /\ a.fin = z.fin
      BY <1>4, <3>2, AckSent
    <3>6. /\ o = "arrived" => AckInv(a, PeerHears(peer, z), ackLost)
          /\ AckInv(a, peer, ackLost + 1)
      BY <1>3, <1>4, <3>2, <3>4, AckKeeps
    <3>7. rcv' = a /\ peer' = IF o = "arrived" THEN PeerHears(peer, z) ELSE peer
      BY <1>1, <2>1, <3>1, <3>3 DEF tcp_output
    <3> HIDE DEF a
    <3>8. AckInv(rcv', peer', ackLost')
      <4>1. CASE o = "arrived"
        <5>1. l = ackLost
          BY <1>3, <4>1 DEF One
        <5> QED BY <1>1, <3>6, <3>7, <4>1, <5>1
      <4>2. CASE o # "arrived"
        <5>1. l = ackLost + 1
          BY <4>2 DEF One
        <5> QED BY <1>1, <3>6, <3>7, <4>2, <5>1
      <4> QED BY <4>1, <4>2
    <3> QED BY <1>2, <1>7, <1>8, <3>2, <3>5, <3>7, <3>8
  <2>2. CASE ~ack
    <3>1. rcv' = r /\ peer' = peer /\ l = ackLost
      <4>1. o = "arrived"
        BY <1>1, <2>2
      <4> QED BY <1>1, <1>3, <2>2, <4>1 DEF One
    <3>2. Right(r) - Edge(r) < Bound
      <4>1. CanAdvertise(u) <=> Edge(u) + MinAdv <= Right(u)
        BY <1>2, <1>3, AdvertiseMeans
      <4>2. CASE CanAdvertise(u)
        <5>1. /\ NewRightEdge(u) \in SeqNos /\ Offset(NewRightEdge(u)) = Right(u)
          BY <1>2, <1>3, RightEdge
        <5>2. u.rcv_ann_right_edge \in SeqNos /\ Offset(u.rcv_ann_right_edge) = Edge(u)
          BY <1>2, RcvFacts DEF Edge
        <5>3. Diff(NewRightEdge(u), u.rcv_ann_right_edge) = Right(u) - Edge(u)
          BY <1>2, <5>1, <5>2, DiffOffset
        <5>4. WndInflation(u) = Right(u) - Edge(u)
          BY <4>2, <5>3 DEF WndInflation
        <5>5. Right(r) = Right(u) /\ Edge(r) = Edge(u) /\ Right(u) \in Nat /\ Edge(u) \in Nat
          BY <1>2, <1>3, <1>4, <1>8
        <5>6. ~(Right(u) - Edge(u) >= TCP_WND_UPDATE_THRESHOLD)
          BY <2>2, <5>4
        <5> QED BY <5>5, <5>6, Bounds
      <4>3. CASE ~CanAdvertise(u)
        BY <1>2, <1>3, <1>4, <1>8, <4>1, <4>3, Bounds
      <4> QED BY <4>2, <4>3
    <3>3. AckInv(r, peer, ackLost)
      <4>1. ackLost = 0 => Close(r, peer)
        BY <1>3, <1>8, <3>2 DEF AckInv, Close
      <4>2. ackLost = 0 /\ peer.una < Nxt(r) => r.ackDelay \/ r.ackNow
        BY <1>2, <1>3, <1>7, <1>8 DEF AckInv
      <4> QED BY <1>10, <4>1, <4>2 DEF AckInv
    <3>4. Edge(rcv) <= Edge(r)
      BY <1>3, <1>8
    <3> QED BY <1>1, <1>2, <1>7, <1>8, <1>9, <3>1, <3>3, <3>4
  <2> QED BY <2>1, <2>2
<1>13. Stream'
  <2>1. unread \in Nat /\ rcv.rcv_wnd + unread = TCP_WND
    BY DEF RecvInv, Stream
  <2>2. unread - n \in Nat /\ (rcv.rcv_wnd + n) + (unread - n) = TCP_WND
    BY <1>1, <1>3, <1>4, <2>1, Bounds, SMTT(30)
  <2> QED BY <1>1, <1>12, <2>2 DEF RecvInv, Stream, Nxt
<1>14. RecvInv'
  BY <1>11, <1>12, <1>13 DEF RecvInv, Base, AckInv, Told, Close, Window, Nxt, Edge, Right
<1>15. Goes(rcv, rcv')
  BY <1>2, <1>12 DEF Goes
<1> QED BY <1>12, <1>14, <1>15 DEF Kept

\* The delayed ACK.
LEMMA FastTimerKeeps ==
  ASSUME RecvInv, NEW o \in Fates, tcp_fasttmr(o)
  PROVE  Kept
<1> DEFINE z == tcp_ack_now(rcv)
           a == tcp_output(z, o)
           h == IF o = "arrived" THEN PeerHears(peer, rcv) ELSE peer
           l == ackLost + One(o # "arrived")
<1>1. /\ rcv' = Acked(a) /\ peer' = h /\ ackLost' = l /\ ackLost' <= MaxAckLoss
      /\ delivered' = delivered /\ unread' = unread
  BY DEF tcp_fasttmr
<1>2. /\ Base(rcv) /\ rcv \in Rcv /\ AckInv(rcv, peer, ackLost) /\ Told(rcv, peer) /\ ackLost \in Nat
      /\ Edge(rcv) \in Nat /\ Nxt(rcv) \in Nat
  BY RcvFacts, Bounds DEF RecvInv, AckInv, Base
<1>3. One(o # "arrived") \in Nat /\ o \in Outcomes
  BY FateFacts
<1>4. l \in Nat /\ ackLost' \in 0 .. MaxAckLoss
  BY <1>1, <1>2, <1>3, Bounds
<1>5. Alike(z, rcv) /\ z.ackNow = TRUE
  BY <1>2, FlagFacts
<1> HIDE DEF z
<1>6. Base(z) /\ Nxt(z) = Nxt(rcv) /\ Right(z) = Right(rcv) /\ Edge(z) = Edge(rcv) /\ z.fin = rcv.fin /\ z.rcv_wnd = rcv.rcv_wnd
  BY <1>2, <1>5, AlikeFacts
<1>7. PeerHears(peer, z) = PeerHears(peer, rcv)
  BY <1>5 DEF PeerHears, Alike
<1>8. AckInv(z, peer, ackLost)
  BY <1>2, <1>5, <1>6 DEF AckInv, Told, Close
<1>9. /\ Base(a) /\ Nxt(a) = Nxt(z) /\ Edge(z) <= Edge(a) /\ a.fin = z.fin /\ a.rcv_wnd = z.rcv_wnd
      /\ AckInv(a, h, l) /\ (l = 0 => h.una = Nxt(a))
  <2> DEFINE k == IF z.ackNow /\ o = "arrived" THEN PeerHears(peer, z) ELSE peer
  <2>1. k = h
    BY <1>5, <1>7
  <2> HIDE DEF h
  <2>2. /\ Base(a) /\ Nxt(a) = Nxt(z) /\ Edge(z) <= Edge(a) /\ a.fin = z.fin /\ a.rcv_wnd = z.rcv_wnd
        /\ AckInv(a, k, l)
        /\ z.ackNow /\ l = 0 => k.una = Nxt(a)
    BY <1>2, <1>3, <1>5, <1>6, <1>8, OutputFacts
  <2> HIDE DEF k, a, l
  <2> QED BY <1>5, <2>1, <2>2
<1> HIDE DEF a, h, l
<1>10. a \in Rcv /\ Nxt(a) \in Nat
  BY <1>9, RcvFacts DEF Base
<1> DEFINE y == Acked(a)
<1>11. Alike(y, a)
  BY <1>10, FlagFacts
<1> HIDE DEF y
<1>12. Base(y) /\ Nxt(y) = Nxt(a) /\ Right(y) = Right(a) /\ Edge(y) = Edge(a) /\ y.fin = a.fin /\ y.rcv_wnd = a.rcv_wnd
  BY <1>9, <1>11, AlikeFacts
<1>13. AckInv(y, h, l)
  <2>1. Told(y, h) /\ (l = 0 => Close(y, h))
    BY <1>9, <1>12 DEF AckInv, Told, Close
  <2>2. l = 0 => ~(h.una < Nxt(y))
    BY <1>9, <1>10, <1>12
  <2> QED BY <2>1, <2>2 DEF AckInv
<1>14. /\ Base(rcv') /\ AckInv(rcv', peer', ackLost') /\ Edge(rcv) <= Edge(rcv') /\ Nxt(rcv') = Nxt(rcv)
       /\ rcv'.fin = rcv.fin /\ rcv'.rcv_wnd = rcv.rcv_wnd
  <2>1. rcv' = y
    BY <1>1 DEF y
  <2> QED BY <1>1, <1>6, <1>9, <1>12, <1>13, <2>1
<1>15. Stream'
  BY <1>1, <1>14 DEF RecvInv, Stream, Nxt
<1>16. RecvInv'
  BY <1>4, <1>14, <1>15 DEF RecvInv, Base, AckInv, Told, Close, Window, Nxt, Edge, Right
<1>17. Goes(rcv, rcv')
  BY <1>14 DEF Goes, Came
<1> QED BY <1>14, <1>16, <1>17 DEF Kept

\* The queue is dropped.
LEMMA FreeKeeps ==
  ASSUME RecvInv, tcp_free_ooseq
  PROVE  Kept
<1>1. /\ rcv' = [rcv EXCEPT !.ooseq = <<>>] /\ peer' = peer /\ ackLost' = ackLost
      /\ delivered' = delivered /\ unread' = unread
  BY DEF tcp_free_ooseq
<1>2. Base(rcv) /\ rcv \in Rcv /\ AckInv(rcv, peer, ackLost) /\ Window(rcv) /\ Edge(rcv) \in Nat
  BY RcvFacts DEF RecvInv, Base
<1> DEFINE y == [rcv EXCEPT !.ooseq = <<>>]
<1>3. /\ y \in Rcv /\ y.rcv_nxt = rcv.rcv_nxt /\ y.rcv_wnd = rcv.rcv_wnd /\ y.rcv_ann_wnd = rcv.rcv_ann_wnd
      /\ y.rcv_ann_right_edge = rcv.rcv_ann_right_edge /\ y.ooseq = <<>> /\ y.fin = rcv.fin
      /\ y.ackDelay = rcv.ackDelay /\ y.ackNow = rcv.ackNow
  <2>1. <<>> \in Seq(Segment)
    OBVIOUS
  <2> QED BY <1>2, <2>1 DEF Rcv
<1> HIDE DEF y
<1>4. Nxt(y) = Nxt(rcv) /\ Right(y) = Right(rcv) /\ Edge(y) = Edge(rcv)
  BY <1>3 DEF Nxt, Right, Edge
<1>5. Sorted(y.ooseq, Nxt(y), Right(y))
  BY <1>3 DEF Sorted
<1>6. Base(y) /\ AckInv(y, peer, ackLost) /\ Edge(rcv) <= Edge(y)
  BY <1>2, <1>3, <1>4, <1>5 DEF Base, Window, AckInv, Told, Close
<1>7. /\ Base(rcv') /\ AckInv(rcv', peer', ackLost') /\ Edge(rcv) <= Edge(rcv') /\ Nxt(rcv') = Nxt(rcv)
      /\ rcv'.fin = rcv.fin /\ rcv'.rcv_wnd = rcv.rcv_wnd
  <2>1. rcv' = y
    BY <1>1 DEF y
  <2> QED BY <1>1, <1>3, <1>4, <1>6, <2>1
<1>8. Stream'
  BY <1>1, <1>7 DEF RecvInv, Stream, Nxt
<1>9. RecvInv'
  BY <1>1, <1>7, <1>8 DEF RecvInv, Base, AckInv, Told, Close, Window, Nxt, Edge, Right
<1>10. Goes(rcv, rcv')
  BY <1>7 DEF Goes, Came
<1> QED BY <1>7, <1>9, <1>10 DEF Kept

\* Every step keeps the invariant.
LEMMA StepKeeps ==
  ASSUME RecvInv, [Next]_vars
  PROVE  Kept
<1>1. CASE Deliver
  BY <1>1, DeliverKeeps
<1>2. CASE Read
  <2>1. PICK n \in 1 .. TCP_WND, o \in Fates : tcp_recved(n, o)
    BY <1>2 DEF Read
  <2> QED BY <2>1, ReadKeeps
<1>3. CASE FastTimer
  <2>1. PICK o \in Fates : tcp_fasttmr(o)
    BY <1>3 DEF FastTimer
  <2> QED BY <2>1, FastTimerKeeps
<1>4. CASE tcp_free_ooseq
  BY <1>4, FreeKeeps
<1>5. CASE UNCHANGED vars
  <2>1. rcv' = rcv /\ delivered' = delivered /\ unread' = unread /\ peer' = peer /\ ackLost' = ackLost
    BY <1>5 DEF vars
  <2>2. Edge(rcv) \in Nat
    BY RcvFacts DEF RecvInv, Base
  <2>3. RecvInv'
    BY <2>1 DEF RecvInv, Base, Stream, AckInv, Told, Close, Window, Nxt, Edge, Right
  <2>4. Edge(rcv) <= Edge(rcv') /\ Goes(rcv, rcv')
    BY <2>1, <2>2 DEF Goes, Came
  <2> QED BY <2>3, <2>4 DEF Kept
<1> QED BY <1>1, <1>2, <1>3, <1>4, <1>5 DEF Next

\* The fresh pcb.
LEMMA InitHolds ==
  ASSUME Init
  PROVE  RecvInv
<1>1. /\ rcv = [rcv_nxt |-> ISS, rcv_wnd |-> TCP_WND, rcv_ann_wnd |-> TCP_WND,
                rcv_ann_right_edge |-> SeqNo(TCP_WND), ooseq |-> <<>>,
                ackDelay |-> FALSE, ackNow |-> FALSE, fin |-> FALSE]
      /\ delivered = <<>> /\ unread = 0 /\ ackLost = 0
      /\ peer = [una |-> 0, edge |-> RCV_WND_SCALE(TCP_WND)]
  BY DEF Init
<1> DEFINE k == TCP_WND \div Unit
<1>2. k \in Nat /\ Unit * k <= TCP_WND /\ TCP_WND < Unit * k + Unit /\ Unit \in Nat
  BY Bounds, DivFacts
<1>3. RCV_WND_SCALE(TCP_WND) = k * Unit
  BY DEF RCV_WND_SCALE, Unit
<1> HIDE DEF k
<1>4. peer.edge \in Nat /\ peer.edge <= TCP_WND /\ TCP_WND <= peer.edge + Unit - 1 /\ peer.una = 0 /\ peer \in Peers
  <2>1. k * Unit = Unit * k /\ Unit * k \in Nat
    BY <1>2
  <2>2. peer.edge = Unit * k /\ peer.una = 0
    BY <1>1, <1>3, <2>1
  <2>3. peer \in Peers
    BY <1>1, <1>3, <2>1 DEF Peers
  <2>4. Unit * k <= TCP_WND /\ TCP_WND <= Unit * k + Unit - 1
    BY <1>2, <2>1, Bounds
  <2> QED BY <2>1, <2>2, <2>3, <2>4
<1>5. SeqNo(TCP_WND) \in SeqNos /\ Offset(SeqNo(TCP_WND)) = TCP_WND /\ Offset(ISS) = 0 /\ ISS \in SeqNos
  <2>1. TCP_WND \in Nat /\ TCP_WND < SEQ
    BY Bounds
  <2> QED BY <2>1, OffsetISS, Bounds DEF SeqNo
<1>6. rcv \in Rcv
  <2>1. TCP_WND \in 0 .. TCP_WND /\ <<>> \in Seq(Segment)
    BY Bounds
  <2> QED BY <1>1, <1>5, <2>1 DEF Rcv
<1>7. Nxt(rcv) = 0 /\ Right(rcv) = TCP_WND /\ Edge(rcv) = TCP_WND
  BY <1>1, <1>5, Bounds DEF Nxt, Right, Edge
<1>8. rcv.rcv_wnd = TCP_WND /\ rcv.rcv_ann_wnd = TCP_WND /\ rcv.fin = FALSE /\ rcv.ooseq = <<>>
  BY <1>1
<1>9. Window(rcv)
  BY <1>7, <1>8, Bounds DEF Window
<1>10. Base(rcv)
  BY <1>6, <1>8, <1>9 DEF Base, Sorted
<1>11. AckInv(rcv, peer, ackLost)
  <2>1. Told(rcv, peer)
    BY <1>4, <1>7 DEF Told
  <2>2. Close(rcv, peer) /\ ~(peer.una < Nxt(rcv))
    BY <1>4, <1>7, Bounds DEF Close
  <2> QED BY <2>1, <2>2 DEF AckInv
<1>12. Stream
  <2>1. delivered \in Seq(Nat) /\ Len(delivered) = 0
    BY <1>1
  <2> QED BY <1>1, <1>7, <1>8, <2>1, Bounds DEF Stream, One
<1> QED BY <1>1, <1>10, <1>11, <1>12, Bounds DEF RecvInv

\* The invariant of tcp_input, tcp_recved, tcp_fasttmr and the dropping of the
\* ooseq queue: the queue is sorted in the window, the window is as announced,
\* the stream is as delivered, and the peer knows of it.
THEOREM ReceiveInvariance == Spec => []RecvInv
<1>1. Init => RecvInv
  BY InitHolds
<1>2. RecvInv /\ [Next]_vars => RecvInv'
  BY StepKeeps DEF Kept
<1> QED BY <1>1, <1>2, PTL DEF Spec

-----------------------------------------------------------------------------
(* Theorems.                                                               *)

\* The receive part of the pcb, the application's count and the peer's knowledge
\* have their types after every tcp_input, tcp_recved and timer.
THEOREM ReceiveTypeCorrect == Spec => []TypeOK
<1>1. RecvInv => TypeOK
  <2> SUFFICES ASSUME RecvInv PROVE TypeOK
    OBVIOUS
  <2>1. /\ rcv \in Rcv /\ Nxt(rcv) <= StreamLen + 1 /\ unread \in Nat /\ rcv.rcv_wnd + unread = TCP_WND
        /\ Told(rcv, peer) /\ ackLost \in 0 .. MaxAckLoss
    BY DEF RecvInv, Base, Window, Stream, AckInv
  <2>2. Nxt(rcv) \in Nat /\ rcv.rcv_wnd \in Nat /\ StreamLen \in Nat /\ TCP_WND \in Nat
    BY <2>1, RcvFacts, Bounds
  <2>3. unread \in 0 .. TCP_WND
    BY <2>1, <2>2
  <2>4. peer \in Peers /\ peer.una \in Nat /\ peer.una <= Nxt(rcv)
    BY <2>1 DEF Told, Peers
  <2>5. peer.una \in 0 .. StreamLen + 1
    BY <2>1, <2>2, <2>4
  <2>6. peer \in [una : 0 .. StreamLen + 1, edge : Nat]
    BY <2>4, <2>5 DEF Peers
  <2>7. DOMAIN rcv = {"rcv_nxt", "rcv_wnd", "rcv_ann_wnd", "rcv_ann_right_edge",
                      "ooseq", "ackDelay", "ackNow", "fin"}
    BY <2>1 DEF Rcv
  <2>8. /\ rcv.rcv_nxt \in 0 .. SEQ - 1 /\ rcv.rcv_ann_right_edge \in 0 .. SEQ - 1
        /\ rcv.rcv_wnd \in 0 .. TCP_WND /\ rcv.rcv_ann_wnd \in 0 .. TCP_WND
        /\ rcv.ackDelay \in BOOLEAN /\ rcv.ackNow \in BOOLEAN /\ rcv.fin \in BOOLEAN
    BY <2>1 DEF Rcv, SeqNos
  <2> QED BY <2>1, <2>3, <2>6, <2>7, <2>8 DEF TypeOK
<1> QED BY <1>1, ReceiveInvariance, PTL

\* However tcp_receive trims, queues and joins the segments that the network
\* reorders, duplicates and loses, the recv callback gets the bytes of the stream
\* once and in order, rcv_nxt counts them across the wrap, and EOF comes last.
THEOREM StreamIsInOrder == Spec => []StreamInOrder
<1>1. RecvInv => StreamInOrder
  <2> SUFFICES ASSUME RecvInv PROVE StreamInOrder
    OBVIOUS
  <2> DEFINE n == Len(delivered) + One(rcv.fin)
  <2>1. /\ delivered \in Seq(Nat) /\ \A i \in 1 .. Len(delivered) : delivered[i] = i - 1
        /\ Nxt(rcv) = n /\ Len(delivered) <= StreamLen
        /\ (rcv.fin => Len(delivered) = StreamLen) /\ rcv \in Rcv
    BY DEF RecvInv, Stream, Base
  <2>2. n \in Nat /\ n < SEQ
    <3>1. Len(delivered) \in Nat /\ One(rcv.fin) \in {0, 1}
      BY <2>1, LenProperties DEF One
    <3> QED BY <2>1, <3>1, Bounds
  <2> HIDE DEF n
  <2>3. SeqNo(n) \in SeqNos /\ Offset(SeqNo(n)) = n
    BY <2>2, OffsetISS DEF SeqNo
  <2>4. rcv.rcv_nxt \in SeqNos /\ Offset(rcv.rcv_nxt) = n
    BY <2>1, RcvFacts DEF Nxt
  <2>5. rcv.rcv_nxt = SeqNo(n)
    BY <2>3, <2>4, OffsetInjective
  <2> QED BY <2>1, <2>5 DEF StreamInOrder, n
<1> QED BY <1>1, ReceiveInvariance, PTL

\* The ooseq queue is sorted and without overlap, in the window, its segments
\* hold the bytes their seqno says, and none but one that ends the stream has a
\* FIN, whatever order tcp_oos_insert_segment was called in.
THEOREM OoseqIsSorted == Spec => []OoseqSorted
<1>1. RecvInv => OoseqSorted
  <2> SUFFICES ASSUME RecvInv, NEW i \in 1 .. Len(rcv.ooseq)
               PROVE  LET s == rcv.ooseq[i] IN
                      /\ TCP_TCPLEN(s) > 0
                      /\ \A j \in 1 .. Length(s) : SeqNo(s.p[j]) = Add(s.seqno, j - 1)
                      /\ TCP_SEQ_GT(s.seqno, rcv.rcv_nxt)
                      /\ TCP_SEQ_LEQ(EndOf(s, TRUE), NewRightEdge(rcv))
                      /\ i < Len(rcv.ooseq) => TCP_SEQ_LEQ(EndOf(s, TRUE), rcv.ooseq[i + 1].seqno)
                      /\ s.fin => EndOf(s, FALSE) = SeqNo(StreamLen)
    BY DEF OoseqSorted
  <2> DEFINE q == rcv.ooseq
             s == q[i]
  <2>1. rcv \in Rcv /\ Nxt(rcv) <= StreamLen + 1 /\ Sorted(q, Nxt(rcv), Right(rcv)) /\ q \in Seq(Segment)
    BY RcvFacts DEF RecvInv, Base, Window
  <2>2. s \in Segment /\ Sane(s) /\ Nxt(rcv) < Start(s) /\ End(s) <= Right(rcv) /\ (s.fin => Stop(s) = StreamLen)
    BY <2>1 DEF Sorted
  <2>3. /\ rcv.rcv_nxt \in SeqNos /\ Offset(rcv.rcv_nxt) = Nxt(rcv) /\ Nxt(rcv) < SEQ \div 2
        /\ NewRightEdge(rcv) \in SeqNos /\ Offset(NewRightEdge(rcv)) = Right(rcv) /\ Right(rcv) < SEQ \div 2
    BY <2>1, RcvFacts, RightEdge DEF Nxt
  <2>4. i < Len(q) => /\ q[i + 1] \in Segment /\ Sane(q[i + 1]) /\ End(s) <= Start(q[i + 1])
    <3> SUFFICES ASSUME i < Len(q) PROVE q[i + 1] \in Segment /\ Sane(q[i + 1]) /\ End(s) <= Start(q[i + 1])
      OBVIOUS
    <3>1. i + 1 \in 1 .. Len(q) /\ i < i + 1
      BY <2>1, LenProperties
    <3> QED BY <2>1, <3>1 DEF Sorted
  <2> HIDE DEF q, s
  <2>5. /\ Start(s) < SEQ \div 2 /\ End(s) < SEQ \div 2
        /\ EndOf(s, TRUE) \in SeqNos /\ Offset(EndOf(s, TRUE)) = End(s)
        /\ EndOf(s, FALSE) \in SeqNos /\ Offset(EndOf(s, FALSE)) = Stop(s)
        /\ s.seqno \in SeqNos /\ Offset(s.seqno) = Start(s) /\ Start(s) < End(s)
    BY <2>2, SegmentRange
  <2>6. TCP_TCPLEN(s) > 0
    <3>1. Start(s) \in Nat /\ Length(s) \in Nat /\ One(s.fin) \in {0, 1} /\ End(s) = Start(s) + Length(s) + One(s.fin)
      BY <2>2, SegmentFacts DEF End, Stop
    <3>2. TCP_TCPLEN(s) = Length(s) + One(s.fin)
      BY DEF TCP_TCPLEN, Length
    <3> QED BY <2>5, <3>1, <3>2
  <2>7. ASSUME NEW j \in 1 .. Length(s) PROVE SeqNo(s.p[j]) = Add(s.seqno, j - 1)
    <3> DEFINE m == j - 1
               o == Start(s) + m
    <3>1. s.p[j] = Start(s) + j - 1
      BY <2>2 DEF Sane
    <3>2. Start(s) \in Nat /\ Length(s) \in Nat /\ Stop(s) = Start(s) + Length(s) /\ Stop(s) <= StreamLen
      BY <2>2, SegmentFacts DEF Sane
    <3>3. m \in Nat /\ o \in Nat /\ o < SEQ /\ s.p[j] = o
      BY <3>1, <3>2, SeqBounds, SMTT(30)
    <3> HIDE DEF m
    <3>4. SeqNo(o) \in SeqNos /\ Offset(SeqNo(o)) = o
      BY <3>3, OffsetISS DEF SeqNo
    <3>5. Add(s.seqno, m) \in SeqNos /\ Offset(Add(s.seqno, m)) = o
      BY <2>5, <3>3, OffsetAdd
    <3>6. SeqNo(o) = Add(s.seqno, m)
      BY <3>4, <3>5, OffsetInjective
    <3> QED BY <3>3, <3>6 DEF m
  <2>8. TCP_SEQ_GT(s.seqno, rcv.rcv_nxt)
    BY <2>2, <2>3, <2>5, Compare
  <2>9. TCP_SEQ_LEQ(EndOf(s, TRUE), NewRightEdge(rcv))
    BY <2>2, <2>3, <2>5, Compare
  <2>10. i < Len(q) => TCP_SEQ_LEQ(EndOf(s, TRUE), q[i + 1].seqno)
    <3> SUFFICES ASSUME i < Len(q) PROVE TCP_SEQ_LEQ(EndOf(s, TRUE), q[i + 1].seqno)
      OBVIOUS
    <3> DEFINE t == q[i + 1]
    <3>1. t \in Segment /\ Sane(t) /\ End(s) <= Start(t)
      BY <2>4
    <3> HIDE DEF t
    <3>2. t.seqno \in SeqNos /\ Offset(t.seqno) = Start(t) /\ Start(t) < SEQ \div 2
      BY <3>1, SegmentRange
    <3>3. TCP_SEQ_LEQ(EndOf(s, TRUE), t.seqno)
      BY <2>5, <3>1, <3>2, Compare
    <3> QED BY <3>3 DEF t
  <2>11. s.fin => EndOf(s, FALSE) = SeqNo(StreamLen)
    <3>1. StreamLen \in Nat /\ StreamLen < SEQ
      BY SeqBounds
    <3>2. SeqNo(StreamLen) \in SeqNos /\ Offset(SeqNo(StreamLen)) = StreamLen
      BY <3>1, OffsetISS DEF SeqNo
    <3> QED BY <2>2, <2>5, <3>2, OffsetInjective
  <2> QED BY <2>6, <2>7, <2>8, <2>9, <2>10, <2>11 DEF s, q
<1> QED BY <1>1, ReceiveInvariance, PTL

\* tcp_update_rcv_ann_wnd never announces more than rcv_wnd can take, what the
\* peer was told of stays within it, and what is handed over and not given back by
\* tcp_recved is all that is missing.
THEOREM WindowIsHonest == Spec => []WindowHonest
<1>1. RecvInv => WindowHonest
  <2> SUFFICES ASSUME RecvInv PROVE WindowHonest
    OBVIOUS
  <2>1. /\ rcv \in Rcv /\ Nxt(rcv) <= StreamLen + 1 /\ rcv.rcv_ann_wnd <= rcv.rcv_wnd
        /\ Edge(rcv) <= Nxt(rcv) + rcv.rcv_ann_wnd /\ rcv.rcv_wnd + unread = TCP_WND
        /\ peer.edge \in Nat /\ peer.edge <= Edge(rcv)
    BY DEF RecvInv, Base, Window, Stream, AckInv, Told, Peers
  <2>2. /\ Nxt(rcv) \in Nat /\ Edge(rcv) \in Nat /\ rcv.rcv_wnd \in Nat /\ rcv.rcv_ann_wnd \in Nat
        /\ Right(rcv) = Nxt(rcv) + rcv.rcv_wnd /\ Offset(NewRightEdge(rcv)) = Right(rcv)
    BY <2>1, RcvFacts, RightEdge
  <2>3. peer.edge <= Offset(NewRightEdge(rcv))
    BY <2>1, <2>2
  <2> QED BY <2>1, <2>3 DEF WindowHonest
<1> QED BY <1>1, ReceiveInvariance, PTL

\* As long as every ACK that was tried got through, tcp_ack or tcp_ack_now has
\* left a flag for what was received and not acknowledged.
THEOREM AckIsPending == Spec => []AckPending
<1>1. RecvInv => AckPending
  BY DEF RecvInv, AckInv, AckPending, Nxt
<1> QED BY <1>1, ReceiveInvariance, PTL

\* As long as every ACK that was tried got through, tcp_recved announces the
\* window in time: the peer lags behind it by less than the larger of
\* TCP_WND_UPDATE_THRESHOLD and a segment, and the unit of the scaled window.
THEOREM WindowDoesNotStall == Spec => []NoWindowStall
<1>1. RecvInv => NoWindowStall
  <2> SUFFICES ASSUME RecvInv, ackLost = 0, ~rcv.fin
               PROVE  Offset(NewRightEdge(rcv)) - peer.edge < Bound + Unit - 1
    BY DEF NoWindowStall, Bound, MinAdv, Unit
  <2>1. /\ rcv \in Rcv /\ Nxt(rcv) <= StreamLen + 1 /\ peer.edge \in Nat
        /\ Edge(rcv) <= peer.edge + Unit - 1 /\ Right(rcv) - Edge(rcv) < Bound
    BY DEF RecvInv, Base, Window, AckInv, Told, Peers, Close
  <2>2. Right(rcv) \in Nat /\ Edge(rcv) \in Nat /\ Offset(NewRightEdge(rcv)) = Right(rcv)
    BY <2>1, RcvFacts, RightEdge
  <2> QED BY <2>1, <2>2, Bounds
<1> QED BY <1>1, ReceiveInvariance, PTL

\* rcv_ann_right_edge never moves back, in the order of sequence numbers: not when
\* data or a probe is taken, nor when an ACK could not be sent.
THEOREM EdgeIsHeld == Spec => EdgeHolds
<1> DEFINE Holds == \/ rcv'.rcv_ann_right_edge = rcv.rcv_ann_right_edge
                    \/ TCP_SEQ_GT(rcv'.rcv_ann_right_edge, rcv.rcv_ann_right_edge)
<1>1. ASSUME RecvInv PROVE Edge(rcv) < SEQ \div 2 /\ Edge(rcv) \in Nat /\ rcv.rcv_ann_right_edge \in SeqNos
  <2>1. /\ rcv \in Rcv /\ Nxt(rcv) <= StreamLen + 1 /\ rcv.rcv_ann_wnd <= rcv.rcv_wnd
        /\ Edge(rcv) <= Nxt(rcv) + rcv.rcv_ann_wnd
    BY <1>1 DEF RecvInv, Base, Window
  <2>2. /\ Nxt(rcv) \in Nat /\ Edge(rcv) \in Nat /\ rcv.rcv_wnd \in Nat /\ rcv.rcv_ann_wnd \in Nat
        /\ Right(rcv) = Nxt(rcv) + rcv.rcv_wnd /\ Right(rcv) < SEQ \div 2 /\ rcv.rcv_ann_right_edge \in SeqNos
    BY <2>1, RcvFacts, RightEdge
  <2> QED BY <2>1, <2>2, SeqBounds
<1>2. RecvInv /\ [Next]_vars => Holds
  <2> SUFFICES ASSUME RecvInv, [Next]_vars PROVE Holds
    OBVIOUS
  <2> DEFINE x == rcv.rcv_ann_right_edge
             y == rcv'.rcv_ann_right_edge
  <2>1. Edge(rcv) <= Edge(rcv') /\ RecvInv'
    BY StepKeeps DEF Kept
  <2>2. Offset(x) < SEQ \div 2 /\ Offset(x) \in Nat /\ x \in SeqNos
    BY <1>1 DEF Edge
  <2>3. Base(rcv')
    BY <2>1 DEF RecvInv, Base, Window, Nxt, Edge, Right
  <2>4. Offset(y) < SEQ \div 2 /\ Offset(y) \in Nat /\ y \in SeqNos
    <3>1. /\ rcv' \in Rcv /\ Nxt(rcv') <= StreamLen + 1 /\ rcv'.rcv_ann_wnd <= rcv'.rcv_wnd
          /\ Edge(rcv') <= Nxt(rcv') + rcv'.rcv_ann_wnd
      BY <2>3 DEF Base, Window
    <3>2. /\ Nxt(rcv') \in Nat /\ Edge(rcv') \in Nat /\ rcv'.rcv_wnd \in Nat /\ rcv'.rcv_ann_wnd \in Nat
          /\ Right(rcv') = Nxt(rcv') + rcv'.rcv_wnd /\ Right(rcv') < SEQ \div 2 /\ y \in SeqNos
      BY <3>1, RcvFacts, RightEdge
    <3>3. Edge(rcv') < SEQ \div 2
      BY <3>1, <3>2, SeqBounds
    <3> QED BY <3>2, <3>3 DEF Edge
  <2>5. Offset(x) <= Offset(y)
    BY <2>1 DEF Edge
  <2> HIDE DEF x, y
  <2>6. CASE Offset(x) = Offset(y)
    <3>1. x = y
      BY <2>2, <2>4, <2>6, OffsetInjective
    <3> QED BY <3>1 DEF x, y
  <2>7. CASE Offset(x) < Offset(y)
    <3>1. TCP_SEQ_GT(y, x)
      BY <2>2, <2>4, <2>7, Compare
    <3> QED BY <3>1 DEF x, y
  <2> QED BY <2>2, <2>4, <2>5, <2>6, <2>7
<1>3. RecvInv /\ [Next]_vars => [Holds]_vars
  BY <1>2
<1> QED BY <1>3, ReceiveInvariance, PTL DEF Spec, EdgeHolds

-----------------------------------------------------------------------------
(* The refinement of InOrderReceive.                                       *)

\* The pcb as LwipPcb has it, of which only the state and the window vary.
PcbWith(f, w) ==
  [state |-> IF f THEN "CLOSE_WAIT" ELSE "ESTABLISHED", callbacks |-> FALSE,
   backlogpend |-> TRUE, rxclosed |-> FALSE, closepend |-> FALSE,
   rcv_wnd |-> w, refused |-> 0, refusedFin |-> FALSE, snd_buf |-> 1]

\* Another window.
LEMMA PcbUpdate ==
  ASSUME NEW f, NEW w, NEW v, NEW p, p = PcbWith(f, w), NEW q, q = [p EXCEPT !.rcv_wnd = v]
  PROVE  q = PcbWith(f, v)
BY ZenonT(30) DEF PcbWith

\* The segment of LwipPcb that completes n bytes in order, and the FIN.
RunOf(n, f) == [len |-> n, fin |-> f, acked |-> 0, finacked |-> FALSE]

\* What LwipPcb's tcp_process makes of a run that fits the window.
LEMMA RunTaken ==
  ASSUME NEW w \in 0 .. TCP_WND, NEW n \in Nat, NEW f \in BOOLEAN, n + One(f) <= w
  PROVE  LET p == PcbWith(FALSE, w)
             s == RunOf(n, f)
             q == InOrder!tcp_process(p, s)
         IN (IF InOrder!Received(p, s).fin THEN InOrder!CreditFin(q) ELSE q) = PcbWith(f, w - n)
<1> DEFINE p == PcbWith(FALSE, w)
           s == RunOf(n, f)
           q == InOrder!tcp_process(p, s)
           e == InOrder!Received(p, s)
           m == n + One(f)
<1>1. w \in Nat /\ w <= TCP_WND /\ TCP_WND \in Nat
  BY Bounds
<1>2. p.state = "ESTABLISHED" /\ p.rcv_wnd = w /\ s.len = n /\ s.fin = f /\ s.finacked = FALSE /\ s.acked = 0
  BY DEF PcbWith, RunOf
<1>3. e.fin = f /\ e.tcplen = m
  <2>1. m = n + (IF f THEN 1 ELSE 0) /\ m \in Nat
    BY DEF One
  <2>2. CASE w = 0
    <3>1. m = 0 /\ f = FALSE
      BY <2>1, <2>2
    <3>2. e = [data |-> 0, fin |-> FALSE, tcplen |-> 0]
      BY <1>2, <2>2 DEF InOrder!Received
    <3> HIDE DEF e, m
    <3>3. e.fin = FALSE
      BY <3>2
    <3>4. e.tcplen = 0
      BY <3>2
    <3> QED BY <3>1, <3>3, <3>4
  <2>3. CASE w # 0
    <3>1. ~(m > w)
      BY <1>1, <2>1
    <3>2. e = [data |-> n, fin |-> f, tcplen |-> m]
      BY <1>2, <2>1, <2>3, <3>1 DEF InOrder!Received
    <3> HIDE DEF e, m
    <3>3. e.fin = f
      BY <3>2
    <3>4. e.tcplen = m
      BY <3>2
    <3> QED BY <3>3, <3>4
  <2> QED BY <2>2, <2>3
<1> HIDE DEF e, m
<1>4. InOrder!tcp_receive(p, s) = PcbWith(FALSE, w - m)
  <2>1. InOrder!tcp_receive(p, s) = [p EXCEPT !.snd_buf = p.snd_buf + 0, !.rcv_wnd = p.rcv_wnd - m]
    BY <1>2, <1>3 DEF InOrder!tcp_receive, e
  <2>2. p.snd_buf + 0 = 1 /\ p.rcv_wnd - m = w - m
    BY <1>2 DEF PcbWith
  <2>3. InOrder!tcp_receive(p, s) = [p EXCEPT !.snd_buf = 1, !.rcv_wnd = w - m]
    BY <2>1, <2>2
  <2> QED BY <2>3, ZenonT(60) DEF PcbWith
<1>5. q = PcbWith(f, w - m)
  <2> DEFINE v == PcbWith(FALSE, w - m)
  <2>1. v.state = "ESTABLISHED"
    BY DEF PcbWith
  <2>2. CASE f
    <3>1. q = [v EXCEPT !.state = "CLOSE_WAIT"]
      BY <1>3, <1>4, <2>1, <2>2 DEF InOrder!tcp_process, e
    <3> QED BY <2>2, <3>1 DEF PcbWith
  <2>3. CASE ~f
    <3>1. q = v
      BY <1>2, <1>3, <1>4, <2>1, <2>3 DEF InOrder!tcp_process, e
    <3> QED BY <2>3, <3>1
  <2> QED BY <2>2, <2>3
<1> HIDE DEF q, s, p
<1>6. CASE f
  <2>1. w - m # TCP_WND /\ (w - m) + 1 = w - n
    <3>1. m = n + 1
      BY <1>6 DEF m, One
    <3>2. n + 1 <= w
      BY <1>6 DEF One
    <3> QED BY <1>1, <3>1, <3>2
  <2>2. InOrder!CreditFin(q) = [q EXCEPT !.rcv_wnd = IF q.rcv_wnd = TCP_WND THEN TCP_WND ELSE q.rcv_wnd + 1]
    BY DEF InOrder!CreditFin
  <2>3. q.rcv_wnd = w - m
    BY <1>5 DEF PcbWith
  <2>4. InOrder!CreditFin(q) = [q EXCEPT !.rcv_wnd = w - n]
    BY <2>1, <2>2, <2>3
  <2>5. InOrder!CreditFin(q) = PcbWith(f, w - n)
    BY <1>5, <2>4, ZenonT(60) DEF PcbWith
  <2> QED BY <1>3, <1>6, <2>5 DEF e, q, p, s
<1>7. CASE ~f
  <2>1. m = n
    BY <1>7 DEF m, One
  <2> QED BY <1>3, <1>5, <1>7, <2>1 DEF e, q, p, s
<1> QED BY <1>6, <1>7

\* Every step of tcp_receive with its queue is one of InOrderReceive.
LEMMA GoesInOrder ==
  ASSUME RecvInv, [Next]_vars
  PROVE  [InOrder!Next]_(AsPcb)
<1> DEFINE w == rcv.rcv_wnd
           f == rcv'.fin
<1>1. Goes(rcv, rcv') /\ RecvInv'
  BY StepKeeps DEF Kept
<1>2. /\ rcv \in Rcv /\ w \in Nat /\ w <= TCP_WND /\ rcv.fin \in BOOLEAN /\ Nxt(rcv) \in Nat
      /\ Right(rcv) = Nxt(rcv) + w
  BY RcvFacts DEF RecvInv, Base
<1>3. rcv' \in Rcv /\ f \in BOOLEAN
  BY <1>1, RcvFacts DEF RecvInv, Base
<1>4. AsPcb = PcbWith(rcv.fin, w)
  BY DEF AsPcb, PcbWith
<1>5. AsPcb' = PcbWith(f, rcv'.rcv_wnd)
  BY DEF AsPcb, PcbWith
<1>6. CASE \E n \in 1 .. TCP_WND :
             rcv'.rcv_wnd = rcv.rcv_wnd + n /\ rcv'.rcv_wnd <= TCP_WND /\ rcv'.fin = rcv.fin
  <2>1. PICK n \in 1 .. TCP_WND : rcv'.rcv_wnd = w + n /\ rcv'.rcv_wnd <= TCP_WND /\ f = rcv.fin
    BY <1>6
  <2> DEFINE p == PcbWith(rcv.fin, w)
  <2>2. p.rcv_wnd = w /\ n \in Nat /\ ~(w + n > TCP_WND)
    BY <1>2, <2>1, Bounds DEF PcbWith
  <2>3. InOrder!tcp_recved(p, n) = [p EXCEPT !.rcv_wnd = w + n]
    BY <2>2 DEF InOrder!tcp_recved
  <2>4. InOrder!tcp_recved(p, n) = PcbWith(rcv.fin, w + n)
    BY <2>3, PcbUpdate
  <2> HIDE DEF p
  <2>5. AsPcb' = InOrder!tcp_recved(AsPcb, n)
    BY <1>4, <1>5, <2>1, <2>4 DEF p
  <2>6. InOrder!Recved(n)
    BY <2>5 DEF InOrder!Recved
  <2> QED BY <2>1, <2>6 DEF InOrder!Next
<1>7. CASE \E out : Came(rcv, out, rcv')
  <2>1. PICK out : Came(rcv, out, rcv')
    BY <1>7
  <2>2. CASE out = <<>> /\ rcv'.fin = rcv.fin /\ rcv'.rcv_wnd = rcv.rcv_wnd /\ Nxt(rcv') = Nxt(rcv)
    <3>1. AsPcb' = AsPcb
      BY <1>4, <1>5, <2>2
    <3> QED BY <3>1
  <2>3. CASE ~(out = <<>> /\ rcv'.fin = rcv.fin /\ rcv'.rcv_wnd = rcv.rcv_wnd /\ Nxt(rcv') = Nxt(rcv))
    <3>1. ~rcv.fin /\ \E b \in Nat : /\ Nxt(rcv) <= b /\ Nxt(rcv') = b + One(f) /\ Nxt(rcv') <= Right(rcv)
                                     /\ rcv'.rcv_wnd = w - (b - Nxt(rcv))
      BY <2>1, <2>3 DEF Came
    <3>2. PICK b \in Nat : /\ Nxt(rcv) <= b /\ Nxt(rcv') = b + One(f) /\ Nxt(rcv') <= Right(rcv)
                           /\ rcv'.rcv_wnd = w - (b - Nxt(rcv))
      BY <3>1
    <3> DEFINE n == b - Nxt(rcv)
               s == RunOf(n, f)
               p == PcbWith(FALSE, w)
               q == InOrder!tcp_process(p, s)
    <3>3. n \in Nat /\ n + One(f) <= w /\ n \in 0 .. TCP_WND /\ w \in 0 .. TCP_WND
      <4>1. One(f) \in {0, 1}
        BY DEF One
      <4> QED BY <1>2, <3>2, <4>1, Bounds
    <3>4. AsPcb = p /\ AsPcb' = PcbWith(f, w - n)
      <4>1. rcv.fin = FALSE
        BY <1>2, <3>1
      <4> QED BY <1>4, <1>5, <3>2, <4>1
    <3> HIDE DEF n
    <3>5. (IF InOrder!Received(p, s).fin THEN InOrder!CreditFin(q) ELSE q) = PcbWith(f, w - n)
      BY <1>3, <3>3, RunTaken
    <3>6. InOrder!Input(s)
      BY <3>4, <3>5 DEF InOrder!Input
    <3>7. s \in InOrder!Segment /\ s.acked = 0 /\ ~s.finacked
      BY <1>3, <3>3 DEF RunOf, InOrder!Segment
    <3> HIDE DEF s
    <3> QED BY <3>6, <3>7 DEF InOrder!Next
  <2> QED BY <2>2, <2>3
<1> QED BY <1>1, <1>6, <1>7 DEF Goes

\* tcp_receive with its queue, tcp_recved and the timers implement the receive
\* side as LwipPcb has it: a segment completes a run of bytes that fits the window,
\* and perhaps the FIN, or it changes nothing there.
THEOREM ReceivesInOrder == Spec => ImplementsInOrderReceive
<1>1. Init => InOrder!Init
  BY DEF Init, AsPcb, InOrder!Init, InOrder!tcp_alloc
<1>2. RecvInv /\ [Next]_vars => [InOrder!Next]_(AsPcb)
  BY GoesInOrder
<1> QED BY <1>1, <1>2, ReceiveInvariance, PTL DEF Spec, ImplementsInOrderReceive, InOrder!Spec
=============================================================================
