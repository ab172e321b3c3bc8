--------------------------- MODULE LwipReassembly ---------------------------
(***************************************************************************)
(* The receive side of one lwIP connection at the level of sequence        *)
(* numbers: how tcp_receive trims a segment, delivers it or keeps it on    *)
(* the ooseq queue, how the receive window is consumed, given back and     *)
(* announced, and how an ACK becomes due and is sent (tcp_in.c, tcp.c,     *)
(* tcp_out.c).  LwipPcb knows a segment only as the run of bytes it        *)
(* completes; InOrderReceive states that abstraction and the refinement    *)
(* at the end of this module justifies it.                                 *)
(*                                                                         *)
(* The peer respects the window it was told of.  It may cut the stream     *)
(* into segments in any way, and the network loses, duplicates and         *)
(* reorders: any segment the peer may have sent can arrive at any time.    *)
(* Nothing is queued for sending on our side, so ACKs are empty ones.      *)
(***************************************************************************)
EXTENDS TcpSeq

CONSTANTS
  MaxSeg,       \* bound: bytes of data in a segment
  TCP_WND,      \* receive window of a fresh pcb
  TCP_MSS,
  mss,          \* the maximum segment size of the connection
  RCV_SCALE,    \* windows are announced in units of 2^RCV_SCALE
  MaxAckLoss    \* bound: ACKs that are not sent or do not arrive

ASSUME ReassemblyAssumption ==
  /\ MaxSeg \in Nat \ {0}
  /\ TCP_WND \in Nat /\ TCP_WND >= 2 /\ TCP_MSS \in Nat \ {0} /\ mss \in Nat \ {0}
  /\ RCV_SCALE \in Nat /\ 2^RCV_SCALE \in Nat \ {0} /\ MaxAckLoss \in Nat
  /\ StreamLen + TCP_WND + 1 < SEQ \div 2

VARIABLES
  rcv,        \* the receive part of the pcb
  delivered,  \* the bytes handed to the recv callback
  unread,     \* how many of them tcp_recved has not given back
  peer,       \* una: what the peer knows is acknowledged; edge: its window's end
  ackLost     \* how many ACKs were not sent or did not arrive

vars == <<rcv, delivered, unread, peer, ackLost>>

-----------------------------------------------------------------------------

TCP_WND_UPDATE_THRESHOLD == MinOf(TCP_WND \div 4, TCP_MSS * 4)
RCV_WND_SCALE(wnd) == (wnd \div 2^RCV_SCALE) * 2^RCV_SCALE

\* Segments of the peer's stream.
SeqNo(off) == Add(ISS, off)
PeerSegment(off, n, fin) == SegmentAt(SeqNo(off), off, n, fin)

-----------------------------------------------------------------------------
(* The window that is announced.                                           *)

NewRightEdge(r) == Add(r.rcv_nxt, r.rcv_wnd)

\* The window is announced again only once it can grow by a segment or by
\* half of TCP_WND.
CanAdvertise(r) ==
  TCP_SEQ_GEQ(NewRightEdge(r), Add(r.rcv_ann_right_edge, MinOf(TCP_WND \div 2, mss)))

\* Mutant of tcp_update_rcv_ann_wnd: the right edge is not kept when the
\* window cannot be advertised again yet.
tcp_update_rcv_ann_wnd_shrinks(r) ==
  [r EXCEPT !.rcv_ann_wnd = IF CanAdvertise(r) THEN r.rcv_wnd ELSE 0]

tcp_update_rcv_ann_wnd(r) ==
  [r EXCEPT !.rcv_ann_wnd =
     IF CanAdvertise(r) THEN r.rcv_wnd
     ELSE IF TCP_SEQ_GT(r.rcv_nxt, r.rcv_ann_right_edge) THEN 0
     ELSE Diff(r.rcv_ann_right_edge, r.rcv_nxt)]

\* Mutant of WndInflation: the growth is never found worth an update.
WndInflation_none(r) == 0

\* Its result: the extra window that an update would announce.
WndInflation(r) ==
  IF CanAdvertise(r) THEN Diff(NewRightEdge(r), r.rcv_ann_right_edge) ELSE 0

-----------------------------------------------------------------------------
(* ACKs.  The outcome of sending one is nobuf (no pbuf for the header),    *)
(* noroute (the IP layer refuses the packet), lost or arrived.  x is the   *)
(* part of the state that an ACK changes.                                  *)

Outcomes == {"nobuf", "noroute", "lost", "arrived"}

tcp_ack_now(r) == [r EXCEPT !.ackNow = TRUE]

\* Mutant of tcp_ack: the second segment clears the delayed ACK of the first.
tcp_ack_forgets(r) == [r EXCEPT !.ackDelay = ~@]

\* Every second segment is acknowledged at once.
tcp_ack(r) ==
  IF r.ackDelay THEN tcp_ack_now([r EXCEPT !.ackDelay = FALSE])
                ELSE [r EXCEPT !.ackDelay = TRUE]

Acked(r) == [r EXCEPT !.ackDelay = FALSE, !.ackNow = FALSE]
RetryAck(r) == [r EXCEPT !.ackDelay = TRUE, !.ackNow = TRUE]

\* The header is filled in with the window, which counts as announced from
\* then on.
tcp_output_alloc_header(r) ==
  [r EXCEPT !.rcv_ann_right_edge = Add(r.rcv_nxt, r.rcv_ann_wnd)]

tcp_send_empty_ack(r, outcome) ==
  CASE outcome = "nobuf"   -> RetryAck(r)
    [] outcome = "noroute" -> RetryAck(tcp_output_alloc_header(r))
    [] OTHER               -> Acked(tcp_output_alloc_header(r))

\* tcp_output with nothing unsent.
tcp_output(r, outcome) == IF r.ackNow THEN tcp_send_empty_ack(r, outcome) ELSE r

-----------------------------------------------------------------------------
(* tcp_receive.                                                            *)

\* Mutant of TrimFront: the bytes are kept and only the number is moved.
TrimFront_keepsBytes(r, s) ==
  IF TCP_SEQ_BETWEEN(r.rcv_nxt, Add(s.seqno, 1), Add(s.seqno, TCP_TCPLEN(s) - 1))
    THEN [s EXCEPT !.seqno = r.rcv_nxt]
    ELSE s

\* The bytes before rcv_nxt are cut off a segment that straddles it.
TrimFront(r, s) ==
  IF TCP_SEQ_BETWEEN(r.rcv_nxt, Add(s.seqno, 1), Add(s.seqno, TCP_TCPLEN(s) - 1))
    THEN [s EXCEPT !.seqno = r.rcv_nxt,
                   !.p = SubSeq(@, Diff(r.rcv_nxt, s.seqno) + 1, Len(@))]
    ELSE s

TrimToWindow(r, s) ==
  IF TCP_SEQ_GT(EndOf(s, TRUE), NewRightEdge(r))
    THEN [CutTo(s, Diff(NewRightEdge(r), s.seqno)) EXCEPT !.fin = FALSE]
    ELSE s

InheritsFin(s, covered) == s.fin \/ \E i \in 1 .. Len(covered) : covered[i].fin

\* Mutant: s keeps the bytes that the next queued segment has too.
TrimToNext_missing(s, rest) == s

TrimToNext(s, rest) ==
  IF rest # <<>> /\ TCP_SEQ_GT(EndOf(s, FALSE), Head(rest).seqno)
    THEN CutTo(s, Diff(Head(rest).seqno, s.seqno))
    ELSE s

\* What s leaves of the queue q that follows it, and what q leaves of s.  A
\* FIN ends the stream, so everything queued behind it is freed; else the
\* segments that s covers are freed, and s ends where the next one starts.
CoverOoseq(s, q) ==
  LET Covered(i) == TCP_SEQ_GEQ(EndOf(s, FALSE), EndOf(q[i], FALSE))
      k    == IF s.fin THEN Len(q) ELSE Leading(q, Covered)
      rest == SubSeq(q, k + 1, Len(q))
  IN [rest |-> rest,
      s    |-> [TrimToNext(s, rest) EXCEPT !.fin = InheritsFin(s, SubSeq(q, 1, k))]]

\* How many segments of the queue follow s without a gap.
NowInSequence(s, q) ==
  LET Follows(i) == q[i].seqno = EndOf(IF i = 1 THEN s ELSE q[i - 1], TRUE)
  IN Leading(q, Follows)

\* c.s and the segments of c.rest that follow it are passed on together.
PassOn(r, c) ==
  LET k     == NowInSequence(c.s, c.rest)
      taken == <<c.s>> \o SubSeq(c.rest, 1, k)
      n     == Diff(EndOf(taken[k + 1], TRUE), r.rcv_nxt)
  IN [r   |-> tcp_ack(tcp_update_rcv_ann_wnd(
                [r EXCEPT !.rcv_nxt = Add(@, n), !.rcv_wnd = @ - n,
                          !.ooseq = SubSeq(c.rest, k + 1, Len(c.rest))])),
      out |-> FlattenSeq([i \in 1 .. k + 1 |-> taken[i].p]),
      fin |-> taken[k + 1].fin]

\* s is the next in sequence.
InSequence(r, s) ==
  LET Pass(c) == PassOn(r, c) IN With(CoverOoseq(TrimToWindow(r, s), r.ooseq), Pass)

\* tcp_oos_insert_segment after the first i segments of q; what is left of
\* the i-th ends where s starts.
InsertAfter(q, i, s) ==
  LET c    == CoverOoseq(s, SubSeq(q, i + 1, Len(q)))
      head == [j \in 1 .. i |->
                 IF j = i /\ TCP_SEQ_GT(EndOf(q[i], FALSE), s.seqno)
                   THEN CutTo(q[i], Diff(s.seqno, q[i].seqno))
                   ELSE q[j]]
  IN head \o <<c.s>> \o c.rest

\* The place of s on the queue.  With the seqno of a queued segment the
\* longer of the two is kept, except that the last segment stays; nothing
\* is queued behind a FIN.
Enqueue(r, s) ==
  LET q     == r.ooseq
      same  == {i \in 1 .. Len(q) : q[i].seqno = s.seqno}
      below == {i \in 1 .. Len(q) : TCP_SEQ_LT(q[i].seqno, s.seqno)}
      i     == Cardinality(below)
  IN IF q = <<>> THEN <<s>>
     ELSE IF same # {}
       THEN LET k == CHOOSE k \in same : TRUE IN
            IF Length(s) > Length(q[k]) /\ k < Len(q) THEN InsertAfter(q, k - 1, s) ELSE q
     ELSE IF i < Len(q) THEN InsertAfter(q, i, s)
     ELSE IF q[i].fin THEN q
     ELSE InsertAfter(q, i, TrimToWindow(r, s))

Ignored(r) == [r |-> r, out |-> <<>>, fin |-> FALSE]

InWindow(r, s) == TCP_SEQ_BETWEEN(s.seqno, r.rcv_nxt, Add(NewRightEdge(r), -1))

\* Data and FIN are looked at only before the peer's FIN (state < CLOSE_WAIT).
HasContent(r, s) == TCP_TCPLEN(s) > 0 /\ ~r.fin

\* Mutant of AcksAtOnce: a duplicate is dropped without an ACK.
AcksAtOnce_newOnly(r, s) == HasContent(r, s) /\ TCP_SEQ_GT(s.seqno, r.rcv_nxt)

\* tcp_receive acknowledges at once a segment that is not the next in sequence
\* or not in the window.
AcksAtOnce(r, s) ==
  LET t == TrimFront(r, s) IN
  HasContent(r, s) /\ ~(InWindow(r, t) /\ t.seqno = r.rcv_nxt)

\* What becomes of s, whose part from rcv_nxt on is t.  nomem: tcp_seg_copy
\* fails; outcome: of the empty ACK.
Sort(r, s, t, nomem, outcome) ==
  CASE ~HasContent(r, s) ->
         Ignored(IF InWindow(r, s) THEN r ELSE tcp_ack_now(r))
    [] HasContent(r, s) /\ ~InWindow(r, t) ->
         Ignored(tcp_send_empty_ack(r, outcome))
    [] HasContent(r, s) /\ InWindow(r, t) /\ t.seqno = r.rcv_nxt ->
         InSequence(r, t)
    [] OTHER ->
         Ignored(tcp_send_empty_ack(
           [r EXCEPT !.ooseq = IF nomem THEN @ ELSE Enqueue(r, t)], outcome))

\* The whole of tcp_receive.
tcp_receive(r, s, nomem, outcome) ==
  LET Trimmed(t) == Sort(r, s, t, nomem, outcome) IN With(TrimFront(r, s), Trimmed)

\* Mutant of GotFin: the FIN's sequence number stays taken from the window.
GotFin_uncredited(r) == tcp_ack_now([r EXCEPT !.fin = TRUE])

\* The FIN moves the connection to CLOSE_WAIT, is acknowledged at once, and
\* its sequence number is given back to the window.
GotFin(r) ==
  tcp_ack_now([r EXCEPT !.fin = TRUE,
                        !.rcv_wnd = IF @ = TCP_WND THEN @ ELSE @ + 1])

-----------------------------------------------------------------------------
(* The peer and the network.                                               *)

\* An ACK with the window in r has arrived.
PeerHears(p, r) ==
  [una  |-> MaxOf(p.una, Offset(r.rcv_nxt)),
   edge |-> MaxOf(p.edge, Offset(r.rcv_nxt) + RCV_WND_SCALE(r.rcv_ann_wnd))]

\* What the peer may send: within its window, or the byte or FIN behind it
\* as a probe when the window is closed.
MaySend(off, n, fin) ==
  /\ off + n <= StreamLen
  /\ fin => off + n = StreamLen
  /\ \/ off + n + One(fin) <= peer.edge
     \/ peer.una = peer.edge /\ off = peer.edge /\ n + One(fin) = 1

Init ==
  /\ rcv = [rcv_nxt |-> ISS, rcv_wnd |-> TCP_WND, rcv_ann_wnd |-> TCP_WND,
            rcv_ann_right_edge |-> SeqNo(TCP_WND), ooseq |-> <<>>,
            ackDelay |-> FALSE, ackNow |-> FALSE, fin |-> FALSE]
  /\ delivered = <<>>
  /\ unread = 0
  /\ peer = [una |-> 0, edge |-> RCV_WND_SCALE(TCP_WND)]
  /\ ackLost = 0

\* The rest of tcp_input, after tcp_receive returned got; p is what the peer knows.
Finish(got, p, outcome) ==
  LET r == IF got.fin THEN GotFin(got.r) ELSE got.r
  IN [rcv  |-> tcp_output(r, outcome),
      out  |-> got.out,
      acks |-> r.ackNow,
      peer |-> IF r.ackNow /\ outcome = "arrived" THEN PeerHears(p, r) ELSE p]

\* What tcp_input makes of a segment of this connection.  o1 is the outcome
\* of an ACK from tcp_receive, o2 of the one from the closing tcp_output.
tcp_input(s, nomem, o1, o2) ==
  LET heard    == IF AcksAtOnce(rcv, s) /\ o1 = "arrived" THEN PeerHears(peer, rcv) ELSE peer
      Got(got) == Finish(got, heard, o2)
  IN With(tcp_receive(rcv, s, nomem, o1), Got)

\* A segment arrives; failures are those of what is really tried.
Arrive(s, nomem, o1, o2) ==
  LET x == tcp_input(s, nomem, o1, o2)
  IN /\ o1 # "arrived" \/ nomem => AcksAtOnce(rcv, s)
     /\ o2 # "arrived" => x.acks
     /\ rcv' = x.rcv
     /\ delivered' = delivered \o x.out
     /\ unread' = unread + Len(x.out)
     /\ peer' = x.peer
     /\ ackLost' = ackLost + One(o1 # "arrived") + One(o2 # "arrived")
     /\ ackLost' <= MaxAckLoss

\* tcp_recved, called by the application for n of the bytes it was given.
tcp_recved(n, outcome) ==
  LET wnd == [rcv EXCEPT !.rcv_wnd = MinOf(@ + n, TCP_WND)]
      r   == tcp_update_rcv_ann_wnd(wnd)
      ack == WndInflation(wnd) >= TCP_WND_UPDATE_THRESHOLD
  IN /\ n \in 1 .. unread
     /\ unread' = unread - n
     /\ ~ack => outcome = "arrived"
     /\ rcv' = IF ack THEN tcp_output(tcp_ack_now(r), outcome) ELSE r
     /\ peer' = IF ack /\ outcome = "arrived" THEN PeerHears(peer, r) ELSE peer
     /\ ackLost' = ackLost + One(outcome # "arrived")
     /\ ackLost' <= MaxAckLoss
     /\ UNCHANGED delivered

\* The delayed ACK in tcp_fasttmr.  The flags are cleared whether or not the
\* ACK could be sent.
tcp_fasttmr(outcome) ==
  /\ rcv.ackDelay
  /\ rcv' = Acked(tcp_output(tcp_ack_now(rcv), outcome))
  /\ peer' = IF outcome = "arrived" THEN PeerHears(peer, rcv) ELSE peer
  /\ ackLost' = ackLost + One(outcome # "arrived")
  /\ ackLost' <= MaxAckLoss
  /\ UNCHANGED <<delivered, unread>>

\* tcp_slowtmr after TCP_OOSEQ_TIMEOUT, and pbuf_free_ooseq when the pbuf
\* pool is empty.
tcp_free_ooseq ==
  /\ rcv.ooseq # <<>>
  /\ rcv' = [rcv EXCEPT !.ooseq = <<>>]
  /\ UNCHANGED <<delivered, unread, peer, ackLost>>

Fates == {o \in Outcomes : o = "arrived" \/ ackLost < MaxAckLoss}

\* Any segment the peer may have sent arrives.
Deliver ==
  \E off \in 0 .. StreamLen, n \in 0 .. MaxSeg, fin \in BOOLEAN :
    /\ MaySend(off, n, fin)
    /\ \E nomem \in BOOLEAN, o1, o2 \in Fates : Arrive(PeerSegment(off, n, fin), nomem, o1, o2)

\* What the peer does not know to be acknowledged is sent again.
Unacked ==
  {PeerSegment(peer.una, c[1], c[2]) : c \in
     {m \in (0 .. MaxSeg) \X BOOLEAN : m[1] + One(m[2]) > 0 /\ MaySend(peer.una, m[1], m[2])}}

\* One of these arrives, and its ACK gets through.
Retransmit == \E s \in Unacked : Arrive(s, FALSE, "arrived", "arrived")

\* ENABLED <<Retransmit>>_vars: some of these segments would change something.
RetransmitDue ==
  \E s \in Unacked :
    LET x == tcp_input(s, FALSE, "arrived", "arrived")
    IN x.rcv # rcv \/ x.out # <<>> \/ x.peer # peer

Read == \E n \in 1 .. TCP_WND, o \in Fates : tcp_recved(n, o)
FastTimer == \E o \in Fates : tcp_fasttmr(o)

Next == Deliver \/ Read \/ FastTimer \/ tcp_free_ooseq

Spec == Init /\ [][Next]_vars

\* The peer retransmits until it is acknowledged and probes a closed window;
\* TunForge acknowledges the data it was given; the timers run.
\* The first conjunct is WF_vars(Retransmit), its ENABLED written out.
Fairness ==
  /\ []<>~RetransmitDue \/ []<><<Retransmit>>_vars
  /\ WF_vars(Read)
  /\ WF_vars(FastTimer)

FairSpec == Spec /\ Fairness

-----------------------------------------------------------------------------
(* Properties.                                                             *)

TypeOK ==
  /\ DOMAIN rcv = {"rcv_nxt", "rcv_wnd", "rcv_ann_wnd", "rcv_ann_right_edge",
                   "ooseq", "ackDelay", "ackNow", "fin"}
  /\ rcv.rcv_nxt \in 0 .. SEQ - 1 /\ rcv.rcv_ann_right_edge \in 0 .. SEQ - 1
  /\ rcv.rcv_wnd \in 0 .. TCP_WND /\ rcv.rcv_ann_wnd \in 0 .. TCP_WND
  /\ rcv.ackDelay \in BOOLEAN /\ rcv.ackNow \in BOOLEAN /\ rcv.fin \in BOOLEAN
  /\ unread \in 0 .. TCP_WND
  /\ peer \in [una : 0 .. StreamLen + 1, edge : Nat]
  /\ ackLost \in 0 .. MaxAckLoss

\* However tcp_receive cuts and joins the segments it is given, the recv
\* callback gets the peer's bytes, each once and in order, rcv_nxt counts them
\* across the wrap of the sequence number, and EOF comes after the last one.
StreamInOrder ==
  /\ \A i \in 1 .. Len(delivered) : delivered[i] = i - 1
  /\ rcv.rcv_nxt = SeqNo(Len(delivered) + One(rcv.fin))
  /\ rcv.fin => Len(delivered) = StreamLen

\* The ooseq queue that tcp_receive walks is sorted and without overlap, every
\* segment on it is in the window and holds the bytes its seqno says, and only
\* the last can have the FIN, the peer's.
OoseqSorted ==
  \A i \in 1 .. Len(rcv.ooseq) :
    LET s == rcv.ooseq[i] IN
    /\ TCP_TCPLEN(s) > 0
    /\ \A j \in 1 .. Length(s) : SeqNo(s.p[j]) = Add(s.seqno, j - 1)
    /\ TCP_SEQ_GT(s.seqno, rcv.rcv_nxt)
    /\ TCP_SEQ_LEQ(EndOf(s, TRUE), NewRightEdge(rcv))
    /\ i < Len(rcv.ooseq) => TCP_SEQ_LEQ(EndOf(s, TRUE), rcv.ooseq[i + 1].seqno)
    /\ s.fin => EndOf(s, FALSE) = SeqNo(StreamLen)

\* The window that tcp_update_rcv_ann_wnd announces is never more than
\* what rcv_wnd can take, so bytes sent within it are accepted when they come,
\* also long after a later ACK; every byte handed over is missing from rcv_wnd
\* until tcp_recved gives it back, and the FIN is not.
WindowHonest ==
  /\ rcv.rcv_ann_wnd <= rcv.rcv_wnd
  /\ peer.edge <= Offset(NewRightEdge(rcv))
  /\ rcv.rcv_wnd + unread = TCP_WND

\* The end of the announced window, rcv_ann_right_edge, never moves back: not
\* when data is taken before the next update, nor when a probe is taken beyond
\* it, nor when an ACK that announced it could not be sent.
EdgeHolds ==
  [][\/ rcv'.rcv_ann_right_edge = rcv.rcv_ann_right_edge
     \/ TCP_SEQ_GT(rcv'.rcv_ann_right_edge, rcv.rcv_ann_right_edge)]_vars

\* What was received and not acknowledged has an ACK pending, as long as every
\* ACK that was tried got through.
AckPending ==
  ackLost = 0 /\ Offset(rcv.rcv_nxt) > peer.una => rcv.ackDelay \/ rcv.ackNow

\* As long as every ACK that was tried got through, the peer has been told of
\* the window up to less than TCP_WND_UPDATE_THRESHOLD or a segment: what the
\* application gives back is announced in time, and the peer is not left with a
\* closed window.
NoWindowStall ==
  ackLost = 0 /\ ~rcv.fin =>
    Offset(NewRightEdge(rcv)) - peer.edge <
      MaxOf(TCP_WND_UPDATE_THRESHOLD, MinOf(TCP_WND \div 2, mss)) + 2^RCV_SCALE - 1

\* The whole stream and its end reach the application, whatever is lost,
\* reordered, dropped from the queue or acknowledged in vain in between.
WholeStreamDelivered == <>(rcv.fin /\ Len(delivered) = StreamLen)

\* The receive side as LwipPcb has it: the run of bytes that a segment
\* completes in order is all that LwipPcb needs to know of it.
AsPcb ==
  [state |-> IF rcv.fin THEN "CLOSE_WAIT" ELSE "ESTABLISHED", callbacks |-> FALSE,
   backlogpend |-> TRUE, rxclosed |-> FALSE, closepend |-> FALSE,
   rcv_wnd |-> rcv.rcv_wnd, refused |-> 0, refusedFin |-> FALSE, snd_buf |-> 1]

InOrder == INSTANCE InOrderReceive
             WITH pcb <- AsPcb, TCP_SND_BUF <- 1, MaxRun <- TCP_WND

\* tcp_receive with its queue implements LwipPcb's view: every segment either
\* completes a run that fits the window or changes nothing there.
ImplementsInOrderReceive == InOrder!Spec
=============================================================================
