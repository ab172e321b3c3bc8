----------------------------- MODULE LwipOutput -----------------------------
(***************************************************************************)
(* The send side of one lwIP connection at the level of sequence numbers:  *)
(* tcp_write and tcp_send_fin queue segments on unsent, tcp_output moves   *)
(* them to unacked as the peer's window, the congestion window and Nagle's *)
(* algorithm allow, ACKs free them, and tcp_slowtmr retransmits them,      *)
(* probes a closed window or splits a segment for a small one (tcp_out.c,  *)
(* tcp_in.c, tcp.c).                                                       *)
(*                                                                         *)
(* Time is abstracted to "a timer that runs may expire", and the           *)
(* congestion window to one mss after a timeout and any member of CWnds    *)
(* after an ACK of new data.  The peer takes segments in sequence and      *)
(* within its window; the network loses, duplicates and reorders segments  *)
(* and ACKs.                                                               *)
(***************************************************************************)
EXTENDS TcpSeq

CONSTANTS
  TCP_SND_BUF,
  TCP_SND_QUEUELEN,  \* here in segments
  TCP_MAXRTX,
  mss,
  PeerWnd,           \* the peer's receive buffer
  FirstWnd,          \* the window in the peer's SYN
  MaxFail,           \* bound: failures of an allocation
  MaxEdge,           \* bound: where the peer's window stops growing
  WriteSizes,        \* how much writeBytes is given
  CWnds              \* congestion windows; none is below one mss

ASSUME OutputAssumption ==
  /\ TCP_SND_BUF \in Nat \ {0} /\ TCP_SND_QUEUELEN \in Nat \ {0}
  /\ TCP_MAXRTX \in Nat \ {0} /\ mss \in Nat \ {0}
  /\ PeerWnd \in Nat \ {0} /\ FirstWnd \in 2 .. PeerWnd
  /\ MaxFail \in Nat /\ MaxEdge \in Nat
  /\ WriteSizes \subseteq Nat \ {0}
  /\ CWnds \subseteq Nat /\ mss \in CWnds /\ \A c \in CWnds : c >= mss
  /\ StreamLen + PeerWnd + 1 < SEQ \div 2

VARIABLES
  snd,       \* the send part of the pcb
  wire,      \* the segments that were sent
  peer,      \* nxt: bytes the peer has taken; edge: its window's end; fin: it has our FIN
  fails,     \* how many failures there were
  finSplit   \* a segment with the FIN was split

vars == <<snd, wire, peer, fails, finSplit>>

\* unacked and unsent are the queues; persist is persist_backoff > 0 and
\* rtxTimer rtime >= 0; alive turns FALSE when tcp_slowtmr removes the pcb.
InitialSnd ==
  [unsent |-> <<>>, unacked |-> <<>>, snd_nxt |-> ISS, lastack |-> ISS, snd_lbb |-> ISS,
   snd_buf |-> TCP_SND_BUF, snd_wnd |-> FirstWnd, snd_wnd_max |-> FirstWnd, snd_wl2 |-> ISS,
   cwnd |-> mss, dupacks |-> 0, nrtx |-> 0, persist |-> FALSE, persist_probe |-> 0,
   rtxTimer |-> FALSE, infr |-> FALSE, naglememerr |-> FALSE, finQueued |-> FALSE,
   alive |-> TRUE]

Queued(q) == q.unacked \o q.unsent

snd_queuelen(q) == Len(Queued(q))

-----------------------------------------------------------------------------
(* tcp_write and tcp_send_fin.                                             *)

\* No segment is larger than half the largest window of the peer, which only
\* grows.  (A first window below 2 would be an exception to that.)
MssLocal(q) ==
  LET half == MinOf(mss, q.snd_wnd_max \div 2) IN IF half = 0 THEN mss ELSE half

\* The bytes that the last unsent segment takes before new ones are made.
Space(q, len) ==
  IF q.unsent # <<>>
    THEN MinOf(len, MssLocal(q) - Length(Last(q.unsent)))
    ELSE 0

\* New segments for the bytes of a write behind the first pos.
NewSegments(q, pos, len) ==
  LET m == MssLocal(q)
      At(i) == pos + (i - 1) * m
  IN [i \in 1 .. (len - pos + m - 1) \div m |->
        SegmentAt(Add(q.snd_lbb, At(i)), Offset(q.snd_lbb) + At(i),
                  MinOf(m, len - At(i)), FALSE)]

Extend(s, n) == [s EXCEPT !.p = @ \o [i \in 1 .. n |-> s.p[Len(s.p)] + i]]

\* len bytes are queued, or nothing when nomem.
tcp_write(q, len, nomem) ==
  LET space == Space(q, len)
      kept  == IF space > 0
                 THEN Append(Front(q.unsent), Extend(Last(q.unsent), space))
                 ELSE q.unsent
      all   == kept \o NewSegments(q, space, len)
  IN IF nomem \/ len > q.snd_buf
        \/ snd_queuelen(q) >= TCP_SND_QUEUELEN
        \/ Len(q.unacked) + Len(all) > TCP_SND_QUEUELEN
       THEN [q EXCEPT !.naglememerr = TRUE]
       ELSE [q EXCEPT !.unsent = all, !.snd_lbb = Add(@, len), !.snd_buf = @ - len]

\* The FIN goes on the last unsent segment, or is a segment of its own.
tcp_send_fin(q) ==
  IF q.unsent # <<>>
    THEN [q EXCEPT !.unsent[Len(q.unsent)].fin = TRUE, !.finQueued = TRUE]
    ELSE [q EXCEPT !.unsent = <<SegmentAt(q.snd_lbb, 0, 0, TRUE)>>,
                   !.snd_lbb = Add(@, 1), !.finQueued = TRUE]

-----------------------------------------------------------------------------
(* tcp_output.                                                             *)

SendWindow(q) == MinOf(q.snd_wnd, q.cwnd)

Fits(q, s) == Add(Diff(s.seqno, q.lastack), Length(s)) <= SendWindow(q)

\* Nagle's algorithm for the i-th of the unsent segments, the ones before it
\* having been sent, and its exceptions.
MayGo(q, i) ==
  \/ q.unacked = <<>> /\ i = 1
  \/ q.infr
  \/ i < Len(q.unsent)
  \/ Length(q.unsent[i]) >= mss
  \/ q.snd_buf = 0
  \/ snd_queuelen(q) >= TCP_SND_QUEUELEN
  \/ q.naglememerr
  \/ q.finQueued

\* How many segments tcp_output sends.
Sendable(q) ==
  LET Goes(i) == Fits(q, q.unsent[i]) /\ MayGo(q, i) IN Leading(q.unsent, Goes)

\* Mutant of StartPersist: the persist timer is not started.
StartPersist_never(q) == q

\* Mutant of StartPersist: it is started with segments in flight as well.
StartPersist_inFlight(q) ==
  IF SendWindow(q) = q.snd_wnd /\ ~q.persist
    THEN [q EXCEPT !.persist = TRUE, !.persist_probe = 0]
    ELSE q

\* The next segment does not fit the peer's window and nothing is in flight
\* that could bring an ACK: the persist timer is started.
StartPersist(q) ==
  IF SendWindow(q) = q.snd_wnd /\ q.unacked = <<>> /\ ~q.persist
    THEN [q EXCEPT !.persist = TRUE, !.persist_probe = 0]
    ELSE q

BySeqno(s, t) == TCP_SEQ_LT(s.seqno, t.seqno)

\* s is put where its seqno belongs in a queue.
Insert(segs, s) ==
  LET Before(i) == BySeqno(segs[i], s) IN InsertAt(segs, Leading(segs, Before) + 1, s)

\* The first k unsent segments have left: they go to the tail of unacked.  Only
\* one that tcp_rexmit has put back belongs before the tail; it is the first,
\* and tcp_rexmit puts back one at a time.
Sent(q, k) ==
  LET gone  == SubSeq(q.unsent, 1, k)
      end   == EndOf(gone[k], TRUE)
      again == q.unacked # <<>> /\ BySeqno(gone[1], Last(q.unacked))
  IN IF k = 0 THEN q
     ELSE [q EXCEPT !.unsent = SubSeq(@, k + 1, Len(@)),
                    !.unacked = IF again THEN Insert(@, gone[1]) \o Tail(gone) ELSE @ \o gone,
                    !.snd_nxt = IF TCP_SEQ_LT(@, end) THEN end ELSE @,
                    !.rtxTimer = TRUE]

\* ip_output_if does not fail here: a segment fits the MTU and
\* tunforge_output always returns ERR_OK.  (There is no receive side and so no
\* TF_ACK_NOW, with which a head that does not fit would leave TF_NAGLEMEMERR
\* as it is.)
tcp_output(q) ==
  LET r == IF q.unsent = <<>> THEN q
           ELSE IF ~Fits(q, Head(q.unsent)) THEN StartPersist(q)
           ELSE [Sent(q, Sendable(q)) EXCEPT !.persist = FALSE]
  IN [r EXCEPT !.naglememerr = FALSE]

\* The segments that this call puts on the wire.
Leaving(q) == {q.unsent[i] : i \in 1 .. Sendable(q)}

-----------------------------------------------------------------------------
(* Retransmission.                                                         *)

\* Mutant of tcp_rexmit: the segment goes to the end of the unsent queue.
tcp_rexmit_atEnd(q) ==
  [q EXCEPT !.unacked = Tail(@), !.unsent = Append(@, Head(q.unacked)),
            !.nrtx = MinOf(@ + 1, TCP_MAXRTX)]

\* The first unacked segment goes back to the unsent queue, which stays
\* sorted.
tcp_rexmit(q) ==
  [q EXCEPT !.unacked = Tail(@), !.unsent = Insert(@, Head(q.unacked)),
            !.nrtx = MinOf(@ + 1, TCP_MAXRTX)]

tcp_rexmit_fast(q) ==
  IF q.unacked # <<>> /\ ~q.infr
    THEN [tcp_rexmit(q) EXCEPT !.infr = TRUE, !.rtxTimer = TRUE,
                               !.cwnd = MaxOf(5 * mss, TCP_SND_BUF)]
    ELSE q

\* Everything in flight goes back to the unsent queue and is sent again from
\* the start with a congestion window of one segment.
tcp_rexmit_rto(q) ==
  [q EXCEPT !.unsent = Queued(q), !.unacked = <<>>, !.rtxTimer = TRUE, !.cwnd = mss,
            !.nrtx = MinOf(@ + 1, TCP_MAXRTX)]

\* Mutant of tcp_split_unsent_seg: the remainder is dropped.
tcp_split_unsent_seg_drops(q, split) ==
  LET s == Head(q.unsent) IN
  IF Length(s) <= split THEN q ELSE [q EXCEPT !.unsent[1] = CutTo(s, split)]

\* The head of the unsent queue is split so that split bytes of it fit the
\* window.  The FIN is copied to the remainder and TCPH_SET_FLAG, which only
\* adds flags, leaves it on the head as well.
tcp_split_unsent_seg(q, split) ==
  LET s    == Head(q.unsent)
      rest == [s EXCEPT !.seqno = Add(@, split), !.p = SubSeq(@, split + 1, Len(@))]
  IN IF Length(s) <= split
       THEN q
       ELSE [q EXCEPT !.unsent = <<CutTo(s, split), rest>> \o Tail(@)]

\* Mutant of Probe: the FIN of the segment is on the probe of its first byte.
Probe_keepsFin(s) == CutTo(s, 1)

\* One byte, or the FIN, of the head of the unsent queue.  It stays there.
Probe(s) == IF Length(s) = 0 THEN s ELSE [CutTo(s, 1) EXCEPT !.fin = FALSE]

tcp_zero_window_probe(q) ==
  LET end == Add(Head(q.unsent).seqno, 1) IN
  [q EXCEPT !.persist_probe = MinOf(@ + 1, TCP_MAXRTX),
            !.snd_nxt = IF TCP_SEQ_LT(@, end) THEN end ELSE @]

-----------------------------------------------------------------------------
(* ACKs.                                                                   *)

\* Mutant of UpdateWindow: an old ACK changes the window.
UpdateWindow_always(q, ackno, wnd) ==
  [q EXCEPT !.snd_wnd = wnd, !.snd_wnd_max = MaxOf(@, wnd), !.snd_wl2 = ackno]

\* The window is taken from an ACK that is newer than the last one used, or
\* as new and with a larger window.
UpdateWindow(q, ackno, wnd) ==
  IF TCP_SEQ_LT(q.snd_wl2, ackno) \/ (q.snd_wl2 = ackno /\ wnd > q.snd_wnd)
    THEN [q EXCEPT !.snd_wnd = wnd, !.snd_wnd_max = MaxOf(@, wnd), !.snd_wl2 = ackno]
    ELSE q

\* tcp_free_acked_segments.
Unfreed(segs, ackno) ==
  LET Acked(i) == TCP_SEQ_LEQ(EndOf(segs[i], TRUE), ackno)
  IN SubSeq(segs, Leading(segs, Acked) + 1, Len(segs))

Bytes(segs) == Cardinality(UNION {{i} \X DOMAIN segs[i].p : i \in DOMAIN segs})

\* Mutant of AckNew: the retransmission timer stops at every ACK of new data.
AckNew_stopsTimer(q, ackno, c) ==
  LET unacked == Unfreed(q.unacked, ackno)
      unsent  == Unfreed(q.unsent, ackno)
  IN [q EXCEPT !.unacked = unacked, !.unsent = unsent, !.lastack = ackno,
               !.snd_buf = @ + Bytes(Queued(q)) - Bytes(unacked \o unsent),
               !.infr = FALSE, !.nrtx = 0, !.dupacks = 0, !.cwnd = c,
               !.rtxTimer = FALSE]

\* New data is acknowledged; c is the congestion window from then on.
AckNew(q, ackno, c) ==
  LET unacked == Unfreed(q.unacked, ackno)
      unsent  == Unfreed(q.unsent, ackno)
  IN [q EXCEPT !.unacked = unacked, !.unsent = unsent, !.lastack = ackno,
               !.snd_buf = @ + Bytes(Queued(q)) - Bytes(unacked \o unsent),
               !.infr = FALSE, !.nrtx = 0, !.dupacks = 0, !.cwnd = c,
               !.rtxTimer = unacked # <<>>]

\* The third ACK that repeats lastack and the window makes the first segment
\* be sent again.
AckOld(q, before, ackno) ==
  IF /\ ackno = q.lastack /\ q.rtxTimer
     /\ Add(q.snd_wl2, q.snd_wnd) = Add(before.snd_wl2, before.snd_wnd)
    THEN LET r == [q EXCEPT !.dupacks = MinOf(@ + 1, 3)]
         IN IF r.dupacks = 3 THEN tcp_rexmit_fast(r) ELSE r
    ELSE q

\* The part of tcp_process and tcp_receive that is about the ACK.
tcp_receive(q0, ackno, wnd, c) ==
  LET q == [UpdateWindow(q0, ackno, wnd) EXCEPT !.persist_probe = 0]
  IN IF TCP_SEQ_LEQ(ackno, q.lastack) THEN AckOld(q, q0, ackno)
     ELSE IF TCP_SEQ_LEQ(ackno, q.snd_nxt) THEN AckNew(q, ackno, c)
     ELSE q

-----------------------------------------------------------------------------
(* The steps.                                                              *)

\* The first congestion window (LWIP_TCP_CALC_INITIAL_CWND) is some segments.
Init ==
  /\ \E c \in CWnds : snd = [InitialSnd EXCEPT !.cwnd = c]
  /\ wire = {}
  /\ peer = [nxt |-> 0, edge |-> FirstWnd, fin |-> FALSE]
  /\ fails = 0
  /\ finSplit = FALSE

Failed(b) == fails' = fails + One(b) /\ fails' <= MaxFail

\* A segment in which nothing is new to the peer p is forgotten: it changes
\* nothing, and the ACK that it brings about may arrive anyway.
News(segs, p) ==
  {s \in segs : LET end == Offset(s.seqno) + Length(s)
                IN end > p.nxt \/ (s.fin /\ end = p.nxt /\ ~p.fin)}

\* tcp_output at the end of a step that has made q of snd.
Output(q) == snd' = tcp_output(q) /\ wire' = News(wire \cup Leaving(q), peer)

\* writeBytes: tcp_write, and tcp_output when that has succeeded.
Write(len, nomem) ==
  /\ snd.alive /\ ~snd.finQueued
  /\ Offset(snd.snd_lbb) + len <= StreamLen
  /\ LET q == tcp_write(snd, len, nomem) IN
     IF q.snd_lbb = snd.snd_lbb
       THEN snd' = q /\ wire' = wire
       ELSE Output(q)
  /\ Failed(nomem)
  /\ UNCHANGED <<peer, finSplit>>

\* shutdownWrite or gracefulClose: the FIN is queued, unless it needs
\* a segment of its own and there is no memory (tcp_close then tries again).
Shutdown(nomem) ==
  /\ snd.alive /\ ~snd.finQueued
  /\ IF nomem /\ snd.unsent = <<>>
       THEN snd' = [snd EXCEPT !.naglememerr = TRUE] /\ wire' = wire
       ELSE Output(tcp_send_fin(snd))
  /\ Failed(nomem)
  /\ UNCHANGED <<peer, finSplit>>

\* tcp_input for an ACK.
Ack(ackno, wnd, c) ==
  /\ snd.alive
  /\ Output(tcp_receive(snd, ackno, wnd, c))
  /\ UNCHANGED <<peer, fails, finSplit>>

\* tcp_slowtmr gives the connection up.
GiveUp ==
  /\ snd.alive
  /\ snd.nrtx >= TCP_MAXRTX \/ (snd.persist /\ snd.persist_probe >= TCP_MAXRTX)
  /\ snd' = [snd EXCEPT !.alive = FALSE, !.unsent = <<>>, !.unacked = <<>>,
                        !.persist = FALSE, !.rtxTimer = FALSE]
  /\ UNCHANGED <<wire, peer, fails, finSplit>>

TimerRuns == snd.alive /\ snd.nrtx < TCP_MAXRTX

\* The retransmission timer expires.
Rto ==
  /\ TimerRuns /\ ~snd.persist /\ snd.rtxTimer
  /\ Queued(snd) # <<>>
  /\ Output(tcp_rexmit_rto(snd))
  /\ UNCHANGED <<peer, fails, finSplit>>

PersistRuns ==
  TimerRuns /\ snd.persist /\ snd.persist_probe < TCP_MAXRTX /\ snd.unsent # <<>>

\* The persist timer expires with the window closed.  Without a pbuf for the
\* probe only persist_probe is counted.
ZeroWindowProbe(nomem) ==
  LET q == tcp_zero_window_probe(snd) IN
  /\ PersistRuns /\ snd.snd_wnd = 0
  /\ snd' = IF nomem THEN [q EXCEPT !.snd_nxt = snd.snd_nxt] ELSE q
  /\ wire' = IF nomem THEN wire ELSE News(wire \cup {Probe(Head(snd.unsent))}, peer)
  /\ Failed(nomem)
  /\ UNCHANGED <<peer, finSplit>>

\* The persist timer expires with the window too small for the next segment.
SplitForWindow(nomem) ==
  LET q == IF nomem THEN snd ELSE tcp_split_unsent_seg(snd, snd.snd_wnd) IN
  /\ PersistRuns /\ snd.snd_wnd > 0
  /\ IF nomem THEN UNCHANGED <<snd, wire>> ELSE Output(q)
  /\ finSplit' = (finSplit \/ (q.unsent # snd.unsent /\ Head(snd.unsent).fin))
  /\ Failed(nomem)
  /\ UNCHANGED peer

\* The peer takes what is new of a segment, as far as it has room.
Take(s) ==
  LET from == Offset(s.seqno)
      to   == MinOf(from + Length(s), peer.edge)
  IN /\ ~peer.fin /\ from <= peer.nxt
     /\ to > peer.nxt \/ (s.fin /\ from + Length(s) = peer.nxt)
     /\ peer' = [peer EXCEPT !.nxt = to, !.fin = s.fin /\ to = from + Length(s)]
     /\ wire' = News(wire, peer')
     /\ UNCHANGED <<snd, fails, finSplit>>

\* The peer's application makes room.
PeerRead ==
  /\ ~peer.fin
  /\ \E edge \in peer.edge + 1 .. MinOf(peer.nxt + PeerWnd, MaxEdge) :
       peer' = [peer EXCEPT !.edge = edge]
  /\ UNCHANGED <<snd, wire, fails, finSplit>>

NoMem == {FALSE} \cup (IF fails < MaxFail THEN {TRUE} ELSE {})

PeerAck == peer.nxt + One(peer.fin)

\* Any ACK the peer may have sent arrives: it offers no more than the peer's
\* window is now, and the peer takes no window back.  (The congestion window
\* only changes with an ACK of new data.)
AckArrives ==
  \E a \in 0 .. PeerAck, wnd \in 0 .. PeerWnd, c \in CWnds :
    /\ a <= Offset(snd.lastack) => c = mss
    /\ a + wnd <= MaxOf(a, peer.edge)
    /\ a > Offset(snd.snd_wl2) => a + wnd >= Offset(snd.snd_wl2) + snd.snd_wnd
    /\ Ack(Add(ISS, a), wnd, c)

\* The peer's present ACK arrives.
FreshAck ==
  \E c \in CWnds : Ack(Add(ISS, PeerAck), MaxOf(peer.edge - PeerAck, 0), c)

SlowTimer ==
  \/ GiveUp
  \/ Rto
  \/ \E nomem \in NoMem : ZeroWindowProbe(nomem) \/ SplitForWindow(nomem)

Application ==
  \E nomem \in NoMem : Shutdown(nomem) \/ \E len \in WriteSizes : Write(len, nomem)

Peer == PeerRead \/ \E s \in wire : Take(s)

Next == Application \/ AckArrives \/ SlowTimer \/ Peer

Spec == Init /\ [][Next]_vars

\* The conditions for the fair steps below.
CanRead == ~peer.fin /\ peer.edge < MinOf(peer.nxt + PeerWnd, MaxEdge)
AckIsNews ==
  snd.alive /\ (Offset(snd.lastack) # PeerAck \/ PeerAck + snd.snd_wnd < peer.edge)
TimerDue ==
  /\ snd.alive
  /\ IF ~snd.persist
       THEN snd.rtxTimer /\ Queued(snd) # <<>>
       ELSE /\ snd.unsent # <<>>
            /\ \/ snd.snd_wnd = 0 \/ Length(Head(snd.unsent)) > snd.snd_wnd
               \/ Fits(snd, Head(snd.unsent))

SlowTimerWorks ==
  GiveUp \/ Rto \/ ZeroWindowProbe(FALSE) \/ SplitForWindow(FALSE)

\* The peer's application reads, and tcp_slowtmr is called again and again.
\* Segments and ACKs may all be lost, but not if the timer sends forever: then
\* some copy gets through, and so does the peer's answer.  (Weak fairness, with
\* the conditions written out.)
FairSpec ==
  /\ Spec
  /\ []<>~CanRead \/ []<><<PeerRead>>_vars
  /\ []<>~TimerDue \/ []<><<SlowTimerWorks>>_vars
  /\ []<><<SlowTimerWorks>>_vars =>
       /\ WF_vars(\E s \in wire : Take(s))
       /\ []<>~AckIsNews \/ []<><<FreshAck>>_vars

-----------------------------------------------------------------------------
(* Properties.                                                             *)

\* The types of the variables.
TypeOK ==
  /\ \A f \in {"snd_nxt", "lastack", "snd_lbb", "snd_wl2"} : snd[f] \in SeqNos
  /\ \A s \in Range(Queued(snd)) \cup wire :
       s.seqno \in SeqNos /\ s.fin \in BOOLEAN /\ s.p \in Seq(0 .. StreamLen - 1)
  /\ snd.snd_buf \in 0 .. TCP_SND_BUF
  /\ snd.snd_wnd \in 0 .. PeerWnd /\ snd.snd_wnd_max \in snd.snd_wnd .. PeerWnd
  /\ snd.nrtx \in 0 .. TCP_MAXRTX /\ snd.persist_probe \in 0 .. TCP_MAXRTX
  /\ peer \in [nxt : 0 .. StreamLen, edge : FirstWnd .. StreamLen + PeerWnd, fin : BOOLEAN]
  /\ fails \in 0 .. MaxFail /\ finSplit \in BOOLEAN

\* Whatever was written, retransmitted, split and acknowledged in part: the
\* two queues together hold every byte from the last one acknowledged to
\* snd_lbb exactly once, each under its own sequence number (what tcp_write,
\* tcp_output, tcp_rexmit, tcp_split_unsent_seg and tcp_free_acked_segments
\* keep up between them).  Two exceptions: a split of the segment with the FIN
\* counts the FIN twice (split_fin), and while the persist timer runs the head
\* may lie before lastack altogether, a split having cut off what was
\* acknowledged (split_stall).
QueuesContiguous ==
  snd.alive /\ ~finSplit =>
    LET all == Queued(snd) IN
    /\ \A i \in 2 .. Len(all) : all[i].seqno = EndOf(all[i - 1], TRUE)
    /\ \A s \in Range(all) : \A j \in 1 .. Length(s) : s.p[j] = Offset(s.seqno) + j - 1
    /\ all # <<>> =>
         /\ TCP_SEQ_LEQ(all[1].seqno, snd.lastack)
         /\ snd.persist \/ TCP_SEQ_LEQ(snd.lastack, EndOf(all[1], TRUE))
         /\ EndOf(Last(all), Length(Last(all)) = 0) = snd.snd_lbb

\* snd_buf is what the queues leave of TCP_SND_BUF, so that the space that
\* writeBytes sees comes back (tcp_write takes it, tcp_receive returns what
\* tcp_free_acked_segments has counted).
SndBufAccounted ==
  snd.alive => snd.snd_buf + Bytes(Queued(snd)) = TCP_SND_BUF

\* tcp_slowtmr's assertion "persist ticking with in-flight data": the
\* persist timer only runs with nothing in flight, so that the retransmission
\* it suspends is not needed.
PersistWithoutFlight == snd.persist => snd.unacked = <<>>

\* What tcp_slowtmr leaves at the head of the unsent queue when the persist
\* timer expires with the window open.
FirstPart == LET s == Head(snd.unsent) IN CutTo(s, MinOf(Length(s), snd.snd_wnd))

\* All of s was acknowledged, and its sequence number is too far back for
\* tcp_output's "seqno - lastack + len", which is unsigned, to fit a window.
Behind(s) == TCP_SEQ_LT(EndOf(s, FALSE), snd.lastack)

\* While something is queued a timer runs, and its next expiry puts something
\* on the wire: the persist timer a probe or the first part of the head, which
\* fits the window, and the retransmission timer the head, which fits with a
\* congestion window of one mss.  No order of ACKs, window updates, failed
\* allocations and timeouts leaves the queue to wait for an event that need not
\* come, but for the one that split_stall reports: the part that
\* tcp_split_unsent_seg would cut off was acknowledged already.
NoSendStall ==
  snd.alive /\ Queued(snd) # <<>> =>
    IF snd.persist
      THEN /\ snd.unsent # <<>>
           /\ snd.snd_wnd = 0 \/ Fits(snd, FirstPart) \/ Behind(FirstPart)
      ELSE snd.rtxTimer /\ Fits([snd EXCEPT !.cwnd = mss], Head(Queued(snd)))

\* Nothing is sent past the window that the peer has offered, but for
\* the one byte of a probe (tcp_output, UpdateWindow and the persist timer).
\* The wire does not tell a probe from another segment of one byte, so that
\* none of those is looked at.
PeerNotOverrun ==
  \A s \in wire : Offset(s.seqno) + Length(s) <= peer.edge \/ Length(s) = 1

\* Nothing that was sent or is queued lies behind the FIN that the
\* peer has taken.
NothingAfterFin ==
  peer.fin => \A s \in Range(Queued(snd)) \cup wire : Offset(s.seqno) + Length(s) <= peer.nxt

\* The peer takes the FIN after all that was written, as long as no
\* segment with the FIN was split.
FinIsLast == ~finSplit => NothingAfterFin

\* tcp_slowtmr's comment on the persist timer while the window is open, "split
\* unsent head and fill window": what tcp_split_unsent_seg leaves at the head is
\* sent.
SplitFillsWindow == [][SplitForWindow(FALSE) => ~snd'.persist]_vars

\* tcp_slowtmr's assertion "persist ticking with empty send buffer".
PersistHasData == snd.alive /\ snd.persist => snd.unsent # <<>>

\* Everything that is queued is acknowledged, or the connection given up, in
\* the end: retransmission, persist timer and window updates make progress
\* together.  The two ways in which it fails are the findings on
\* tcp_split_unsent_seg: the head stays behind lastack and is never sent
\* (split_stall), or the peer has taken a FIN with data behind it (split_fin).
Drains ==
  \/ []<>(~snd.alive \/ Queued(snd) = <<>>)
  \/ <>[](snd.unsent # <<>> /\ Behind(Head(snd.unsent)))
  \/ <>[]~NothingAfterFin
=============================================================================
