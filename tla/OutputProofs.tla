---------------------------- MODULE OutputProofs ----------------------------
(***************************************************************************)
(* Proofs about LwipOutput: the queues hold the stream without a gap, the  *)
(* send buffer is accounted for, the persist timer runs with nothing in    *)
(* flight, the timer that runs while something is queued sends it, and the *)
(* peer is neither overrun nor given the FIN early.                        *)
(*                                                                         *)
(* OutInv is the inductive invariant.  Nearly every step ends in           *)
(* tcp_output, so it is proved in two parts: what a step makes of the pcb  *)
(* before tcp_output is Ready, and tcp_output makes of a Ready pcb one for *)
(* which OutInv holds (OutputSends, Posted, OutputKeeps).  Fast retransmit *)
(* is the exception: tcp_rexmit_fast leaves an unacked queue that begins   *)
(* behind the unsent one, and only tcp_output puts it right (FastSends).   *)
(***************************************************************************)
EXTENDS QueueProofs

-----------------------------------------------------------------------------
(* The inductive invariant.                                                *)

\* The sequence numbers and windows of the pcb.
Numbers(q) ==
  /\ Offset(q.lastack) <= Offset(q.snd_nxt)
  /\ Offset(q.snd_nxt) <= Offset(q.snd_lbb) + One(q.finQueued)
  /\ Offset(q.snd_lbb) <= StreamLen + One(q.finQueued)
  /\ q.snd_wl2 = q.lastack
  /\ q.cwnd >= mss /\ q.snd_wnd <= q.snd_wnd_max /\ q.snd_wnd_max >= 2

\* What is in flight lies within the peer's window, and its timer runs.
Flight(q) ==
  /\ q.unacked # <<>> => q.rtxTimer /\ ~q.persist
  /\ \A i \in 1 .. Len(q.unacked) : Stop(q.unacked[i]) <= Offset(q.lastack) + q.snd_wnd

\* The first segment is not wholly acknowledged, unless it was split for a
\* small window.
FirstIsNew(q) ==
  q.persist \/ Queued(q) = <<>> \/ Offset(q.lastack) <= Stop(Queued(q)[1])

QueueInv(q) ==
  /\ Linked(Queued(q), Offset(q.lastack), Offset(q.snd_lbb), MssLocal(q))
  /\ FirstIsNew(q)
  /\ q.snd_buf + Bytes(Queued(q)) = TCP_SND_BUF

\* Where the FINs are: Q are the segments that are queued, S these and the ones
\* on the wire.
FinInv(Q, S, lbb, finQueued, split) ==
  /\ \A s \in S : Stop(s) <= lbb /\ (s.fin => finQueued)
  /\ \A f, s \in S : f.fin /\ ~split => Stop(s) <= Stop(f)
  /\ \A f, g \in S : Length(f) = 0 /\ g.fin => Length(g) = 0 /\ Start(g) = Start(f)
  /\ \A f \in S, t \in Q : f.fin => Stop(t) <= Stop(f) \/ Start(t) >= Stop(f)

\* The segments on the wire and the peer.
WireInv(w, nxt, pr) ==
  \A s \in w : /\ s \in Segment /\ Sane(s) /\ End(s) <= nxt
               /\ Stop(s) <= pr.edge \/ Length(s) = 1

PeerInv(Q, S, pr, la, nxt, wnd, finQueued, split) ==
  /\ pr.nxt <= pr.edge /\ pr.nxt + One(pr.fin) <= nxt /\ la <= pr.nxt + One(pr.fin)
  /\ wnd = 0 \/ la + wnd <= pr.edge
  /\ pr.fin =>
       /\ finQueued
       /\ \A t \in Q : Stop(t) <= pr.nxt \/ Start(t) >= pr.nxt
       /\ \A f \in S : Length(f) = 0 => Start(f) = pr.nxt
       /\ ~split => \A s \in S : Stop(s) <= pr.nxt

Peers == [nxt : 0 .. StreamLen, edge : FirstWnd .. StreamLen + PeerWnd, fin : BOOLEAN]

\* What holds of the pcb q, the wire w and the peer pr in every state.
Common(q, w, pr, split) ==
  LET Q == Range(Queued(q))
      S == Q \cup w
  IN
  /\ q \in Send /\ pr \in Peers /\ split \in BOOLEAN
  /\ Numbers(q) /\ Flight(q)
  /\ FinInv(Q, S, Offset(q.snd_lbb), q.finQueued, split)
  /\ WireInv(w, Offset(q.snd_nxt), pr)
  /\ PeerInv(Q, S, pr, Offset(q.lastack), Offset(q.snd_nxt), q.snd_wnd, q.finQueued, split)

\* A live connection, before tcp_output.
Ready(q, w, pr, split) == Common(q, w, pr, split) /\ QueueInv(q) /\ q.alive

\* The queue waits for the persist timer or, something being in flight, for the
\* retransmission timer.
Busy(q) == Queued(q) # <<>> => q.persist \/ q.unacked # <<>>

OutInv ==
  /\ Common(snd, wire, peer, finSplit) /\ fails \in 0 .. MaxFail
  /\ snd.alive => QueueInv(snd) /\ Busy(snd)
  /\ ~snd.alive => Queued(snd) = <<>>

-----------------------------------------------------------------------------
(* tcp_output.                                                             *)

\* The types of the fields, and the offsets of the sequence numbers.
LEMMA SendFacts ==
  ASSUME NEW q \in Send, Numbers(q)
  PROVE  /\ q.unacked \in Seq(Segment) /\ q.unsent \in Seq(Segment) /\ Queued(q) \in Seq(Segment)
         /\ Offset(q.lastack) \in Nat /\ Offset(q.snd_nxt) \in Nat /\ Offset(q.snd_lbb) \in Nat
         /\ Offset(q.lastack) <= StreamLen + 2 /\ Offset(q.snd_nxt) <= StreamLen + 2
         /\ Offset(q.snd_lbb) <= StreamLen + 1
         /\ StreamLen + 2 < SEQ \div 2
         /\ q.snd_wnd \in Nat /\ q.snd_wnd_max \in Nat /\ q.cwnd \in Nat /\ q.snd_buf \in Nat
         /\ MssLocal(q) \in Nat /\ MssLocal(q) >= 1 /\ MssLocal(q) <= mss
<1>1. /\ q.unacked \in Seq(Segment) /\ q.unsent \in Seq(Segment)
      /\ q.lastack \in SeqNos /\ q.snd_nxt \in SeqNos /\ q.snd_lbb \in SeqNos
      /\ q.snd_wnd \in Nat /\ q.snd_wnd_max \in Nat /\ q.cwnd \in Nat /\ q.snd_buf \in Nat
      /\ q.finQueued \in BOOLEAN
  BY Bounds DEF Send
<1>2. Queued(q) \in Seq(Segment)
  BY <1>1, Joined DEF Queued
<1>3. Offset(q.lastack) \in Nat /\ Offset(q.snd_nxt) \in Nat /\ Offset(q.snd_lbb) \in Nat
  BY <1>1, OffsetType
<1>4. One(q.finQueued) \in {0, 1}
  BY <1>1 DEF One
<1>5. StreamLen \in Nat /\ StreamLen + 2 < SEQ \div 2
  <2>1. StreamLen \in Nat /\ PeerWnd \in Nat /\ 2 <= PeerWnd /\ StreamLen + PeerWnd + 1 < SEQ \div 2 /\ SEQ \div 2 \in Nat
    BY Bounds
  <2> QED BY <2>1
<1>6. /\ Offset(q.lastack) <= StreamLen + 2 /\ Offset(q.snd_nxt) <= StreamLen + 2
      /\ Offset(q.snd_lbb) <= StreamLen + 1
  <2>1. /\ Offset(q.lastack) <= Offset(q.snd_nxt)
        /\ Offset(q.snd_nxt) <= Offset(q.snd_lbb) + One(q.finQueued)
        /\ Offset(q.snd_lbb) <= StreamLen + One(q.finQueued)
    BY DEF Numbers
  <2> QED BY <1>3, <1>4, <1>5, <2>1
<1>7. q.snd_wnd_max >= 2
  BY DEF Numbers
<1>8. MssLocal(q) \in Nat /\ MssLocal(q) >= 1 /\ MssLocal(q) <= mss
  BY <1>1, <1>7, MssFacts
<1> QED BY <1>1, <1>2, <1>3, <1>5, <1>6, <1>8

\* Segments in the order of their sequence numbers.
LEMMA BySeqnoMeans ==
  ASSUME NEW s \in Segment, NEW t \in Segment, Sane(s), Sane(t)
  PROVE  BySeqno(s, t) <=> Start(s) < Start(t)
<1>1. /\ s.seqno \in SeqNos /\ t.seqno \in SeqNos /\ Start(s) \in Nat /\ Start(t) \in Nat
      /\ Start(s) <= Stop(s) /\ Start(t) <= Stop(t) /\ Stop(s) \in Nat /\ Stop(t) \in Nat
  BY SegmentFacts
<1>2. Stop(s) <= StreamLen /\ Stop(t) <= StreamLen /\ StreamLen \in Nat /\ StreamLen < SEQ \div 2
  BY Bounds DEF Sane
<1>3. Start(s) < SEQ \div 2 /\ Start(t) < SEQ \div 2
  BY <1>1, <1>2, Bounds
<1>4. Offset(s.seqno) < SEQ \div 2 /\ Offset(t.seqno) < SEQ \div 2
  BY <1>3 DEF Start
<1>5. TCP_SEQ_LT(s.seqno, t.seqno) <=> Offset(s.seqno) < Offset(t.seqno)
  BY <1>1, <1>4, LessThan
<1> QED BY <1>5 DEF BySeqno, Start

\* Where the segments of the two queues are in the chain.
LEMMA QueueFacts ==
  ASSUME NEW q, q.unacked \in Seq(Segment), q.unsent \in Seq(Segment), Chain(Queued(q))
  PROVE  LET a   == q.unacked
             b   == q.unsent
             all == Queued(q)
         IN /\ all \in Seq(Segment) /\ Len(all) = Len(a) + Len(b) /\ Len(a) \in Nat /\ Len(b) \in Nat
            /\ \A i \in 1 .. Len(a) : all[i] = a[i] /\ a[i] \in Segment /\ Sane(a[i]) /\ a[i] \in Range(all)
            /\ \A i \in 1 .. Len(b) : all[Len(a) + i] = b[i] /\ b[i] \in Segment /\ Sane(b[i]) /\ b[i] \in Range(all)
            /\ \A i \in 1 .. Len(a), j \in 1 .. Len(b) : Start(a[i]) < Start(b[j]) /\ End(a[i]) <= End(b[j])
            /\ \A i, j \in 1 .. Len(b) : i <= j => End(b[i]) <= End(b[j]) /\ Stop(b[i]) <= Stop(b[j])
            /\ \A s \in Range(all) : s \in Segment /\ Sane(s)
<1> DEFINE a == q.unacked
           b == q.unsent
           all == Queued(q)
           n == Len(a)
           m == Len(b)
<1>0. a \in Seq(Segment) /\ b \in Seq(Segment) /\ all = a \o b /\ Chain(all)
  BY DEF Queued
<1> HIDE DEF a, b, all
<1>1. /\ all \in Seq(Segment) /\ Len(all) = n + m /\ n \in Nat /\ m \in Nat
      /\ \A i \in 1 .. n : all[i] = a[i]
      /\ \A i \in 1 .. m : all[n + i] = b[i]
  BY <1>0, Joined
<1>2. \A i \in 1 .. n + m : all[i] \in Segment /\ Sane(all[i]) /\ all[i] \in Range(all)
  <2>1. DOMAIN all = 1 .. n + m /\ \A i \in 1 .. n + m : all[i] \in Segment
    BY <1>1
  <2> QED BY <1>0, <1>1, <2>1 DEF Chain, Range
<1>3. \A s \in Range(all) : s \in Segment /\ Sane(s)
  <2>1. DOMAIN all = 1 .. n + m
    BY <1>1
  <2> QED BY <1>2, <2>1 DEF Range
<1> HIDE DEF n, m
<1>4. \A i \in 1 .. n : i \in 1 .. n + m
  BY <1>1
<1>5. \A i \in 1 .. m : n + i \in 1 .. n + m
  BY <1>1
<1>6. \A i \in 1 .. n : all[i] = a[i] /\ a[i] \in Segment /\ Sane(a[i]) /\ a[i] \in Range(all)
  BY <1>1, <1>2, <1>4
<1>7. \A i \in 1 .. m : all[n + i] = b[i] /\ b[i] \in Segment /\ Sane(b[i]) /\ b[i] \in Range(all)
  BY <1>1, <1>2, <1>5
<1>8. Chain(all)
  BY <1>0
<1>9. ASSUME NEW i \in 1 .. n, NEW j \in 1 .. m
      PROVE  Start(a[i]) < Start(b[j]) /\ End(a[i]) <= End(b[j])
  <2>1. i \in 1 .. n + m /\ n + j \in 1 .. n + m /\ i < n + j /\ i <= n + j
    BY <1>1
  <2>2. Start(all[i]) < Start(all[n + j])
    BY <1>1, <1>8, <2>1 DEF Chain
  <2>3. End(all[i]) <= End(all[n + j])
    <3>1. i \in 1 .. Len(all) /\ n + j \in 1 .. Len(all)
      BY <1>1, <2>1
    <3> QED BY <1>1, <1>8, <2>1, <3>1, ChainEnds
  <2> QED BY <1>6, <1>7, <2>2, <2>3
<1>10. ASSUME NEW i \in 1 .. m, NEW j \in 1 .. m, i <= j
       PROVE  End(b[i]) <= End(b[j]) /\ Stop(b[i]) <= Stop(b[j])
  <2>1. n + i \in 1 .. Len(all) /\ n + j \in 1 .. Len(all) /\ n + i <= n + j
    BY <1>1, <1>10
  <2>2. End(all[n + i]) <= End(all[n + j]) /\ Stop(all[n + i]) <= Stop(all[n + j])
    BY <1>1, <1>8, <2>1, ChainEnds
  <2> QED BY <1>7, <2>2
<1> QED BY <1>1, <1>3, <1>6, <1>7, <1>9, <1>10 DEF a, b, all, n, m

\* The loop of tcp_output stops at the first segment that may not go.
LEMMA SendableFacts ==
  ASSUME NEW q, q.unsent \in Seq(Segment)
  PROVE  /\ Sendable(q) \in 0 .. Len(q.unsent)
         /\ \A i \in 1 .. Sendable(q) : Fits(q, q.unsent[i])
         /\ q.unsent # <<>> /\ Sendable(q) = 0 => ~(Fits(q, Head(q.unsent)) /\ MayGo(q, 1))
<1> DEFINE n == Len(q.unsent)
           T == {i \in 1 .. n : Fits(q, q.unsent[i]) /\ MayGo(q, i)}
           A == {j \in 0 .. n : \A i \in 1 .. j : i \in T}
           B == {j \in 0 .. n : \A i \in 1 .. j : Fits(q, q.unsent[i]) /\ MayGo(q, i)}
<1>1. n \in Nat
  OBVIOUS
<1>2. A = B
  <2>1. \A j \in 0 .. n : \A i \in 1 .. j : i \in 1 .. n
    BY <1>1
  <2> HIDE DEF n
  <2> QED BY <2>1
<1>3. Sendable(q) = Max(B)
  BY DEF Sendable, Leading
<1>4. Sendable(q) = Max(A)
  BY <1>2, <1>3
<1>5. /\ Max(A) \in 0 .. n /\ \A i \in 1 .. Max(A) : i \in T
      /\ Max(A) < n => (Max(A) + 1) \notin T
  <2> HIDE DEF n, T
  <2> QED BY <1>1, LeadingSet
<1> HIDE DEF A, B
<1>6. \A i \in 1 .. Max(A) : Fits(q, q.unsent[i])
  BY <1>5
<1>7. ASSUME q.unsent # <<>>, Max(A) = 0 PROVE ~(Fits(q, Head(q.unsent)) /\ MayGo(q, 1))
  <2>1. n >= 1 /\ Head(q.unsent) = q.unsent[1] /\ 1 \in 1 .. n
    BY <1>7
  <2>2. 1 \notin T
    BY <1>1, <1>5, <1>7, <2>1
  <2> QED BY <2>1, <2>2
<1> QED BY <1>4, <1>5, <1>6, <1>7

\* The number that tcp_output leaves in snd_nxt.
LEMMA NextNumber ==
  ASSUME NEW x \in SeqNos, NEW y \in SeqNos,
         Offset(x) <= StreamLen + 2, Offset(y) <= StreamLen + 2
  PROVE  LET z == IF TCP_SEQ_LT(x, y) THEN y ELSE x IN
         /\ z \in SeqNos /\ z \in {x, y} /\ Offset(x) <= Offset(z) /\ Offset(y) <= Offset(z)
<1>1. StreamLen + 2 < SEQ \div 2 /\ StreamLen \in Nat /\ SEQ \div 2 \in Nat
  <2>1. StreamLen \in Nat /\ PeerWnd \in Nat /\ 2 <= PeerWnd /\ StreamLen + PeerWnd + 1 < SEQ \div 2 /\ SEQ \div 2 \in Nat
    BY Bounds
  <2> QED BY <2>1
<1>2. Offset(x) \in Nat /\ Offset(y) \in Nat
  BY OffsetType
<1>3. Offset(x) < SEQ \div 2 /\ Offset(y) < SEQ \div 2
  BY <1>1, <1>2
<1>4. TCP_SEQ_LT(x, y) <=> Offset(x) < Offset(y)
  BY <1>3, LessThan
<1> QED BY <1>2, <1>4

\* What tcp_output may do to q: r is the result, and L are the segments that it
\* puts on the wire.
Sends(q, r, L) ==
  /\ r \in Send /\ Queued(r) = Queued(q)
  /\ r.lastack = q.lastack /\ r.snd_lbb = q.snd_lbb /\ r.snd_buf = q.snd_buf
  /\ r.snd_wnd = q.snd_wnd /\ r.snd_wnd_max = q.snd_wnd_max /\ r.snd_wl2 = q.snd_wl2
  /\ r.finQueued = q.finQueued /\ r.alive = q.alive /\ r.cwnd >= mss
  /\ Offset(q.snd_nxt) <= Offset(r.snd_nxt)
  /\ Offset(r.snd_nxt) <= Offset(q.snd_lbb) + One(q.finQueued)
  /\ \A s \in L : /\ s \in Range(Queued(q)) /\ End(s) <= Offset(r.snd_nxt)
                  /\ Stop(s) <= Offset(q.lastack) + q.snd_wnd
  /\ Flight(r) /\ FirstIsNew(r) /\ Busy(r)

\* The record that Sent makes of a queue in order.
LEMMA SentFields ==
  ASSUME NEW q \in Send, Numbers(q), Chain(Queued(q)), NEW k \in 1 .. Len(q.unsent),
         \A s \in Range(Queued(q)) : Stop(s) <= Offset(q.snd_lbb) /\ (s.fin => q.finQueued)
  PROVE  LET r == Sent(q, k) IN
         /\ r \in Send
         /\ r = [q EXCEPT !.unsent = SubSeq(q.unsent, k + 1, Len(q.unsent)),
                          !.unacked = q.unacked \o SubSeq(q.unsent, 1, k),
                          !.snd_nxt = r.snd_nxt, !.rtxTimer = TRUE]
         /\ Offset(q.snd_nxt) <= Offset(r.snd_nxt)
         /\ Offset(r.snd_nxt) <= Offset(q.snd_lbb) + One(q.finQueued)
         /\ \A i \in 1 .. k : End(q.unsent[i]) <= Offset(r.snd_nxt)
<1> DEFINE a == q.unacked
           b == q.unsent
           c == SubSeq(b, 1, k)
           d == SubSeq(b, k + 1, Len(b))
           end == EndOf(c[k], TRUE)
           x == q.snd_nxt
           z == IF TCP_SEQ_LT(x, end) THEN end ELSE x
           r == Sent(q, k)
           lbb == Offset(q.snd_lbb)
<1>1. a \in Seq(Segment) /\ b \in Seq(Segment) /\ k \in Nat /\ k >= 1 /\ k <= Len(b) /\ Len(b) \in Nat
  BY SendFacts
<1>2. /\ c \in Seq(Segment) /\ Len(c) = k /\ \A i \in 1 .. k : c[i] = b[i]
  <2>1. 1 \in 1 .. Len(b) + 1 /\ k \in 0 .. Len(b) /\ 1 <= k + 1
    BY <1>1
  <2>2. c \in Seq(Segment) /\ Len(c) = k - 1 + 1 /\ \A i \in 1 .. k - 1 + 1 : c[i] = b[1 + i - 1]
    BY <1>1, <2>1, Part
  <2>3. k - 1 + 1 = k /\ \A i \in 1 .. k : 1 + i - 1 = i
    BY <1>1
  <2> HIDE DEF c
  <2> QED BY <2>2, <2>3
<1>3. d \in Seq(Segment)
  <2>1. k + 1 \in 1 .. Len(b) + 1 /\ Len(b) \in 0 .. Len(b) /\ k + 1 <= Len(b) + 1
    BY <1>1
  <2> QED BY <1>1, <2>1, Part
<1>4. a \o c \in Seq(Segment)
  BY <1>1, <1>2, Joined
<1>5. k \in 1 .. k /\ k \in 1 .. Len(b) /\ 1 \in 1 .. Len(b)
  BY <1>1
<1>6. c[k] = b[k] /\ c[1] = b[1]
  BY <1>1, <1>2, <1>5
<1>7. /\ \A i \in 1 .. Len(b) : b[i] \in Segment /\ Sane(b[i]) /\ b[i] \in Range(Queued(q))
      /\ \A i \in 1 .. Len(a), j \in 1 .. Len(b) : Start(a[i]) < Start(b[j])
      /\ \A i \in 1 .. Len(a) : a[i] \in Segment /\ Sane(a[i])
      /\ \A i, j \in 1 .. Len(b) : i <= j => End(b[i]) <= End(b[j])
  BY <1>1, QueueFacts
<1>8. end \in SeqNos /\ Offset(end) = End(b[k])
  <2>1. b[k] \in Segment /\ Sane(b[k])
    BY <1>5, <1>7
  <2>2. Stop(b[k]) <= StreamLen
    BY <2>1 DEF Sane
  <2> QED BY <1>6, <2>1, <2>2, EndOffset
<1>9. End(b[k]) <= lbb + One(q.finQueued) /\ End(b[k]) \in Nat
  <2>1. b[k] \in Segment /\ Stop(b[k]) <= lbb /\ (b[k].fin => q.finQueued)
    BY <1>5, <1>7
  <2>2. Stop(b[k]) \in Nat /\ b[k].fin \in BOOLEAN /\ End(b[k]) = IF b[k].fin THEN Stop(b[k]) + 1 ELSE Stop(b[k])
    BY <2>1, SegmentFacts
  <2>3. lbb \in Nat /\ q.finQueued \in BOOLEAN
    BY SendFacts DEF Send
  <2>4. One(q.finQueued) \in {0, 1} /\ (q.finQueued => One(q.finQueued) = 1)
    BY <2>3 DEF One
  <2>5. CASE b[k].fin
    <3>1. End(b[k]) = Stop(b[k]) + 1 /\ One(q.finQueued) = 1
      BY <2>1, <2>2, <2>4, <2>5
    <3> QED BY <2>1, <2>2, <2>3, <3>1
  <2>6. CASE ~b[k].fin
    <3>1. End(b[k]) = Stop(b[k])
      BY <2>2, <2>6
    <3>2. One(q.finQueued) >= 0 /\ One(q.finQueued) \in Int
      BY <2>4
    <3>3. Stop(b[k]) <= lbb /\ Stop(b[k]) \in Nat /\ lbb \in Nat
      BY <2>1, <2>2, <2>3
    <3> HIDE DEF lbb
    <3> QED BY <3>1, <3>2, <3>3
  <2> QED BY <2>5, <2>6
<1>10. /\ x \in SeqNos /\ Offset(x) <= StreamLen + 2 /\ lbb <= StreamLen + 1 /\ lbb \in Nat
       /\ Offset(x) <= lbb + One(q.finQueued) /\ Offset(x) \in Nat
  BY SendFacts DEF Numbers, Send
<1>11. Offset(end) <= StreamLen + 2
  <2>1. One(q.finQueued) \in {0, 1}
    BY DEF One, Send
  <2>2. StreamLen \in Nat
    BY Bounds
  <2> DEFINE f == One(q.finQueued)
             e == End(b[k])
  <2>3. f \in Int /\ f <= 1 /\ e \in Nat /\ e <= lbb + f /\ lbb \in Nat /\ lbb <= StreamLen + 1
    BY <1>9, <1>10, <2>1
  <2> HIDE DEF f, e, lbb
  <2>4. e <= StreamLen + 2
    BY <2>2, <2>3
  <2> QED BY <1>8, <2>4 DEF e
<1> HIDE DEF end
<1>12. z \in SeqNos /\ z \in {x, end} /\ Offset(x) <= Offset(z) /\ Offset(end) <= Offset(z)
  BY <1>8, <1>10, <1>11, NextNumber
<1>13. ~(a # <<>> /\ BySeqno(c[1], Last(a)))
  <2> SUFFICES ASSUME a # <<>> PROVE ~BySeqno(c[1], Last(a))
    OBVIOUS
  <2>1. Len(a) \in 1 .. Len(a) /\ Last(a) = a[Len(a)]
    BY <1>1 DEF Last
  <2>2. /\ b[1] \in Segment /\ Sane(b[1]) /\ a[Len(a)] \in Segment /\ Sane(a[Len(a)])
        /\ Start(a[Len(a)]) < Start(b[1])
    BY <1>5, <1>7, <2>1
  <2>3. Start(b[1]) \in Nat /\ Start(a[Len(a)]) \in Nat
    BY <2>2, SegmentFacts
  <2>4. BySeqno(b[1], a[Len(a)]) <=> Start(b[1]) < Start(a[Len(a)])
    BY <2>2, BySeqnoMeans
  <2> QED BY <1>6, <2>1, <2>2, <2>3, <2>4
<1>14. r = [q EXCEPT !.unsent = d, !.unacked = a \o c, !.snd_nxt = z, !.rtxTimer = TRUE]
  <2>1. k # 0
    BY <1>1
  <2> QED BY <1>13, <2>1 DEF Sent, end
<1> HIDE DEF c, d, z, r
<1>15. r \in Send /\ r.snd_nxt = z
  BY <1>3, <1>4, <1>12, <1>14 DEF Send
<1>16. r = [q EXCEPT !.unsent = d, !.unacked = a \o c, !.snd_nxt = r.snd_nxt, !.rtxTimer = TRUE]
  BY <1>14, <1>15
<1>17. Offset(z) <= lbb + One(q.finQueued)
  BY <1>8, <1>9, <1>10, <1>12
<1>18. ASSUME NEW i \in 1 .. k PROVE End(b[i]) <= Offset(z)
  <2>1. i \in 1 .. Len(b) /\ i <= k
    BY <1>1
  <2>2. End(b[i]) <= End(b[k]) /\ b[i] \in Segment
    BY <1>5, <1>7, <2>1
  <2>3. End(b[i]) \in Nat
    BY <2>2, SegmentFacts
  <2>4. Offset(z) \in Nat
    BY <1>12, OffsetType
  <2> QED BY <1>8, <1>9, <1>12, <2>2, <2>3, <2>4
<1> QED BY <1>12, <1>15, <1>16, <1>17, <1>18 DEF c, d, r

\* tcp_output sends nothing.
LEMMA NothingSent ==
  ASSUME NEW q \in Send, Numbers(q), Flight(q), NEW b \in BOOLEAN, NEW p \in 0 .. TCP_MAXRTX,
         LET r == [q EXCEPT !.persist = b, !.persist_probe = p, !.naglememerr = FALSE] IN
           (b => r.unacked = <<>>) /\ FirstIsNew(r) /\ Busy(r)
  PROVE  Sends(q, [q EXCEPT !.persist = b, !.persist_probe = p, !.naglememerr = FALSE], {})
<1> DEFINE r == [q EXCEPT !.persist = b, !.persist_probe = p, !.naglememerr = FALSE]
<1>1. /\ r \in Send /\ r.unacked = q.unacked /\ r.unsent = q.unsent /\ r.snd_nxt = q.snd_nxt
      /\ r.lastack = q.lastack /\ r.snd_lbb = q.snd_lbb /\ r.snd_buf = q.snd_buf
      /\ r.snd_wnd = q.snd_wnd /\ r.snd_wnd_max = q.snd_wnd_max /\ r.snd_wl2 = q.snd_wl2
      /\ r.finQueued = q.finQueued /\ r.alive = q.alive /\ r.cwnd = q.cwnd
      /\ r.rtxTimer = q.rtxTimer /\ r.persist = b
  BY DEF Send
<1>2. (b => r.unacked = <<>>) /\ FirstIsNew(r) /\ Busy(r)
  OBVIOUS
<1> HIDE DEF r
<1>3. Queued(r) = Queued(q)
  BY <1>1 DEF Queued
<1>4. Flight(r)
  BY <1>1, <1>2 DEF Flight
<1>5. /\ Offset(q.snd_nxt) <= Offset(r.snd_nxt) /\ r.cwnd >= mss
      /\ Offset(r.snd_nxt) <= Offset(q.snd_lbb) + One(q.finQueued)
  <2>1. Offset(q.snd_nxt) \in Nat
    BY SendFacts
  <2> QED BY <1>1, <2>1 DEF Numbers
<1>6. Sends(q, r, {})
  BY <1>1, <1>2, <1>3, <1>4, <1>5 DEF Sends
<1> QED BY <1>6 DEF r

\* The first k unsent segments are sent.
LEMMA SomeSent ==
  ASSUME NEW q \in Send, Numbers(q), Flight(q), FirstIsNew(q), Chain(Queued(q)),
         NEW k \in 1 .. Len(q.unsent),
         \A s \in Range(Queued(q)) : Stop(s) <= Offset(q.snd_lbb) /\ (s.fin => q.finQueued),
         \A i \in 1 .. k : Stop(q.unsent[i]) <= Offset(q.lastack) + q.snd_wnd,
         q.unacked = <<>> => Offset(q.lastack) <= Stop(q.unsent[1])
  PROVE  Sends(q, [Sent(q, k) EXCEPT !.persist = FALSE, !.naglememerr = FALSE],
               {q.unsent[i] : i \in 1 .. k})
<1> DEFINE x == Sent(q, k)
           r == [x EXCEPT !.persist = FALSE, !.naglememerr = FALSE]
           c == SubSeq(q.unsent, 1, k)
           d == SubSeq(q.unsent, k + 1, Len(q.unsent))
           L == {q.unsent[i] : i \in 1 .. k}
           lim == Offset(q.lastack) + q.snd_wnd
<1>1. /\ x \in Send
      /\ x = [q EXCEPT !.unsent = d, !.unacked = q.unacked \o c, !.snd_nxt = x.snd_nxt, !.rtxTimer = TRUE]
      /\ Offset(q.snd_nxt) <= Offset(x.snd_nxt)
      /\ Offset(x.snd_nxt) <= Offset(q.snd_lbb) + One(q.finQueued)
      /\ \A i \in 1 .. k : End(q.unsent[i]) <= Offset(x.snd_nxt)
  BY SentFields
<1>2. /\ q.unacked \in Seq(Segment) /\ q.unsent \in Seq(Segment) /\ k \in 0 .. Len(q.unsent)
      /\ k \in Nat /\ k >= 1 /\ k <= Len(q.unsent)
  BY SendFacts
<1>3. (q.unacked \o c) \o d = Queued(q)
  BY <1>2, MoveBorder DEF Queued
<1>4. c \in Seq(Segment) /\ Len(c) = k /\ \A i \in 1 .. k : c[i] = q.unsent[i]
  <2>1. 1 \in 1 .. Len(q.unsent) + 1 /\ k \in 0 .. Len(q.unsent) /\ 1 <= k + 1
    BY <1>2
  <2>2. c \in Seq(Segment) /\ Len(c) = k - 1 + 1 /\ \A i \in 1 .. k - 1 + 1 : c[i] = q.unsent[1 + i - 1]
    BY <1>2, <2>1, Part
  <2>3. k - 1 + 1 = k /\ \A i \in 1 .. k : 1 + i - 1 = i
    BY <1>2
  <2> HIDE DEF c
  <2> QED BY <2>2, <2>3
<1> HIDE DEF x, c, d
<1>5. /\ x.unacked = q.unacked \o c /\ x.unsent = d
      /\ x.lastack = q.lastack /\ x.snd_lbb = q.snd_lbb /\ x.snd_buf = q.snd_buf
      /\ x.snd_wnd = q.snd_wnd /\ x.snd_wnd_max = q.snd_wnd_max /\ x.snd_wl2 = q.snd_wl2
      /\ x.finQueued = q.finQueued /\ x.alive = q.alive /\ x.cwnd = q.cwnd /\ x.rtxTimer = TRUE
  BY <1>1, ZenonT(60) DEF Send
<1>6. /\ r \in Send /\ r.unacked = x.unacked /\ r.unsent = x.unsent /\ r.snd_nxt = x.snd_nxt
      /\ r.lastack = x.lastack /\ r.snd_lbb = x.snd_lbb /\ r.snd_buf = x.snd_buf
      /\ r.snd_wnd = x.snd_wnd /\ r.snd_wnd_max = x.snd_wnd_max /\ r.snd_wl2 = x.snd_wl2
      /\ r.finQueued = x.finQueued /\ r.alive = x.alive /\ r.cwnd = x.cwnd
      /\ r.rtxTimer = x.rtxTimer /\ r.persist = FALSE
  BY <1>1 DEF Send
<1> HIDE DEF r
<1>7. Queued(r) = Queued(q)
  BY <1>3, <1>5, <1>6 DEF Queued
<1>8. Flight(r)
  <2>1. r.rtxTimer = TRUE /\ r.persist = FALSE
    BY <1>5, <1>6
  <2>2. \A i \in 1 .. Len(q.unacked) : Stop(q.unacked[i]) <= lim
    BY DEF Flight
  <2>3. /\ Len(q.unacked \o c) = Len(q.unacked) + k /\ Len(q.unacked) \in Nat
        /\ \A i \in 1 .. Len(q.unacked) : (q.unacked \o c)[i] = q.unacked[i]
        /\ \A i \in Len(q.unacked) + 1 .. Len(q.unacked) + k : (q.unacked \o c)[i] = c[i - Len(q.unacked)]
    <3>1. q.unacked \in Seq(Segment) /\ c \in Seq(Segment) /\ Len(c) = k
      BY <1>2, <1>4
    <3> DEFINE a == q.unacked
    <3> HIDE DEF a
    <3>2. /\ Len(a \o c) = Len(a) + Len(c) /\ Len(a) \in Nat
          /\ \A i \in 1 .. Len(a) : (a \o c)[i] = a[i]
          /\ \A i \in Len(a) + 1 .. Len(a) + Len(c) : (a \o c)[i] = c[i - Len(a)]
      <4>1. a \in Seq(Segment) /\ c \in Seq(Segment)
        BY <3>1 DEF a
      <4> QED BY <4>1, Joined
    <3> QED BY <3>1, <3>2 DEF a
  <2>4. ASSUME NEW i \in 1 .. Len(q.unacked) + k PROVE Stop((q.unacked \o c)[i]) <= lim
    <3>1. CASE i \in 1 .. Len(q.unacked)
      BY <2>2, <2>3, <3>1
    <3>2. CASE i \in Len(q.unacked) + 1 .. Len(q.unacked) + k
      <4>1. i - Len(q.unacked) \in 1 .. k
        BY <1>2, <2>3, <3>2
      <4>2. (q.unacked \o c)[i] = q.unsent[i - Len(q.unacked)]
        BY <1>4, <2>3, <3>2, <4>1
      <4> QED BY <4>1, <4>2
    <3> QED BY <1>2, <2>3, <3>1, <3>2
  <2>5. \A i \in 1 .. Len(r.unacked) : Stop(r.unacked[i]) <= Offset(r.lastack) + r.snd_wnd
    <3>1. r.unacked = q.unacked \o c /\ Offset(r.lastack) + r.snd_wnd = lim
      BY <1>5, <1>6
    <3> HIDE DEF lim
    <3>2. \A i \in 1 .. Len(q.unacked \o c) : Stop((q.unacked \o c)[i]) <= lim
      BY <2>3, <2>4
    <3> QED BY <3>1, <3>2
  <2> QED BY <2>1, <2>5 DEF Flight
<1>9. FirstIsNew(r)
  <2>1. Queued(q) = <<>> \/ Offset(q.lastack) <= Stop(Queued(q)[1])
    <3>1. CASE q.unacked = <<>>
      <4>1. Queued(q) = q.unsent
        BY <1>2, <3>1 DEF Queued
      <4> QED BY <3>1, <4>1
    <3>2. CASE q.unacked # <<>>
      BY <3>2 DEF Flight, FirstIsNew
    <3> QED BY <3>1, <3>2
  <2> QED BY <1>5, <1>6, <1>7, <2>1 DEF FirstIsNew
<1>10. Busy(r)
  <2>1. q.unacked \in Seq(Segment) /\ c \in Seq(Segment) /\ Len(c) = k /\ k >= 1
    BY <1>2, <1>4
  <2>2. Len(q.unacked \o c) = Len(q.unacked) + Len(c) /\ Len(q.unacked) \in Nat
    BY <2>1, Joined
  <2>3. q.unacked \o c # <<>>
    BY <2>1, <2>2
  <2> QED BY <1>5, <1>6, <2>3 DEF Busy
<1>11. \A s \in L : s \in Range(Queued(q)) /\ End(s) <= Offset(r.snd_nxt) /\ Stop(s) <= lim
  <2>1. ASSUME NEW i \in 1 .. k
        PROVE  /\ q.unsent[i] \in Range(Queued(q)) /\ End(q.unsent[i]) <= Offset(r.snd_nxt)
               /\ Stop(q.unsent[i]) <= lim
    <3>1. i \in 1 .. Len(q.unsent)
      BY <1>2
    <3>2. q.unsent[i] \in Range(Queued(q))
      BY <1>2, <3>1, QueueFacts
    <3> QED BY <1>1, <1>6, <3>2
  <2> QED BY <2>1
<1>12. r.cwnd >= mss
  BY <1>5, <1>6 DEF Numbers
<1>13. Sends(q, r, L)
  BY <1>1, <1>5, <1>6, <1>7, <1>8, <1>9, <1>10, <1>11, <1>12 DEF Sends
<1> QED BY <1>13 DEF r, x

\* tcp_output, in every case.
LEMMA OutputSends ==
  ASSUME NEW q, NEW w, NEW pr, NEW split, Ready(q, w, pr, split)
  PROVE  Sends(q, tcp_output(q), Leaving(q))
<1> DEFINE la == Offset(q.lastack)
           k == Sendable(q)
           h == Head(q.unsent)
           win == SendWindow(q)
           P(b, p) == [q EXCEPT !.persist = b, !.persist_probe = p, !.naglememerr = FALSE]
           Same0 == P(q.persist, q.persist_probe)
<1>1. /\ q \in Send /\ Numbers(q) /\ Flight(q) /\ FirstIsNew(q)
      /\ Linked(Queued(q), la, Offset(q.snd_lbb), MssLocal(q)) /\ Chain(Queued(q))
      /\ \A s \in Range(Queued(q)) : Stop(s) <= Offset(q.snd_lbb) /\ (s.fin => q.finQueued)
  BY DEF Ready, Common, QueueInv, FinInv, Linked
<1>2. /\ q.unacked \in Seq(Segment) /\ q.unsent \in Seq(Segment) /\ Queued(q) \in Seq(Segment)
      /\ la \in Nat /\ la <= StreamLen + 2 /\ q.snd_wnd \in Nat /\ q.cwnd \in Nat /\ q.cwnd >= mss
      /\ MssLocal(q) \in Nat /\ MssLocal(q) <= mss /\ mss \in Nat
      /\ q.lastack \in SeqNos /\ q.snd_wnd \in 0 .. PeerWnd
  BY <1>1, SendFacts, Bounds DEF Send, Numbers
<1>3. q.persist \in BOOLEAN /\ q.persist_probe \in 0 .. TCP_MAXRTX
  BY <1>1 DEF Send
<1>4. \A b, p : /\ P(b, p).unacked = q.unacked /\ P(b, p).lastack = q.lastack
                /\ P(b, p).rtxTimer = q.rtxTimer /\ P(b, p).persist = b /\ Queued(P(b, p)) = Queued(q)
  BY <1>1 DEF Send, Queued
<1>5. Same0 = [q EXCEPT !.naglememerr = FALSE]
  BY <1>1 DEF Send
<1>6. k \in 0 .. Len(q.unsent) /\ (\A i \in 1 .. k : Fits(q, q.unsent[i]))
      /\ (q.unsent # <<>> /\ k = 0 => ~(Fits(q, h) /\ MayGo(q, 1)))
  BY <1>2, SendableFacts
<1>7. Leaving(q) = {q.unsent[i] : i \in 1 .. k}
  BY DEF Leaving
<1>8. k = 0 => Leaving(q) = {}
  BY <1>7
<1>9. \A i \in 1 .. Len(q.unsent) : q.unsent[i] \in Segment /\ Sane(q.unsent[i])
  BY <1>1, <1>2, QueueFacts
<1>10. /\ win \in Nat /\ win <= q.snd_wnd /\ win = IF q.snd_wnd <= q.cwnd THEN q.snd_wnd ELSE q.cwnd
       /\ \A i \in 1 .. Len(q.unsent) :
            Fits(q, q.unsent[i]) <=> la <= Stop(q.unsent[i]) /\ Stop(q.unsent[i]) - la <= win
  <2>1. win = IF q.snd_wnd <= q.cwnd THEN q.snd_wnd ELSE q.cwnd
    BY <1>2, MinMax DEF SendWindow
  <2>2. ASSUME NEW i \in 1 .. Len(q.unsent)
        PROVE  Fits(q, q.unsent[i]) <=> la <= Stop(q.unsent[i]) /\ Stop(q.unsent[i]) - la <= win
    <3>1. q.unsent[i] \in Segment /\ Sane(q.unsent[i])
      BY <1>9
    <3> QED BY <1>2, <3>1, FitsMeans
  <2> QED BY <1>2, <2>1, <2>2
<1> HIDE DEF k, P, la, win
<1>11. CASE q.unsent = <<>>
  <2>1. k = 0
    BY <1>6, <1>11
  <2>2. tcp_output(q) = Same0
    BY <1>5, <1>11 DEF tcp_output
  <2>3. Queued(q) = q.unacked
    BY <1>2, <1>11 DEF Queued
  <2>4. q.persist => Same0.unacked = <<>>
    BY <1>1, <1>4 DEF Flight
  <2>5. FirstIsNew(Same0)
    BY <1>1, <1>4 DEF FirstIsNew
  <2>6. Busy(Same0)
    BY <1>1, <1>4, <2>3 DEF Busy, Flight
  <2>7. Sends(q, Same0, {})
    BY <1>1, <1>3, <2>4, <2>5, <2>6, NothingSent DEF P
  <2> QED BY <1>8, <2>1, <2>2, <2>7
<1>12. CASE q.unsent # <<>> /\ ~Fits(q, h)
  <2>1. Len(q.unsent) >= 1 /\ h = q.unsent[1] /\ 1 \in 1 .. Len(q.unsent) /\ Len(q.unsent) \in Nat
    BY <1>2, <1>12
  <2>2. k = 0
    <3>1. k >= 1 => 1 \in 1 .. k
      BY <1>6, <2>1
    <3>2. ~(k >= 1)
      BY <1>6, <1>12, <2>1, <3>1
    <3> QED BY <1>6, <2>1, <3>2
  <2>3. ASSUME q.unacked = <<>>, ~q.persist PROVE win = q.snd_wnd
    <3>1. Queued(q) = q.unsent
      BY <1>2, <2>3 DEF Queued
    <3>2. la <= Stop(h)
      BY <1>1, <1>12, <2>1, <2>3, <3>1 DEF FirstIsNew, la
    <3>3. Start(h) <= la /\ Length(h) <= MssLocal(q)
      BY <1>1, <1>12, <2>1, <3>1 DEF Linked
    <3>4. h \in Segment
      BY <1>9, <2>1
    <3>5. Start(h) \in Nat /\ Length(h) \in Nat /\ Stop(h) = Start(h) + Length(h) /\ Stop(h) \in Nat
      BY <3>4, SegmentFacts
    <3>6. ~(Stop(h) - la <= win)
      BY <1>10, <1>12, <2>1, <3>2
    <3>7. Stop(h) - la <= mss
      BY <1>2, <3>3, <3>5
    <3>8. la \in Nat /\ q.snd_wnd \in Nat /\ q.cwnd \in Nat /\ q.cwnd >= mss /\ mss \in Nat
      BY <1>2
    <3>9. win \in Nat /\ win = IF q.snd_wnd <= q.cwnd THEN q.snd_wnd ELSE q.cwnd
      BY <1>10
    <3> QED BY <3>5, <3>6, <3>7, <3>8, <3>9
  <2>4. q.unacked # <<>> => q.rtxTimer /\ ~q.persist
    BY <1>1 DEF Flight
  <2>5. CASE win = q.snd_wnd /\ q.unacked = <<>> /\ ~q.persist
    <3>1. StartPersist(q) = [q EXCEPT !.persist = TRUE, !.persist_probe = 0]
      BY <2>5 DEF StartPersist, win
    <3>2. tcp_output(q) = P(TRUE, 0)
      <4>1. tcp_output(q) = [StartPersist(q) EXCEPT !.naglememerr = FALSE]
        BY <1>12 DEF tcp_output
      <4> QED BY <1>1, <3>1, <4>1 DEF P, Send
    <3>3. P(TRUE, 0).unacked = <<>> /\ FirstIsNew(P(TRUE, 0)) /\ Busy(P(TRUE, 0))
      BY <1>4, <2>5 DEF FirstIsNew, Busy
    <3>4. 0 \in 0 .. TCP_MAXRTX
      BY Bounds
    <3>5. Sends(q, P(TRUE, 0), {})
      BY <1>1, <3>3, <3>4, NothingSent DEF P
    <3> QED BY <1>8, <2>2, <3>2, <3>5
  <2>6. CASE ~(win = q.snd_wnd /\ q.unacked = <<>> /\ ~q.persist)
    <3>1. StartPersist(q) = q
      BY <2>6 DEF StartPersist, win
    <3>2. tcp_output(q) = Same0
      BY <1>5, <1>12, <3>1 DEF tcp_output
    <3>3. q.persist => Same0.unacked = <<>>
      BY <1>4, <2>4
    <3>4. FirstIsNew(Same0)
      BY <1>1, <1>4 DEF FirstIsNew
    <3>5. Busy(Same0)
      BY <1>4, <2>3, <2>4, <2>6 DEF Busy
    <3>6. Sends(q, Same0, {})
      BY <1>1, <1>3, <3>3, <3>4, <3>5, NothingSent DEF P
    <3> QED BY <1>8, <2>2, <3>2, <3>6
  <2> QED BY <2>5, <2>6
<1>13. CASE q.unsent # <<>> /\ Fits(q, h)
  <2>1. Len(q.unsent) >= 1 /\ h = q.unsent[1] /\ 1 \in 1 .. Len(q.unsent) /\ Len(q.unsent) \in Nat
    BY <1>2, <1>13
  <2>2. tcp_output(q) = [[Sent(q, k) EXCEPT !.persist = FALSE] EXCEPT !.naglememerr = FALSE]
    BY <1>13 DEF tcp_output, k
  <2>3. la <= Stop(h)
    BY <1>10, <1>13, <2>1
  <2>4. CASE k = 0
    <3>1. q.unacked # <<>>
      <4>1. ~MayGo(q, 1)
        BY <1>6, <1>13, <2>4
      <4> QED BY <4>1 DEF MayGo
    <3>2. q.rtxTimer /\ ~q.persist
      BY <1>1, <3>1 DEF Flight
    <3>3. Sent(q, 0) = q
      BY DEF Sent
    <3>4. q.persist = FALSE
      BY <1>3, <3>2
    <3>5. tcp_output(q) = Same0
      BY <1>1, <2>2, <2>4, <3>3, <3>4 DEF P, Send
    <3>6. (q.persist => Same0.unacked = <<>>) /\ FirstIsNew(Same0) /\ Busy(Same0)
      BY <1>1, <1>4, <3>1, <3>2, ZenonT(60) DEF FirstIsNew, Busy
    <3>7. Sends(q, Same0, {})
      BY <1>1, <1>3, <3>6, NothingSent DEF P
    <3> QED BY <1>8, <2>4, <3>5, <3>7
  <2>5. CASE k >= 1
    <3>1. k \in 1 .. Len(q.unsent)
      BY <1>6, <2>1, <2>5
    <3>2. ASSUME NEW i \in 1 .. k PROVE Stop(q.unsent[i]) <= la + q.snd_wnd
      <4>1. i \in 1 .. Len(q.unsent) /\ Fits(q, q.unsent[i])
        BY <1>6, <2>1
      <4>2. Stop(q.unsent[i]) - la <= win
        BY <1>10, <4>1
      <4>3. q.unsent[i] \in Segment
        BY <1>9, <4>1
      <4>4. Stop(q.unsent[i]) \in Nat
        BY <4>3, SegmentFacts
      <4>5. la \in Nat /\ win \in Nat /\ win <= q.snd_wnd /\ q.snd_wnd \in Nat
        BY <1>2, <1>10
      <4> QED BY <4>2, <4>4, <4>5
    <3>3. \A i \in 1 .. k : Stop(q.unsent[i]) <= Offset(q.lastack) + q.snd_wnd
      BY <3>2 DEF la
    <3>4. q.unacked = <<>> => Offset(q.lastack) <= Stop(q.unsent[1])
      BY <2>1, <2>3 DEF la
    <3>5. Sends(q, [Sent(q, k) EXCEPT !.persist = FALSE, !.naglememerr = FALSE], {q.unsent[i] : i \in 1 .. k})
      BY <1>1, <3>1, <3>3, <3>4, SomeSent
    <3>6. tcp_output(q) = [Sent(q, k) EXCEPT !.persist = FALSE, !.naglememerr = FALSE]
      BY <2>2
    <3> QED BY <1>7, <3>5, <3>6
  <2>6. k = 0 \/ k >= 1
    BY <1>6, <2>1
  <2> QED BY <2>4, <2>5, <2>6
<1> QED BY <1>11, <1>12, <1>13

-----------------------------------------------------------------------------
(* Fast retransmission.                                                    *)

\* A sequence with h in front of it.
LEMMA PushFront ==
  ASSUME NEW S, NEW h \in S, NEW b \in Seq(S)
  PROVE  LET c == <<h>> \o b IN
         /\ c \in Seq(S) /\ Len(c) = Len(b) + 1 /\ Len(b) \in Nat /\ c[1] = h
         /\ \A i \in 1 .. Len(b) : c[i + 1] = b[i]
         /\ \A i \in 2 .. Len(b) + 1 : c[i] = b[i - 1]
<1> DEFINE x == <<h>>
           c == x \o b
<1>1. x \in Seq(S) /\ Len(x) = 1 /\ x[1] = h
  OBVIOUS
<1> HIDE DEF x
<1>2. /\ c \in Seq(S) /\ Len(c) = Len(x) + Len(b) /\ Len(b) \in Nat
      /\ \A i \in 1 .. Len(x) : c[i] = x[i]
      /\ \A i \in Len(x) + 1 .. Len(x) + Len(b) : c[i] = b[i - Len(x)]
  BY <1>1, Joined, ZenonT(60)
<1> HIDE DEF c
<1>3. Len(c) = Len(b) + 1 /\ c[1] = h /\ \A i \in 2 .. Len(b) + 1 : c[i] = b[i - 1]
  BY <1>1, <1>2
<1>4. ASSUME NEW i \in 1 .. Len(b) PROVE c[i + 1] = b[i]
  <2>1. i + 1 \in 2 .. Len(b) + 1 /\ (i + 1) - 1 = i
    BY <1>2
  <2> QED BY <1>3, <2>1
<1> QED BY <1>2, <1>3, <1>4 DEF c, x

\* The head of a sequence in front of its tail.
LEMMA HeadAndTail ==
  ASSUME NEW S, NEW a \in Seq(S), a # <<>>
  PROVE  /\ Head(a) \in S /\ Head(a) = a[1] /\ Tail(a) \in Seq(S) /\ Len(Tail(a)) = Len(a) - 1
         /\ Len(a) \in Nat /\ Len(a) >= 1 /\ \A i \in 1 .. Len(a) - 1 : Tail(a)[i] = a[i + 1]
         /\ <<Head(a)>> \o Tail(a) = a
<1>1. /\ Head(a) \in S /\ Head(a) = a[1] /\ Tail(a) \in Seq(S) /\ Len(Tail(a)) = Len(a) - 1
      /\ Len(a) \in Nat /\ Len(a) >= 1 /\ \A i \in 1 .. Len(a) - 1 : Tail(a)[i] = a[i + 1]
  OBVIOUS
<1> DEFINE t == Tail(a)
           c == <<Head(a)>> \o t
           n == Len(a)
<1>2. /\ c \in Seq(S) /\ Len(c) = Len(t) + 1 /\ c[1] = Head(a)
      /\ \A i \in 2 .. Len(t) + 1 : c[i] = t[i - 1]
  <2> HIDE DEF t
  <2> QED BY <1>1, PushFront DEF t
<1> HIDE DEF t, c, n
<1>3. Len(t) = n - 1 /\ n \in Nat /\ n >= 1 /\ (\A i \in 1 .. n - 1 : t[i] = a[i + 1]) /\ Head(a) = a[1]
  BY <1>1 DEF t, n
<1>4. ASSUME NEW i \in 1 .. n PROVE c[i] = a[i]
  <2>1. CASE i = 1
    BY <1>2, <1>3, <2>1
  <2>2. CASE i \in 2 .. n
    <3>1. i \in 2 .. Len(t) + 1 /\ i - 1 \in 1 .. n - 1 /\ (i - 1) + 1 = i
      BY <1>3, <2>2
    <3> QED BY <1>2, <1>3, <3>1
  <2> QED BY <1>3, <2>1, <2>2
<1>5. c = a
  <2>1. Len(c) = Len(a) /\ \A i \in 1 .. Len(c) : c[i] = a[i]
    BY <1>2, <1>3, <1>4 DEF n
  <2> QED BY <1>2, <2>1, Same
<1> QED BY <1>1, <1>5 DEF c, t

\* A segment that belongs before all others of a queue.
LEMMA InsertFront ==
  ASSUME NEW h \in Segment, Sane(h), NEW b \in Seq(Segment),
         b # <<>> => Sane(b[1]) /\ Start(h) < Start(b[1])
  PROVE  Insert(b, h) = <<h>> \o b
<1> DEFINE n == Len(b)
           A == {j \in 0 .. n : \A i \in 1 .. j : BySeqno(b[i], h)}
<1>1. n \in Nat
  OBVIOUS
<1>2. Insert(b, h) = InsertAt(b, Max(A) + 1, h)
  BY DEF Insert, Leading
<1>3. A = {0}
  <2>1. 0 \in A
    BY <1>1
  <2>2. ASSUME NEW j \in A, j # 0 PROVE FALSE
    <3>1. j \in 1 .. n /\ 1 \in 1 .. j /\ b # <<>>
      BY <1>1, <2>2
    <3>2. BySeqno(b[1], h)
      BY <3>1
    <3>3. b[1] \in Segment /\ Sane(b[1]) /\ Start(h) < Start(b[1])
      BY <1>1, <3>1
    <3>4. Start(b[1]) \in Nat /\ Start(h) \in Nat
      BY <3>3, SegmentFacts
    <3>5. Start(b[1]) < Start(h)
      BY <3>2, <3>3, BySeqnoMeans
    <3> QED BY <3>3, <3>4, <3>5
  <2> QED BY <2>1, <2>2
<1>4. Max(A) = 0
  <2> HIDE DEF A
  <2>1. A \subseteq 0 .. 0 /\ A # {}
    BY <1>3
  <2>2. Max(A) \in A
    BY <2>1, MaxNat
  <2> QED BY <1>3, <2>2
<1> HIDE DEF A
<1> DEFINE e == SubSeq(b, 1, 0)
           x == <<h>>
           z == SubSeq(b, 1, n)
<1>5. Insert(b, h) = (e \o x) \o z
  <2>1. InsertAt(b, 1, h) = SubSeq(b, 1, 1 - 1) \o x \o SubSeq(b, 1, n)
    BY DEF InsertAt
  <2> QED BY <1>2, <1>4, <2>1
<1>6. e = <<>> /\ z = b
  OBVIOUS
<1>7. e \o x = x
  <2>1. x \in Seq(Segment)
    OBVIOUS
  <2> HIDE DEF x
  <2> QED BY <1>6, <2>1, ConcatEmptySeq
<1> QED BY <1>5, <1>6, <1>7

\* The first k segments of <<h>> \o b, and the ones behind them.
LEMMA SplitFront ==
  ASSUME NEW h \in Segment, NEW b \in Seq(Segment), NEW k \in 1 .. Len(b) + 1
  PROVE  LET c == <<h>> \o b
             g == SubSeq(c, 1, k)
         IN /\ g \in Seq(Segment) /\ Len(g) = k /\ (\A i \in 1 .. k : g[i] = c[i]) /\ g[1] = h
            /\ Tail(g) = SubSeq(b, 1, k - 1) /\ g = <<h>> \o SubSeq(b, 1, k - 1)
            /\ SubSeq(c, k + 1, Len(c)) = SubSeq(b, (k - 1) + 1, Len(b))
            /\ SubSeq(b, 1, k - 1) \in Seq(Segment)
<1> DEFINE c == <<h>> \o b
           g == SubSeq(c, 1, k)
           f == SubSeq(b, 1, k - 1)
           d == SubSeq(c, k + 1, Len(c))
           e == SubSeq(b, (k - 1) + 1, Len(b))
           n == Len(b)
           t == Tail(g)
<1>1. n \in Nat /\ k \in 1 .. n + 1 /\ k \in Nat /\ k >= 1 /\ k <= n + 1
  OBVIOUS
<1>2. /\ c \in Seq(Segment) /\ Len(c) = n + 1 /\ c[1] = h /\ \A i \in 1 .. n : c[i + 1] = b[i]
  BY PushFront
<1> HIDE DEF c, n
<1>3. g \in Seq(Segment) /\ Len(g) = k /\ \A i \in 1 .. k : g[i] = c[i]
  <2>1. 1 \in 1 .. Len(c) + 1 /\ k \in 0 .. Len(c) /\ 1 <= k + 1
    BY <1>1, <1>2
  <2>2. g \in Seq(Segment) /\ Len(g) = k - 1 + 1 /\ \A i \in 1 .. k - 1 + 1 : g[i] = c[1 + i - 1]
    BY <1>2, <2>1, Part
  <2>3. k - 1 + 1 = k /\ \A i \in 1 .. k : 1 + i - 1 = i
    BY <1>1
  <2> HIDE DEF g
  <2> QED BY <2>2, <2>3
<1>4. f \in Seq(Segment) /\ Len(f) = k - 1 /\ \A i \in 1 .. k - 1 : f[i] = b[i]
  <2>1. 1 \in 1 .. n + 1 /\ k - 1 \in 0 .. n /\ 1 <= (k - 1) + 1
    BY <1>1
  <2>2. f \in Seq(Segment) /\ Len(f) = (k - 1) - 1 + 1 /\ \A i \in 1 .. (k - 1) - 1 + 1 : f[i] = b[1 + i - 1]
    BY <2>1, Part DEF n
  <2>3. (k - 1) - 1 + 1 = k - 1 /\ \A i \in 1 .. k - 1 : 1 + i - 1 = i
    BY <1>1
  <2> HIDE DEF f
  <2> QED BY <2>2, <2>3
<1>5. d \in Seq(Segment) /\ Len(d) = n + 1 - k /\ \A i \in 1 .. n + 1 - k : d[i] = c[k + i]
  <2>1. k + 1 \in 1 .. Len(c) + 1 /\ Len(c) \in 0 .. Len(c) /\ k + 1 <= Len(c) + 1
    BY <1>1, <1>2
  <2>2. d \in Seq(Segment) /\ Len(d) = Len(c) - (k + 1) + 1 /\ \A i \in 1 .. Len(c) - (k + 1) + 1 : d[i] = c[(k + 1) + i - 1]
    BY <1>2, <2>1, Part
  <2>3. Len(c) - (k + 1) + 1 = n + 1 - k /\ \A i \in 1 .. n + 1 - k : (k + 1) + i - 1 = k + i
    BY <1>1, <1>2
  <2> HIDE DEF d
  <2> QED BY <2>2, <2>3
<1>6. e \in Seq(Segment) /\ Len(e) = n + 1 - k /\ \A i \in 1 .. n + 1 - k : e[i] = b[k - 1 + i]
  <2>1. (k - 1) + 1 \in 1 .. n + 1 /\ n \in 0 .. n /\ (k - 1) + 1 <= n + 1
    BY <1>1
  <2>2. e \in Seq(Segment) /\ Len(e) = n - ((k - 1) + 1) + 1 /\ \A i \in 1 .. n - ((k - 1) + 1) + 1 : e[i] = b[((k - 1) + 1) + i - 1]
    BY <2>1, Part DEF n
  <2>3. n - ((k - 1) + 1) + 1 = n + 1 - k /\ \A i \in 1 .. n + 1 - k : ((k - 1) + 1) + i - 1 = k - 1 + i
    BY <1>1
  <2> HIDE DEF e
  <2> QED BY <2>2, <2>3
<1>7. g # <<>> /\ t \in Seq(Segment) /\ Len(t) = k - 1 /\ (\A i \in 1 .. k - 1 : t[i] = g[i + 1]) /\ <<Head(g)>> \o t = g /\ Head(g) = g[1]
  <2> HIDE DEF g
  <2>1. g # <<>>
    BY <1>1, <1>3
  <2> QED BY <1>3, <2>1, HeadAndTail
<1> HIDE DEF g, f, d, e, t
<1>8. t = f
  <2>1. ASSUME NEW i \in 1 .. k - 1 PROVE t[i] = f[i]
    <3>1. i + 1 \in 1 .. k /\ i \in 1 .. n
      BY <1>1
    <3>2. t[i] = g[i + 1] /\ g[i + 1] = c[i + 1] /\ c[i + 1] = b[i] /\ f[i] = b[i]
      BY <1>2, <1>3, <1>4, <1>7, <3>1
    <3> QED BY <3>2
  <2>2. Len(t) = Len(f) /\ \A i \in 1 .. Len(t) : t[i] = f[i]
    BY <1>4, <1>7, <2>1
  <2> QED BY <1>4, <1>7, <2>2, Same
<1>9. d = e
  <2>1. ASSUME NEW i \in 1 .. n + 1 - k PROVE d[i] = e[i]
    <3>1. k - 1 + i \in 1 .. n /\ (k - 1 + i) + 1 = k + i
      BY <1>1
    <3>2. c[(k - 1 + i) + 1] = b[k - 1 + i]
      BY <1>2, <3>1
    <3>3. d[i] = c[k + i] /\ e[i] = b[k - 1 + i]
      BY <1>5, <1>6
    <3> QED BY <3>1, <3>2, <3>3
  <2>2. Len(d) = Len(e) /\ \A i \in 1 .. Len(d) : d[i] = e[i]
    BY <1>5, <1>6, <2>1
  <2> QED BY <1>5, <1>6, <2>2, Same
<1>10. g[1] = h
  <2>1. 1 \in 1 .. k
    BY <1>1
  <2> QED BY <1>2, <1>3, <2>1
<1>11. g = <<h>> \o f
  BY <1>7, <1>8, <1>10
<1> QED BY <1>3, <1>4, <1>8, <1>9, <1>10, <1>11 DEF c, g, f, d, e, t

\* The record that tcp_rexmit_fast makes for tcp_output.
Fast(q) ==
  [tcp_rexmit(q) EXCEPT !.infr = TRUE, !.rtxTimer = TRUE, !.cwnd = MaxOf(5 * mss, TCP_SND_BUF)]

\* The first segment in flight is the first of the unsent queue, and goes.
LEMMA FastFields ==
  ASSUME NEW q \in Send, Numbers(q), Flight(q), FirstIsNew(q), q.unacked # <<>>,
         Linked(Queued(q), Offset(q.lastack), Offset(q.snd_lbb), MssLocal(q))
  PROVE  LET x == Fast(q)
             h == Head(q.unacked)
             c == <<h>> \o q.unsent
         IN /\ x \in Send /\ x.unacked = Tail(q.unacked) /\ x.unsent = c
            /\ x.snd_nxt = q.snd_nxt /\ x.lastack = q.lastack /\ x.snd_lbb = q.snd_lbb
            /\ x.snd_buf = q.snd_buf /\ x.snd_wnd = q.snd_wnd /\ x.snd_wnd_max = q.snd_wnd_max
            /\ x.snd_wl2 = q.snd_wl2 /\ x.finQueued = q.finQueued /\ x.alive = q.alive
            /\ x.cwnd >= mss /\ x.rtxTimer = TRUE
            /\ h \in Segment /\ Sane(h) /\ h \in Range(Queued(q))
            /\ Sendable(x) \in 1 .. Len(q.unsent) + 1 /\ Fits(x, h)
            /\ \A i \in 1 .. Sendable(x) : /\ c[i] \in Segment /\ c[i] \in Range(Queued(q)) /\ Sane(c[i])
                                           /\ Stop(c[i]) <= Offset(q.lastack) + q.snd_wnd
                                           /\ End(c[i]) <= End(c[Sendable(x)])
<1> DEFINE a == q.unacked
           b == q.unsent
           h == Head(a)
           c == <<h>> \o b
           W == MaxOf(5 * mss, TCP_SND_BUF)
           x == Fast(q)
           la == Offset(q.lastack)
           R == Range(Queued(q))
<1>1. /\ a \in Seq(Segment) /\ b \in Seq(Segment) /\ a # <<>> /\ Chain(Queued(q))
      /\ la \in Nat /\ la <= StreamLen + 2 /\ q.lastack \in SeqNos /\ q.snd_wnd \in 0 .. PeerWnd
      /\ q.snd_wnd \in Nat /\ q.nrtx \in 0 .. TCP_MAXRTX /\ q.cwnd \in Nat
  BY SendFacts DEF Linked, Send
<1>2. W \in Nat /\ W >= mss /\ mss \in Nat
  <2>1. mss \in Nat /\ TCP_SND_BUF \in Nat /\ mss >= 1
    BY Bounds
  <2>2. W = IF 5 * mss <= TCP_SND_BUF THEN TCP_SND_BUF ELSE 5 * mss
    BY <2>1, MinMax
  <2> HIDE DEF W
  <2> QED BY <2>1, <2>2
<1>3. /\ \A i \in 1 .. Len(a) : Queued(q)[i] = a[i] /\ a[i] \in Segment /\ Sane(a[i]) /\ a[i] \in R
      /\ \A i \in 1 .. Len(b) : b[i] \in Segment /\ Sane(b[i]) /\ b[i] \in R
      /\ \A i \in 1 .. Len(a), j \in 1 .. Len(b) : Start(a[i]) < Start(b[j]) /\ End(a[i]) <= End(b[j])
      /\ \A i, j \in 1 .. Len(b) : i <= j => End(b[i]) <= End(b[j])
      /\ Len(a) \in Nat /\ Len(b) \in Nat
      /\ Queued(q) \in Seq(Segment) /\ Len(Queued(q)) = Len(a) + Len(b)
  BY <1>1, QueueFacts
<1>4. h = a[1] /\ 1 \in 1 .. Len(a)
  BY <1>1, <1>3
<1>5. h \in Segment /\ Sane(h) /\ h \in R /\ Queued(q)[1] = h
  BY <1>3, <1>4
<1>6. Insert(b, h) = c
  <2>1. b # <<>> => 1 \in 1 .. Len(b)
    BY <1>1
  <2>2. b # <<>> => Sane(b[1]) /\ Start(h) < Start(b[1])
    BY <1>3, <1>4, <2>1
  <2> HIDE DEF h
  <2> QED BY <1>1, <1>5, <2>2, InsertFront
<1>7. /\ c \in Seq(Segment) /\ Len(c) = Len(b) + 1 /\ c[1] = h
      /\ \A i \in 2 .. Len(b) + 1 : c[i] = b[i - 1]
  BY <1>1, <1>5, PushFront
<1>8. Tail(a) \in Seq(Segment)
  BY <1>1
<1>9. MinOf(q.nrtx + 1, TCP_MAXRTX) \in 0 .. TCP_MAXRTX
  <2>1. q.nrtx + 1 \in Nat /\ TCP_MAXRTX \in Nat
    BY <1>1, Bounds
  <2>2. MinOf(q.nrtx + 1, TCP_MAXRTX) = IF q.nrtx + 1 <= TCP_MAXRTX THEN q.nrtx + 1 ELSE TCP_MAXRTX
    BY <2>1, MinMax
  <2> QED BY <2>1, <2>2
<1> HIDE DEF W
<1>10. tcp_rexmit(q) = [q EXCEPT !.unacked = Tail(a), !.unsent = c, !.nrtx = MinOf(q.nrtx + 1, TCP_MAXRTX)]
  BY <1>6 DEF tcp_rexmit
<1>11. x = [[q EXCEPT !.unacked = Tail(a), !.unsent = c, !.nrtx = MinOf(q.nrtx + 1, TCP_MAXRTX)]
              EXCEPT !.infr = TRUE, !.rtxTimer = TRUE, !.cwnd = W]
  BY <1>10 DEF Fast, W
<1> HIDE DEF x, c
<1>12. /\ x \in Send /\ x.unacked = Tail(a) /\ x.unsent = c
       /\ x.snd_nxt = q.snd_nxt /\ x.lastack = q.lastack /\ x.snd_lbb = q.snd_lbb
       /\ x.snd_buf = q.snd_buf /\ x.snd_wnd = q.snd_wnd /\ x.snd_wnd_max = q.snd_wnd_max
       /\ x.snd_wl2 = q.snd_wl2 /\ x.finQueued = q.finQueued /\ x.alive = q.alive
       /\ x.cwnd = W /\ x.rtxTimer = TRUE /\ x.infr = TRUE
  BY <1>2, <1>7, <1>8, <1>9, <1>11 DEF Send
<1> HIDE DEF h
<1> DEFINE k == Sendable(x)
           win == SendWindow(x)
<1>13. k \in 0 .. Len(c) /\ (\A i \in 1 .. k : Fits(x, c[i])) /\ (c # <<>> /\ k = 0 => ~(Fits(x, Head(c)) /\ MayGo(x, 1)))
  BY <1>7, <1>12, SendableFacts
<1>14. /\ win \in Nat /\ win = IF x.snd_wnd <= x.cwnd THEN x.snd_wnd ELSE x.cwnd
       /\ \A s \in Segment : Sane(s) => (Fits(x, s) <=> la <= Stop(s) /\ Stop(s) - la <= win)
  <2>1. /\ x.lastack \in SeqNos /\ Offset(x.lastack) <= StreamLen + 2 /\ Offset(x.lastack) = la
        /\ x.snd_wnd \in 0 .. PeerWnd /\ x.cwnd \in Nat /\ x.snd_wnd \in Nat
    BY <1>1, <1>2, <1>12
  <2>2. win = IF x.snd_wnd <= x.cwnd THEN x.snd_wnd ELSE x.cwnd
    BY <1>5, <2>1, FitsMeans
  <2>3. ASSUME NEW s \in Segment, Sane(s) PROVE Fits(x, s) <=> la <= Stop(s) /\ Stop(s) - la <= win
    <3>1. Fits(x, s) <=> Offset(x.lastack) <= Stop(s) /\ Stop(s) - Offset(x.lastack) <= SendWindow(x)
      BY <2>1, <2>3, FitsMeans
    <3> QED BY <2>1, <3>1
  <2> HIDE DEF win
  <2> QED BY <2>1, <2>2, <2>3
<1>15. /\ Start(h) \in Nat /\ Stop(h) \in Nat /\ Length(h) \in Nat /\ Stop(h) = Start(h) + Length(h)
  BY <1>5, SegmentFacts
<1>16. Start(h) <= la /\ Length(h) <= MssLocal(q) /\ la <= Stop(h) /\ Stop(h) <= la + q.snd_wnd
  <2>1. Queued(q) # <<>> /\ Len(Queued(q)) >= 1 /\ 1 \in 1 .. Len(Queued(q))
    <3> DEFINE all == Queued(q)
    <3>1. Len(a) \in Nat /\ Len(b) \in Nat /\ Len(a) >= 1
      BY <1>3, <1>4
    <3>2. all \in Seq(Segment) /\ Len(all) = Len(a) + Len(b)
      BY <1>3
    <3> HIDE DEF all, a, b
    <3>3. Len(all) >= 1 /\ Len(all) \in Nat
      BY <3>1, <3>2
    <3>4. all # <<>> /\ 1 \in 1 .. Len(all)
      BY <3>2, <3>3
    <3> QED BY <3>3, <3>4 DEF all
  <2>2. Start(h) <= la /\ Length(h) <= MssLocal(q)
    BY <1>5, <2>1 DEF Linked
  <2>3. la <= Stop(h)
    BY <1>1, <1>5, <2>1 DEF FirstIsNew, Flight
  <2>4. Stop(h) <= la + q.snd_wnd
    BY <1>4 DEF Flight
  <2> QED BY <2>2, <2>3, <2>4
<1> HIDE DEF win, la
<1>17. Fits(x, h)
  <2>1. MssLocal(q) \in Nat /\ MssLocal(q) <= mss
    BY SendFacts
  <2>2. Stop(h) - la <= mss /\ Stop(h) - la <= q.snd_wnd
    BY <1>1, <1>2, <1>15, <1>16, <2>1, SMTT(30)
  <2>3. Stop(h) - la <= win
    BY <1>1, <1>2, <1>12, <1>14, <1>15, <2>2
  <2> QED BY <1>5, <1>14, <1>16, <2>3
<1> HIDE DEF k
<1>18. k \in 1 .. Len(b) + 1
  <2>1. c # <<>> /\ Head(c) = h
    BY <1>3, <1>7
  <2>2. MayGo(x, 1)
    BY <1>12 DEF MayGo
  <2>3. k # 0
    BY <1>13, <1>17, <2>1, <2>2
  <2> QED BY <1>3, <1>7, <1>13, <2>3
<1>19. ASSUME NEW i \in 1 .. k
       PROVE  c[i] \in Segment /\ c[i] \in R /\ Sane(c[i]) /\ End(c[i]) <= End(c[k])
  <2>1. CASE i = 1
    <3>1. c[i] = h
      BY <1>7, <2>1
    <3>2. End(h) <= End(c[k])
      <4>1. CASE k = 1
        <5>1. End(h) \in Nat
          BY <1>5, SegmentFacts
        <5> QED BY <1>7, <4>1, <5>1
      <4>2. CASE k \in 2 .. Len(b) + 1
        <5>1. k - 1 \in 1 .. Len(b) /\ c[k] = b[k - 1]
          BY <1>3, <1>7, <4>2
        <5> QED BY <1>3, <1>4, <5>1
      <4> QED BY <1>3, <1>18, <4>1, <4>2
    <3> QED BY <1>5, <3>1, <3>2
  <2>2. CASE i \in 2 .. Len(b) + 1
    <3>1. i - 1 \in 1 .. Len(b) /\ k - 1 \in 1 .. Len(b) /\ i - 1 <= k - 1 /\ k \in 2 .. Len(b) + 1
      BY <1>3, <1>18, <2>2
    <3>2. c[i] = b[i - 1] /\ c[k] = b[k - 1]
      BY <1>7, <2>2, <3>1
    <3> QED BY <1>3, <3>1, <3>2
  <2>3. i = 1 \/ i \in 2 .. Len(b) + 1
    BY <1>3, <1>18
  <2> QED BY <2>1, <2>2, <2>3
<1>20. ASSUME NEW i \in 1 .. k PROVE Stop(c[i]) <= la + q.snd_wnd
  <2>1. c[i] \in Segment /\ Sane(c[i]) /\ Fits(x, c[i])
    BY <1>13, <1>19
  <2>2. Stop(c[i]) - la <= win
    BY <1>14, <2>1
  <2>3. Stop(c[i]) \in Nat
    BY <2>1, SegmentFacts
  <2>4. win \in Nat /\ win <= q.snd_wnd /\ q.snd_wnd \in Nat /\ la \in Nat
    BY <1>1, <1>2, <1>12, <1>14
  <2> QED BY <2>2, <2>3, <2>4
<1> QED BY <1>2, <1>5, <1>12, <1>17, <1>18, <1>19, <1>20 DEF x, k, c, h, la

\* tcp_output after tcp_rexmit_fast: the segment that was put back is the first
\* in flight again.
LEMMA FastSends ==
  ASSUME NEW q, NEW w, NEW pr, NEW split, Ready(q, w, pr, split), q.unacked # <<>>
  PROVE  Sends(q, tcp_output(Fast(q)), Leaving(Fast(q)))
<1> DEFINE a == q.unacked
           b == q.unsent
           h == Head(a)
           c == <<h>> \o b
           x == Fast(q)
           k == Sendable(x)
           g == SubSeq(c, 1, k)
           f == SubSeq(b, 1, k - 1)
           d == SubSeq(b, (k - 1) + 1, Len(b))
           end == EndOf(g[k], TRUE)
           z == IF TCP_SEQ_LT(q.snd_nxt, end) THEN end ELSE q.snd_nxt
           y == Sent(x, k)
           r == tcp_output(x)
           R == Range(Queued(q))
           lim == Offset(q.lastack) + q.snd_wnd
           lbb == Offset(q.snd_lbb)
<1>1. /\ q \in Send /\ Numbers(q) /\ Flight(q) /\ FirstIsNew(q)
      /\ Linked(Queued(q), Offset(q.lastack), lbb, MssLocal(q)) /\ Chain(Queued(q))
      /\ \A s \in R : Stop(s) <= lbb /\ (s.fin => q.finQueued)
  BY DEF Ready, Common, QueueInv, FinInv, Linked
<1>2. /\ a \in Seq(Segment) /\ b \in Seq(Segment) /\ a # <<>> /\ q.snd_nxt \in SeqNos
      /\ q.rtxTimer /\ ~q.persist
  BY <1>1, SendFacts DEF Send, Flight
<1>3. /\ x \in Send /\ x.unacked = Tail(a) /\ x.unsent = c
      /\ x.snd_nxt = q.snd_nxt /\ x.lastack = q.lastack /\ x.snd_lbb = q.snd_lbb
      /\ x.snd_buf = q.snd_buf /\ x.snd_wnd = q.snd_wnd /\ x.snd_wnd_max = q.snd_wnd_max
      /\ x.snd_wl2 = q.snd_wl2 /\ x.finQueued = q.finQueued /\ x.alive = q.alive
      /\ x.cwnd >= mss /\ x.rtxTimer = TRUE
      /\ h \in Segment /\ Sane(h) /\ k \in 1 .. Len(b) + 1 /\ Fits(x, h)
      /\ \A i \in 1 .. k : /\ c[i] \in Segment /\ c[i] \in R /\ Sane(c[i])
                           /\ Stop(c[i]) <= lim /\ End(c[i]) <= End(c[k])
  BY <1>1, <1>2, FastFields
<1>4. /\ g \in Seq(Segment) /\ Len(g) = k /\ (\A i \in 1 .. k : g[i] = c[i]) /\ g[1] = h
      /\ Tail(g) = f /\ g = <<h>> \o f /\ SubSeq(c, k + 1, Len(c)) = d /\ f \in Seq(Segment)
  <2>1. h \in Segment /\ b \in Seq(Segment) /\ k \in 1 .. Len(b) + 1
    BY <1>2, <1>3
  <2> HIDE DEF h, k, a, b
  <2> QED BY <2>1, SplitFront, ZenonT(60)
<1>5. /\ Len(b) \in Nat /\ k \in Nat /\ k >= 1 /\ k - 1 \in 0 .. Len(b) /\ k \in 1 .. k
  <2>1. Len(b) \in Nat
    BY <1>2
  <2> HIDE DEF k, b
  <2> QED BY <1>3, <2>1
<1>6. (a \o f) \o d = Queued(q)
  <2> HIDE DEF k, a, b
  <2>1. (a \o SubSeq(b, 1, k - 1)) \o SubSeq(b, (k - 1) + 1, Len(b)) = a \o b
    BY <1>2, <1>5, MoveBorder
  <2> QED BY <2>1 DEF Queued, a, b
<1>7. end \in SeqNos /\ Offset(end) = End(c[k]) /\ Offset(end) \in Nat
  <2>1. g[k] = c[k] /\ c[k] \in Segment /\ Sane(c[k])
    BY <1>3, <1>4, <1>5
  <2>2. Stop(c[k]) <= StreamLen
    BY <2>1 DEF Sane
  <2> HIDE DEF g, c, k
  <2> QED BY <2>1, <2>2, EndOffset, OffsetType
<1>8. End(c[k]) <= lbb + One(q.finQueued)
  <2> DEFINE s == c[k]
             u == One(q.finQueued)
  <2>1. s \in Segment /\ Stop(s) <= lbb /\ (s.fin => q.finQueued)
    BY <1>1, <1>3, <1>5
  <2>2. q.finQueued \in BOOLEAN /\ lbb \in Nat
    BY <1>1, SendFacts DEF Send
  <2>3. u \in Int /\ 0 <= u /\ (q.finQueued => u = 1)
    BY <2>2 DEF One
  <2> HIDE DEF s, u, lbb
  <2>4. Stop(s) \in Nat /\ s.fin \in BOOLEAN /\ End(s) = IF s.fin THEN Stop(s) + 1 ELSE Stop(s)
    BY <2>1, SegmentFacts
  <2>5. CASE s.fin
    <3>1. u = 1 /\ End(s) = Stop(s) + 1
      BY <2>1, <2>3, <2>4, <2>5
    <3>2. End(s) <= lbb + u
      BY <2>1, <2>2, <2>4, <3>1
    <3> QED BY <3>2 DEF s, u
  <2>6. CASE ~s.fin
    <3>1. End(s) = Stop(s)
      BY <2>4, <2>6
    <3>2. End(s) <= lbb + u
      BY <2>1, <2>2, <2>3, <2>4, <3>1
    <3> QED BY <3>2 DEF s, u
  <2> QED BY <2>5, <2>6
<1>9. /\ Offset(q.snd_nxt) \in Nat /\ Offset(q.snd_nxt) <= StreamLen + 2 /\ lbb \in Nat
      /\ Offset(q.snd_nxt) <= lbb + One(q.finQueued) /\ lbb <= StreamLen + 1 /\ StreamLen \in Nat
  BY <1>1, SendFacts, Bounds DEF Numbers
<1>10. Offset(end) <= StreamLen + 2
  <2> DEFINE e == Offset(end)
             u == One(q.finQueued)
  <2>1. u \in {0, 1}
    BY <1>1 DEF One, Send
  <2>2. u \in Int /\ u <= 1 /\ lbb \in Nat /\ lbb <= StreamLen + 1 /\ StreamLen \in Nat
    BY <1>9, <2>1
  <2>4. e \in Nat /\ e <= lbb + u
    <3> HIDE DEF c, k, end, lbb
    <3> QED BY <1>7, <1>8
  <2> HIDE DEF u, e, lbb
  <2>3. e <= StreamLen + 2
    BY <2>2, <2>4
  <2> QED BY <2>3 DEF e
<1> HIDE DEF end
<1>11. z \in SeqNos /\ z \in {q.snd_nxt, end} /\ Offset(q.snd_nxt) <= Offset(z) /\ Offset(end) <= Offset(z)
  BY <1>2, <1>7, <1>9, <1>10, NextNumber
<1>12. /\ Tail(a) \in Seq(Segment) /\ Len(Tail(a)) = Len(a) - 1 /\ Len(a) \in Nat /\ Len(a) >= 1
       /\ (\A i \in 1 .. Len(a) - 1 : Tail(a)[i] = a[i + 1]) /\ <<h>> \o Tail(a) = a /\ h = a[1]
  <2> HIDE DEF a
  <2> QED BY <1>2, HeadAndTail, SMTT(30)
<1>13. (IF Tail(a) # <<>> /\ BySeqno(g[1], Last(Tail(a))) THEN Insert(Tail(a), g[1]) \o Tail(g) ELSE Tail(a) \o g)
       = a \o f
  <2>1. CASE Tail(a) = <<>>
    <3>1. a = <<h>>
      <4>1. <<h>> \in Seq(Segment)
        BY <1>3
      <4>2. <<h>> \o <<>> = <<h>>
        BY <4>1, ConcatEmptySeq
      <4> QED BY <1>12, <2>1, <4>2
    <3>2. Tail(a) \o g = g
      BY <1>4, <2>1, ConcatEmptySeq
    <3>3. g = a \o f
      BY <1>4, <3>1
    <3> QED BY <2>1, <3>2, <3>3
  <2>2. CASE Tail(a) # <<>>
    <3> DEFINE t == Tail(a)
               n == Len(t)
    <3>1. n \in Nat /\ n >= 1 /\ Last(t) = t[n] /\ 1 \in 1 .. n /\ n \in 1 .. n /\ n = Len(a) - 1
      BY <1>12, <2>2 DEF Last
    <3>2. \A i \in 1 .. n : t[i] \in Segment /\ Sane(t[i]) /\ Start(h) < Start(t[i])
      <4> SUFFICES ASSUME NEW i \in 1 .. n PROVE t[i] \in Segment /\ Sane(t[i]) /\ Start(h) < Start(t[i])
        OBVIOUS
      <4>1. i + 1 \in 1 .. Len(a) /\ 1 \in 1 .. Len(a) /\ i \in 1 .. Len(a) - 1
        BY <1>12, <3>1
      <4>2. t[i] = a[i + 1] /\ a[i + 1] \in Segment /\ Sane(a[i + 1])
        BY <1>1, <1>2, <1>12, <4>1, QueueFacts
      <4>3. Queued(q)[i + 1] = a[i + 1] /\ Queued(q)[1] = a[1]
        BY <1>1, <1>2, <4>1, QueueFacts
      <4>4. 1 \in 1 .. Len(Queued(q)) /\ i + 1 \in 1 .. Len(Queued(q)) /\ 1 < i + 1
        <5>1. Len(Queued(q)) = Len(a) + Len(b)
          BY <1>1, <1>2, QueueFacts
        <5> DEFINE al == Len(a)
                   bl == Len(b)
                   ql == Len(Queued(q))
        <5>2. al \in Nat /\ bl \in Nat /\ ql = al + bl /\ i + 1 \in 1 .. al /\ i \in 1 .. al - 1
          BY <1>5, <1>12, <4>1, <5>1
        <5> HIDE DEF al, bl, ql
        <5>3. 1 \in 1 .. ql /\ i + 1 \in 1 .. ql /\ 1 < i + 1
          BY <5>2
        <5> QED BY <5>3 DEF ql
      <4>5. Start(Queued(q)[1]) < Start(Queued(q)[i + 1])
        BY <1>1, <4>4 DEF Chain
      <4> QED BY <1>12, <4>2, <4>3, <4>5
    <3>3. BySeqno(h, t[n])
      <4>1. t[n] \in Segment /\ Sane(t[n]) /\ Start(h) < Start(t[n])
        BY <3>1, <3>2
      <4> QED BY <1>3, <4>1, BySeqnoMeans
    <3>4. Insert(t, h) = <<h>> \o t
      <4>1. t # <<>> => Sane(t[1]) /\ Start(h) < Start(t[1])
        BY <3>1, <3>2
      <4> HIDE DEF t, h
      <4>2. t \in Seq(Segment)
        BY <1>12 DEF t
      <4> QED BY <1>3, <4>1, <4>2, InsertFront
    <3> QED BY <1>4, <1>12, <2>2, <3>1, <3>3, <3>4
  <2> QED BY <2>1, <2>2
<1>14. y = [x EXCEPT !.unsent = d, !.unacked = a \o f, !.snd_nxt = z, !.rtxTimer = TRUE]
  <2>1. k # 0
    BY <1>5
  <2> HIDE DEF x, k, d, f, a, c
  <2>2. y = [x EXCEPT !.unsent = SubSeq(x.unsent, k + 1, Len(x.unsent)),
                      !.unacked = IF x.unacked # <<>> /\ BySeqno(SubSeq(x.unsent, 1, k)[1], Last(x.unacked))
                                    THEN Insert(x.unacked, SubSeq(x.unsent, 1, k)[1]) \o Tail(SubSeq(x.unsent, 1, k))
                                    ELSE x.unacked \o SubSeq(x.unsent, 1, k),
                      !.snd_nxt = IF TCP_SEQ_LT(x.snd_nxt, EndOf(SubSeq(x.unsent, 1, k)[k], TRUE))
                                    THEN EndOf(SubSeq(x.unsent, 1, k)[k], TRUE) ELSE x.snd_nxt,
                      !.rtxTimer = TRUE]
    BY <2>1 DEF Sent
  <2>3. x.unsent = c /\ x.unacked = Tail(a) /\ x.snd_nxt = q.snd_nxt
    BY <1>3
  <2> QED BY <1>4, <1>13, <2>2, <2>3, ZenonT(60) DEF end
<1>15. a \o f \in Seq(Segment) /\ d \in Seq(Segment)
  <2>1. a \o f \in Seq(Segment)
    BY <1>2, <1>4, Joined
  <2>2. (k - 1) + 1 \in 1 .. Len(b) + 1 /\ Len(b) \in 0 .. Len(b) /\ (k - 1) + 1 <= Len(b) + 1
    BY <1>5
  <2> QED BY <1>2, <2>1, <2>2, Part
<1>16. r = [[y EXCEPT !.persist = FALSE] EXCEPT !.naglememerr = FALSE]
  <2>1. x.unsent # <<>> /\ Head(x.unsent) = h
    <3>1. c # <<>> /\ Head(c) = h
      <4>1. c \in Seq(Segment) /\ Len(c) = Len(b) + 1 /\ c[1] = h
        BY <1>2, <1>3, PushFront
      <4> QED BY <1>5, <4>1
    <3> QED BY <1>3, <3>1
  <2> QED BY <1>3, <2>1 DEF tcp_output
<1> HIDE DEF x, d, f, a, z, y
<1>17. /\ y \in Send /\ y.unsent = d /\ y.unacked = a \o f /\ y.snd_nxt = z /\ y.rtxTimer = TRUE
       /\ y.lastack = x.lastack /\ y.snd_lbb = x.snd_lbb
       /\ y.snd_buf = x.snd_buf /\ y.snd_wnd = x.snd_wnd /\ y.snd_wnd_max = x.snd_wnd_max
       /\ y.snd_wl2 = x.snd_wl2 /\ y.finQueued = x.finQueued /\ y.alive = x.alive /\ y.cwnd = x.cwnd
  BY <1>3, <1>11, <1>14, <1>15 DEF Send
<1> HIDE DEF r
<1>18. /\ r \in Send /\ r.unsent = y.unsent /\ r.unacked = y.unacked /\ r.snd_nxt = y.snd_nxt
       /\ r.rtxTimer = y.rtxTimer /\ r.persist = FALSE
       /\ r.lastack = y.lastack /\ r.snd_lbb = y.snd_lbb
       /\ r.snd_buf = y.snd_buf /\ r.snd_wnd = y.snd_wnd /\ r.snd_wnd_max = y.snd_wnd_max
       /\ r.snd_wl2 = y.snd_wl2 /\ r.finQueued = y.finQueued /\ r.alive = y.alive /\ r.cwnd = y.cwnd
  BY <1>16, <1>17 DEF Send
<1>19. Queued(r) = Queued(q)
  BY <1>6, <1>17, <1>18 DEF Queued
<1>20. Flight(r)
  <2>1. r.rtxTimer /\ ~r.persist /\ r.unacked = a \o f /\ Offset(r.lastack) + r.snd_wnd = lim
    BY <1>3, <1>17, <1>18
  <2>2. \A i \in 1 .. Len(a) : Stop(a[i]) <= lim
    BY <1>1 DEF Flight, a
  <2>3. Len(f) = k - 1 /\ \A i \in 1 .. k - 1 : f[i] = c[i + 1]
    <3>1. g # <<>> /\ Len(g) = k
      BY <1>4, <1>5
    <3>2. Len(Tail(g)) = Len(g) - 1 /\ \A i \in 1 .. Len(g) - 1 : Tail(g)[i] = g[i + 1]
      BY <1>4, <3>1, HeadAndTail
    <3>3. \A i \in 1 .. k - 1 : i + 1 \in 1 .. k
      BY <1>5
    <3> QED BY <1>4, <3>1, <3>2, <3>3
  <2>4. \A i \in 1 .. k - 1 : Stop(f[i]) <= lim
    <3>1. \A i \in 1 .. k - 1 : i + 1 \in 1 .. k
      BY <1>5
    <3> QED BY <1>3, <2>3, <3>1
  <2> HIDE DEF lim, k
  <2>5. /\ Len(a \o f) = Len(a) + Len(f) /\ Len(a) \in Nat /\ Len(f) \in Nat
        /\ \A i \in 1 .. Len(a) : (a \o f)[i] = a[i]
        /\ \A i \in Len(a) + 1 .. Len(a) + Len(f) : (a \o f)[i] = f[i - Len(a)]
    BY <1>2, <1>4, Joined
  <2>6. ASSUME NEW i \in 1 .. Len(a) + Len(f) PROVE Stop((a \o f)[i]) <= lim
    <3>1. CASE i \in 1 .. Len(a)
      BY <2>2, <2>5, <3>1
    <3>2. CASE i \in Len(a) + 1 .. Len(a) + Len(f)
      <4>1. i - Len(a) \in 1 .. Len(f)
        BY <2>5, <3>2
      <4> QED BY <2>3, <2>4, <2>5, <3>2, <4>1
    <3> QED BY <2>5, <3>1, <3>2
  <2>7. \A i \in 1 .. Len(a \o f) : Stop((a \o f)[i]) <= lim
    BY <2>5, <2>6
  <2> QED BY <2>1, <2>7 DEF Flight
<1>21. FirstIsNew(r)
  BY <1>1, <1>2, <1>3, <1>17, <1>18, <1>19 DEF FirstIsNew
<1>22. Busy(r)
  <2> HIDE DEF a, f, k, b
  <2>1. Len(a \o f) = Len(a) + Len(f) /\ Len(a) >= 1 /\ Len(a) \in Nat /\ Len(f) \in Nat
    BY <1>2, <1>4, <1>12, Joined
  <2>2. a \o f # <<>>
    BY <2>1
  <2> QED BY <1>17, <1>18, <2>2 DEF Busy
<1>23. Leaving(x) = {c[i] : i \in 1 .. k}
  BY <1>3 DEF Leaving
<1>24. /\ Offset(q.snd_nxt) <= Offset(r.snd_nxt) /\ Offset(r.snd_nxt) <= lbb + One(q.finQueued)
       /\ \A i \in 1 .. k : End(c[i]) <= Offset(r.snd_nxt)
  <2>1. r.snd_nxt = z
    BY <1>17, <1>18
  <2>2. Offset(z) \in Nat /\ End(c[k]) \in Nat
    BY <1>7, <1>11, OffsetType
  <2>3. Offset(z) <= lbb + One(q.finQueued)
    BY <1>7, <1>8, <1>9, <1>11
  <2>4. ASSUME NEW i \in 1 .. k PROVE End(c[i]) <= Offset(z)
    <3>1. End(c[i]) <= End(c[k]) /\ c[i] \in Segment
      BY <1>3
    <3>2. End(c[i]) \in Nat
      BY <3>1, SegmentFacts
    <3> DEFINE e == End(c[i])
               m == End(c[k])
               o == Offset(end)
               v == Offset(z)
    <3>3. e \in Nat /\ m \in Nat /\ v \in Nat /\ o = m /\ e <= m /\ o <= v
      BY <1>7, <1>11, <2>2, <3>1, <3>2
    <3> HIDE DEF e, m, o, v
    <3>4. e <= v
      BY <3>3
    <3> QED BY <3>4 DEF e, v
  <2> QED BY <1>11, <2>1, <2>3, <2>4
<1>25. \A s \in Leaving(x) : s \in R /\ End(s) <= Offset(r.snd_nxt) /\ Stop(s) <= lim
  <2> HIDE DEF k, c, lim
  <2> QED BY <1>3, <1>23, <1>24
<1>26. Sends(q, r, Leaving(x))
  BY <1>3, <1>17, <1>18, <1>19, <1>20, <1>21, <1>22, <1>24, <1>25 DEF Sends
<1> QED BY <1>26 DEF r, x

\* The parts of the invariant about sets of segments hold of smaller sets.
LEMMA FinMonotone ==
  ASSUME NEW Q, NEW S, NEW Q2, NEW S2, NEW lbb, NEW fq, NEW split,
         FinInv(Q, S, lbb, fq, split), Q2 \subseteq Q, S2 \subseteq S
  PROVE  FinInv(Q2, S2, lbb, fq, split)
BY DEF FinInv

\* So do those about the peer, and snd_nxt may grow.
LEMMA PeerMonotone ==
  ASSUME NEW Q, NEW S, NEW Q2, NEW S2, NEW pr \in Peers, NEW la, NEW n \in Nat, NEW n2 \in Nat,
         NEW wnd, NEW fq, NEW split,
         PeerInv(Q, S, pr, la, n, wnd, fq, split), Q2 \subseteq Q, S2 \subseteq S, n <= n2
  PROVE  PeerInv(Q2, S2, pr, la, n2, wnd, fq, split)
<1>1. /\ pr.nxt <= pr.edge /\ pr.nxt + One(pr.fin) <= n /\ la <= pr.nxt + One(pr.fin)
      /\ wnd = 0 \/ la + wnd <= pr.edge
  BY DEF PeerInv
<1>2. pr.nxt + One(pr.fin) <= n2
  <2>1. pr.nxt \in Nat /\ pr.fin \in BOOLEAN
    BY Bounds DEF Peers
  <2>2. One(pr.fin) \in Int
    BY <2>1 DEF One
  <2> QED BY <1>1, <2>1, <2>2
<1>3. pr.fin =>
       /\ fq
       /\ \A t \in Q : Stop(t) <= pr.nxt \/ Start(t) >= pr.nxt
       /\ \A f \in S : Length(f) = 0 => Start(f) = pr.nxt
       /\ ~split => \A s \in S : Stop(s) <= pr.nxt
  BY DEF PeerInv
<1>4. pr.fin =>
       /\ fq
       /\ \A t \in Q2 : Stop(t) <= pr.nxt \/ Start(t) >= pr.nxt
       /\ \A f \in S2 : Length(f) = 0 => Start(f) = pr.nxt
       /\ ~split => \A s \in S2 : Stop(s) <= pr.nxt
  BY <1>3
<1> QED BY <1>1, <1>2, <1>4 DEF PeerInv

\* A segment that fits the window the sender knows fits the peer's, or is one
\* byte behind the FIN that the peer has.
LEMMA SentIsInWindow ==
  ASSUME NEW s \in Segment, NEW Q, NEW S, s \in Q, s \in S, NEW pr \in Peers, NEW la \in Nat, NEW n, NEW wnd \in Nat,
         NEW fq, NEW split, PeerInv(Q, S, pr, la, n, wnd, fq, split), Stop(s) <= la + wnd
  PROVE  Stop(s) <= pr.edge \/ Length(s) = 1
<1>1. /\ pr.nxt <= pr.edge /\ la <= pr.nxt + One(pr.fin)
      /\ wnd = 0 \/ la + wnd <= pr.edge
  BY DEF PeerInv
<1>2. pr.fin => /\ Stop(s) <= pr.nxt \/ Start(s) >= pr.nxt
                /\ Length(s) = 0 => Start(s) = pr.nxt
  BY DEF PeerInv
<1>3. pr.nxt \in Nat /\ pr.edge \in Nat /\ pr.fin \in BOOLEAN
  BY Bounds DEF Peers
<1>4. Start(s) \in Nat /\ Stop(s) \in Nat /\ Length(s) \in Nat /\ Stop(s) = Start(s) + Length(s)
  BY SegmentFacts
<1>5. CASE wnd # 0
  BY <1>1, <1>3, <1>4, <1>5
<1>6. CASE wnd = 0 /\ ~pr.fin
  <2>1. One(pr.fin) = 0
    BY <1>6 DEF One
  <2> QED BY <1>1, <1>3, <1>4, <1>6, <2>1
<1>7. CASE wnd = 0 /\ pr.fin
  <2>1. One(pr.fin) = 1
    BY <1>7 DEF One
  <2>2. Stop(s) <= pr.nxt + 1
    <3>1. la <= pr.nxt + 1
      BY <1>1, <2>1, Zenon
    <3>2. wnd = 0
      BY <1>7, Zenon
    <3>3. Stop(s) <= la
      BY <1>4, <3>2
    <3> QED BY <1>3, <1>4, <3>1, <3>3
  <2>3. CASE Stop(s) <= pr.nxt
    BY <1>1, <1>3, <1>4, <2>3
  <2>4. CASE Stop(s) > pr.nxt
    <3>1. /\ Stop(s) <= pr.nxt \/ Start(s) >= pr.nxt
          /\ Length(s) = 0 => Start(s) = pr.nxt
      BY <1>2, <1>7
    <3>2. Start(s) >= pr.nxt /\ Length(s) # 0
      BY <1>3, <1>4, <2>4, <3>1
    <3> QED BY <1>3, <1>4, <2>2, <3>2
  <2>5. Stop(s) <= pr.nxt \/ Stop(s) > pr.nxt
    BY <1>3, <1>4
  <2> QED BY <2>3, <2>4, <2>5
<1> QED BY <1>3, <1>5, <1>6, <1>7

\* The invariant after tcp_output.
LEMMA Posted ==
  ASSUME NEW q, NEW w, NEW pr, NEW split, NEW r, NEW L,
         Ready(q, w, pr, split), Sends(q, r, L)
  PROVE  /\ Common(r, News(w \cup L, pr), pr, split) /\ QueueInv(r) /\ Busy(r) /\ r.alive
         /\ r.lastack = q.lastack
<1> DEFINE Q == Range(Queued(q))
           S == Q \cup w
           w2 == News(w \cup L, pr)
           S2 == Q \cup w2
           la == Offset(q.lastack)
           n == Offset(q.snd_nxt)
           n2 == Offset(r.snd_nxt)
           lbb == Offset(q.snd_lbb)
<1>1. /\ q \in Send /\ pr \in Peers /\ split \in BOOLEAN /\ Numbers(q) /\ QueueInv(q) /\ q.alive
      /\ FinInv(Q, S, lbb, q.finQueued, split)
      /\ WireInv(w, n, pr)
      /\ PeerInv(Q, S, pr, la, n, q.snd_wnd, q.finQueued, split)
  BY DEF Ready, Common
<1>2. /\ r \in Send /\ Queued(r) = Queued(q)
      /\ r.lastack = q.lastack /\ r.snd_lbb = q.snd_lbb /\ r.snd_buf = q.snd_buf
      /\ r.snd_wnd = q.snd_wnd /\ r.snd_wnd_max = q.snd_wnd_max /\ r.snd_wl2 = q.snd_wl2
      /\ r.finQueued = q.finQueued /\ r.alive = q.alive /\ r.cwnd >= mss
      /\ n <= n2 /\ n2 <= lbb + One(q.finQueued)
      /\ \A s \in L : s \in Q /\ End(s) <= n2 /\ Stop(s) <= la + q.snd_wnd
      /\ Flight(r) /\ FirstIsNew(r) /\ Busy(r)
  BY DEF Sends
<1>3. la \in Nat /\ n \in Nat /\ lbb \in Nat /\ q.snd_wnd \in Nat
  BY <1>1, SendFacts
<1>4. n2 \in Nat
  <2>1. r.snd_nxt \in SeqNos
    BY <1>2 DEF Send
  <2> QED BY <2>1, OffsetType
<1>5. w2 \subseteq w \cup L /\ S2 \subseteq S
  BY <1>2 DEF News
<1>6. Numbers(r)
  <2>1. la <= n /\ lbb <= StreamLen + One(q.finQueued) /\ q.snd_wl2 = q.lastack
        /\ q.snd_wnd <= q.snd_wnd_max /\ q.snd_wnd_max >= 2
    BY <1>1 DEF Numbers
  <2>2. la <= n2
    BY <1>2, <1>3, <1>4, <2>1
  <2> QED BY <1>2, <2>1, <2>2 DEF Numbers
<1>7. QueueInv(r)
  <2>1. MssLocal(r) = MssLocal(q)
    BY <1>2 DEF MssLocal
  <2> QED BY <1>1, <1>2, <2>1 DEF QueueInv
<1>8. FinInv(Q, S2, lbb, q.finQueued, split)
  <2> HIDE DEF Q, S, S2, lbb
  <2> QED BY <1>1, <1>5, FinMonotone
<1>9. PeerInv(Q, S2, pr, la, n2, q.snd_wnd, q.finQueued, split)
  <2> HIDE DEF Q, S, S2, la, n, n2
  <2> QED BY <1>1, <1>2, <1>3, <1>4, <1>5, PeerMonotone
<1>10. \A s \in Q : s \in Segment /\ Sane(s)
  <2>1. Chain(Queued(q)) /\ q.unacked \in Seq(Segment) /\ q.unsent \in Seq(Segment)
    BY <1>1, SendFacts DEF QueueInv, Linked
  <2> QED BY <2>1, QueueFacts
<1>11. WireInv(w2, n2, pr)
  <2> SUFFICES ASSUME NEW s \in w2
               PROVE  s \in Segment /\ Sane(s) /\ End(s) <= n2 /\ (Stop(s) <= pr.edge \/ Length(s) = 1)
    BY DEF WireInv
  <2>1. CASE s \in w
    <3>1. s \in Segment /\ Sane(s) /\ End(s) <= n /\ (Stop(s) <= pr.edge \/ Length(s) = 1)
      BY <1>1, <2>1 DEF WireInv
    <3>2. End(s) \in Nat
      BY <3>1, SegmentFacts
    <3>3. End(s) <= n2
      BY <1>2, <1>3, <1>4, <3>1, <3>2
    <3> QED BY <3>1, <3>3
  <2>2. CASE s \in L
    <3>1. s \in Q /\ s \in S /\ End(s) <= n2 /\ Stop(s) <= la + q.snd_wnd
      BY <1>2, <2>2
    <3>2. s \in Segment /\ Sane(s)
      BY <1>10, <3>1
    <3> HIDE DEF Q, S, la, n
    <3>3. Stop(s) <= pr.edge \/ Length(s) = 1
      BY <1>1, <1>3, <3>1, <3>2, SentIsInWindow
    <3> QED BY <3>1, <3>2, <3>3
  <2> QED BY <1>5, <2>1, <2>2
<1>12. Common(r, w2, pr, split)
  <2>1. Range(Queued(r)) = Q /\ Range(Queued(r)) \cup w2 = S2
    BY <1>2
  <2>2. Offset(r.snd_lbb) = lbb /\ Offset(r.lastack) = la
    BY <1>2
  <2> HIDE DEF Q, S2, w2, lbb, la, n2
  <2>3. /\ FinInv(Range(Queued(r)), Range(Queued(r)) \cup w2, Offset(r.snd_lbb), r.finQueued, split)
        /\ PeerInv(Range(Queued(r)), Range(Queued(r)) \cup w2, pr, Offset(r.lastack), n2, r.snd_wnd, r.finQueued, split)
    BY <1>2, <1>8, <1>9, <2>1, <2>2
  <2> QED BY <1>1, <1>2, <1>6, <1>11, <2>3 DEF Common, n2
<1> QED BY <1>1, <1>2, <1>7, <1>12

-----------------------------------------------------------------------------
(* The steps.                                                              *)

\* Timers, counters and the border between the queues may change.
LEMMA Reset ==
  ASSUME NEW q, NEW w, NEW pr, NEW split, NEW r, Ready(q, w, pr, split),
         r \in Send, Queued(r) = Queued(q),
         r.lastack = q.lastack, r.snd_nxt = q.snd_nxt, r.snd_lbb = q.snd_lbb, r.snd_buf = q.snd_buf,
         r.snd_wnd = q.snd_wnd, r.snd_wnd_max = q.snd_wnd_max, r.snd_wl2 = q.snd_wl2,
         r.finQueued = q.finQueued, r.alive = q.alive, r.cwnd >= mss, Flight(r), FirstIsNew(r)
  PROVE  Ready(r, w, pr, split)
<1>1. Numbers(r)
  BY DEF Ready, Common, Numbers
<1>2. QueueInv(r)
  <2>1. MssLocal(r) = MssLocal(q)
    BY DEF MssLocal
  <2> QED BY <2>1 DEF Ready, QueueInv
<1>3. Common(r, w, pr, split)
  BY <1>1 DEF Ready, Common
<1> QED BY <1>2, <1>3 DEF Ready

\* A state in which the connection lives.
LEMMA AliveIsReady ==
  ASSUME OutInv, snd.alive
  PROVE  Ready(snd, wire, peer, finSplit) /\ Busy(snd) /\ fails \in 0 .. MaxFail
BY DEF OutInv, Ready

\* A failure is counted.
LEMMA FailCounted ==
  ASSUME fails \in 0 .. MaxFail, NEW b \in BOOLEAN, Failed(b)
  PROVE  fails' \in 0 .. MaxFail
<1>1. One(b) \in Nat
  BY DEF One
<1>2. MaxFail \in Nat
  BY OutputAssumption
<1> QED BY <1>1, <1>2 DEF Failed

\* tcp_output at the end of a step.
LEMMA OutputKeeps ==
  ASSUME NEW q, Ready(q, wire, peer, finSplit'), Output(q), peer' = peer, fails' \in 0 .. MaxFail
  PROVE  OutInv'
<1> DEFINE r == tcp_output(q)
           w == News(wire \cup Leaving(q), peer)
           sp == finSplit'
<1>1. Sends(q, r, Leaving(q))
  BY OutputSends
<1>2. Common(r, w, peer, sp) /\ QueueInv(r) /\ Busy(r) /\ r.alive
  BY <1>1, Posted
<1>3. snd' = r /\ wire' = w
  BY DEF Output
<1> HIDE DEF r, w
<1>4. Common(snd', wire', peer', finSplit') /\ QueueInv(snd') /\ Busy(snd') /\ snd'.alive
  BY <1>2, <1>3
<1> QED BY <1>4 DEF OutInv

\* A step that leaves a live connection without tcp_output.
LEMMA QuietKeeps ==
  ASSUME Ready(snd', wire', peer', finSplit'), Busy(snd'), fails' \in 0 .. MaxFail
  PROVE  OutInv'
BY DEF OutInv, Ready

\* The counters of retransmissions and probes stop at their limit.
LEMMA CountUp ==
  ASSUME NEW x \in 0 .. TCP_MAXRTX
  PROVE  MinOf(x + 1, TCP_MAXRTX) \in 0 .. TCP_MAXRTX
<1>1. TCP_MAXRTX \in Nat /\ x + 1 \in Int
  BY OutputAssumption
<1>2. MinOf(x + 1, TCP_MAXRTX) = IF x + 1 <= TCP_MAXRTX THEN x + 1 ELSE TCP_MAXRTX
  BY <1>1, MinMax
<1> QED BY <1>1, <1>2

\* The retransmission timer.
LEMMA RtoKeeps ==
  ASSUME OutInv, Rto
  PROVE  OutInv'
<1> DEFINE q == tcp_rexmit_rto(snd)
           all == Queued(snd)
           nr == MinOf(snd.nrtx + 1, TCP_MAXRTX)
<1>1. /\ snd.alive /\ ~snd.persist /\ Output(q) /\ peer' = peer /\ fails' = fails /\ finSplit' = finSplit
  BY DEF Rto, TimerRuns
<1>2. Ready(snd, wire, peer, finSplit) /\ fails \in 0 .. MaxFail
  BY <1>1, AliveIsReady
<1>3. snd \in Send /\ Numbers(snd) /\ FirstIsNew(snd)
  BY <1>2 DEF Ready, Common, QueueInv
<1>4. all \in Seq(Segment) /\ mss \in Nat /\ TCP_MAXRTX \in Nat
  BY <1>3, SendFacts, OutputAssumption
<1>5. nr \in 0 .. TCP_MAXRTX
  BY <1>3, CountUp DEF Send
<1>0. <<>> \in Seq(Segment)
  OBVIOUS
<1> HIDE DEF all
<1>6. q = [snd EXCEPT !.unsent = all, !.unacked = <<>>, !.rtxTimer = TRUE, !.cwnd = mss,
                      !.nrtx = nr]
  BY <1>3 DEF tcp_rexmit_rto, all, Send
<1> HIDE DEF nr, q
<1>7. /\ q \in Send /\ q.unsent = all /\ q.unacked = <<>> /\ q.persist = snd.persist /\ q.cwnd = mss
      /\ q.lastack = snd.lastack /\ q.snd_nxt = snd.snd_nxt /\ q.snd_lbb = snd.snd_lbb
      /\ q.snd_buf = snd.snd_buf /\ q.snd_wnd = snd.snd_wnd /\ q.snd_wnd_max = snd.snd_wnd_max
      /\ q.snd_wl2 = snd.snd_wl2 /\ q.finQueued = snd.finQueued /\ q.alive = snd.alive
  BY <1>3, <1>4, <1>5, <1>6, <1>0 DEF Send
<1>8. Queued(q) = all
  BY <1>4, <1>7, ConcatEmptySeq DEF Queued
<1>9. Flight(q)
  BY <1>7 DEF Flight
<1>10. FirstIsNew(q)
  BY <1>3, <1>7, <1>8 DEF FirstIsNew, all
<1>11. Ready(q, wire, peer, finSplit)
  BY <1>2, <1>4, <1>7, <1>8, <1>9, <1>10, Reset DEF all
<1> QED BY <1>1, <1>2, <1>11, OutputKeeps

\* tcp_slowtmr gives the connection up.
LEMMA GiveUpKeeps ==
  ASSUME OutInv, GiveUp
  PROVE  OutInv'
<1> DEFINE r == [snd EXCEPT !.alive = FALSE, !.unsent = <<>>, !.unacked = <<>>,
                            !.persist = FALSE, !.rtxTimer = FALSE]
           Q == Range(Queued(snd))
           S == Q \cup wire
<1>1. snd.alive /\ snd' = r /\ wire' = wire /\ peer' = peer /\ fails' = fails /\ finSplit' = finSplit
  BY DEF GiveUp
<1>2. Common(snd, wire, peer, finSplit) /\ fails \in 0 .. MaxFail
  BY DEF OutInv
<1>3. snd \in Send /\ Numbers(snd)
  BY <1>2 DEF Common
<1>4. /\ r \in Send /\ r.alive = FALSE /\ r.unsent = <<>> /\ r.unacked = <<>>
      /\ r.lastack = snd.lastack /\ r.snd_nxt = snd.snd_nxt /\ r.snd_lbb = snd.snd_lbb
      /\ r.snd_buf = snd.snd_buf /\ r.snd_wnd = snd.snd_wnd /\ r.snd_wnd_max = snd.snd_wnd_max
      /\ r.snd_wl2 = snd.snd_wl2 /\ r.finQueued = snd.finQueued /\ r.cwnd = snd.cwnd
  <2>1. <<>> \in Seq(Segment)
    OBVIOUS
  <2> QED BY <1>3, <2>1 DEF Send
<1> HIDE DEF r
<1>5. Queued(r) = <<>>
  BY <1>4 DEF Queued
<1>6. Range(<<>>) = {}
  BY DEF Range
<1>7. Numbers(r) /\ Flight(r)
  BY <1>3, <1>4 DEF Numbers, Flight
<1>8. FinInv({}, wire, Offset(snd.snd_lbb), snd.finQueued, finSplit)
  <2>1. FinInv(Q, S, Offset(snd.snd_lbb), snd.finQueued, finSplit) /\ {} \subseteq Q /\ wire \subseteq S
    BY <1>2 DEF Common
  <2> HIDE DEF Q, S
  <2> QED BY <2>1, FinMonotone
<1>9. PeerInv({}, wire, peer, Offset(snd.lastack), Offset(snd.snd_nxt), snd.snd_wnd, snd.finQueued, finSplit)
  <2>1. /\ PeerInv(Q, S, peer, Offset(snd.lastack), Offset(snd.snd_nxt), snd.snd_wnd, snd.finQueued, finSplit)
        /\ {} \subseteq Q /\ wire \subseteq S /\ peer \in Peers
    BY <1>2 DEF Common
  <2>2. Offset(snd.snd_nxt) \in Nat /\ Offset(snd.snd_nxt) <= Offset(snd.snd_nxt)
    BY <1>3, SendFacts
  <2> HIDE DEF Q, S
  <2> QED BY <2>1, <2>2, PeerMonotone
<1>10. /\ FinInv(Range(Queued(r)), Range(Queued(r)) \cup wire, Offset(r.snd_lbb), r.finQueued, finSplit)
       /\ PeerInv(Range(Queued(r)), Range(Queued(r)) \cup wire, peer, Offset(r.lastack), Offset(r.snd_nxt), r.snd_wnd, r.finQueued, finSplit)
  <2>1. Range(Queued(r)) = {} /\ Range(Queued(r)) \cup wire = wire
    BY <1>5, <1>6
  <2> QED BY <1>4, <1>8, <1>9, <2>1
<1>11. Common(r, wire, peer, finSplit)
  BY <1>2, <1>4, <1>7, <1>10 DEF Common
<1>12. Common(snd', wire', peer', finSplit') /\ ~snd'.alive /\ Queued(snd') = <<>> /\ fails' \in 0 .. MaxFail
  BY <1>1, <1>2, <1>4, <1>5, <1>11
<1> QED BY <1>12 DEF OutInv

\* A step of the peer.
LEMMA PeerKeeps ==
  ASSUME OutInv, snd' = snd, fails' = fails, finSplit' = finSplit, peer' \in Peers,
         wire' \subseteq wire, peer.edge <= peer'.edge,
         LET Q == Range(Queued(snd)) IN
         PeerInv(Q, Q \cup wire, peer', Offset(snd.lastack), Offset(snd.snd_nxt), snd.snd_wnd,
                 snd.finQueued, finSplit)
  PROVE  OutInv'
<1> DEFINE Q == Range(Queued(snd))
           S == Q \cup wire
           w == wire'
           p == peer'
           n == Offset(snd.snd_nxt)
           la == Offset(snd.lastack)
           lbb == Offset(snd.snd_lbb)
<1>1. /\ snd \in Send /\ Numbers(snd) /\ Flight(snd) /\ finSplit \in BOOLEAN /\ peer \in Peers
      /\ FinInv(Q, S, lbb, snd.finQueued, finSplit)
      /\ WireInv(wire, n, peer)
  BY DEF OutInv, Common
<1>2. n \in Nat
  BY <1>1, SendFacts
<1>3. w \subseteq wire /\ Q \cup w \subseteq S /\ p \in Peers /\ peer.edge <= p.edge
  OBVIOUS
<1>4. FinInv(Q, Q \cup w, lbb, snd.finQueued, finSplit)
  <2> HIDE DEF S, lbb, Q
  <2> QED BY <1>1, <1>3, FinMonotone
<1>5. PeerInv(Q, Q \cup w, p, la, n, snd.snd_wnd, snd.finQueued, finSplit)
  <2>1. PeerInv(Q, S, p, la, n, snd.snd_wnd, snd.finQueued, finSplit) /\ n <= n
    BY <1>2
  <2> HIDE DEF S, la, Q, n, p, w
  <2> QED BY <1>2, <1>3, <2>1, PeerMonotone
<1>6. WireInv(w, n, p)
  <2> SUFFICES ASSUME NEW s \in w
               PROVE  s \in Segment /\ Sane(s) /\ End(s) <= n /\ (Stop(s) <= p.edge \/ Length(s) = 1)
    BY DEF WireInv
  <2> HIDE DEF w, p, n
  <2>1. s \in Segment /\ Sane(s) /\ End(s) <= n /\ (Stop(s) <= peer.edge \/ Length(s) = 1)
    BY <1>1, <1>3 DEF WireInv
  <2>2. Stop(s) \in Nat /\ peer.edge \in Nat /\ p.edge \in Nat
    BY <1>1, <1>3, <2>1, SegmentFacts, Bounds, SMTT(30) DEF Peers
  <2>3. Stop(s) <= peer.edge => Stop(s) <= p.edge
    BY <1>3, <2>2
  <2> QED BY <2>1, <2>3
<1> HIDE DEF w, p
<1>7. Common(snd, w, p, finSplit)
  BY <1>1, <1>3, <1>4, <1>5, <1>6 DEF Common
<1>8. Common(snd', wire', peer', finSplit')
  BY <1>7 DEF w, p
<1>9. /\ fails' \in 0 .. MaxFail
      /\ snd'.alive => QueueInv(snd') /\ Busy(snd')
      /\ ~snd'.alive => Queued(snd') = <<>>
  BY DEF OutInv
<1> QED BY <1>8, <1>9 DEF OutInv

\* The peer's application reads.
LEMMA PeerReadKeeps ==
  ASSUME OutInv, PeerRead
  PROVE  OutInv'
<1> DEFINE Q == Range(Queued(snd))
           S == Q \cup wire
           n == Offset(snd.snd_nxt)
           la == Offset(snd.lastack)
<1>1. PICK edge \in peer.edge + 1 .. MinOf(peer.nxt + PeerWnd, MaxEdge) : peer' = [peer EXCEPT !.edge = edge]
  BY DEF PeerRead
<1>2. ~peer.fin /\ snd' = snd /\ wire' = wire /\ fails' = fails /\ finSplit' = finSplit
  BY DEF PeerRead
<1>3. /\ snd \in Send /\ Numbers(snd) /\ peer \in Peers
      /\ PeerInv(Q, S, peer, la, n, snd.snd_wnd, snd.finQueued, finSplit)
  BY DEF OutInv, Common
<1>4. /\ peer.nxt \in Nat /\ peer.nxt <= StreamLen /\ peer.edge \in Nat /\ peer.edge >= FirstWnd
      /\ peer.fin \in BOOLEAN /\ StreamLen \in Nat /\ PeerWnd \in Nat /\ FirstWnd \in Nat
  BY <1>3, Bounds, OutputAssumption DEF Peers
<1>5. edge \in Nat /\ edge > peer.edge /\ edge >= FirstWnd /\ edge <= StreamLen + PeerWnd
  <2>1. MaxEdge \in Int /\ peer.nxt + PeerWnd \in Int
    BY <1>4, OutputAssumption
  <2>2. MinOf(peer.nxt + PeerWnd, MaxEdge) = IF peer.nxt + PeerWnd <= MaxEdge THEN peer.nxt + PeerWnd ELSE MaxEdge
    BY <2>1, MinMax
  <2> QED BY <1>1, <1>4, <2>1, <2>2
<1>6. /\ peer' \in Peers /\ peer'.edge = edge /\ peer'.nxt = peer.nxt /\ peer'.fin = peer.fin
  BY <1>1, <1>3, <1>4, <1>5 DEF Peers
<1>7. la \in Nat /\ snd.snd_wnd \in Nat
  BY <1>3, SendFacts
<1> HIDE DEF Q, S, la, n
<1> DEFINE p == peer'
<1>8. /\ p.nxt = peer.nxt /\ p.fin = peer.fin /\ p.edge = edge
  BY <1>6
<1> HIDE DEF p
<1>9. PeerInv(Q, S, p, la, n, snd.snd_wnd, snd.finQueued, finSplit)
  <2>1. /\ peer.nxt <= peer.edge /\ peer.nxt + One(peer.fin) <= n /\ la <= peer.nxt + One(peer.fin)
        /\ snd.snd_wnd = 0 \/ la + snd.snd_wnd <= peer.edge
    BY <1>3 DEF PeerInv
  <2>2. peer.nxt <= edge
    BY <1>4, <1>5, <2>1
  <2>3. snd.snd_wnd = 0 \/ la + snd.snd_wnd <= edge
    BY <1>4, <1>5, <1>7, <2>1
  <2> QED BY <1>2, <1>8, <2>1, <2>2, <2>3 DEF PeerInv
<1>10. peer.edge <= peer'.edge /\ wire' \subseteq wire
  BY <1>2, <1>4, <1>5, <1>6
<1> QED BY <1>2, <1>6, <1>9, <1>10, PeerKeeps DEF Q, S, la, n, p

\* The peer takes a segment.
LEMMA TakeKeeps ==
  ASSUME OutInv, NEW s \in wire, Take(s)
  PROVE  OutInv'
<1> DEFINE Q == Range(Queued(snd))
           S == Q \cup wire
           n == Offset(snd.snd_nxt)
           la == Offset(snd.lastack)
           lbb == Offset(snd.snd_lbb)
           to == MinOf(Stop(s), peer.edge)
           fin == s.fin /\ to = Stop(s)
<1>1. /\ ~peer.fin /\ Start(s) <= peer.nxt
      /\ to > peer.nxt \/ (s.fin /\ Stop(s) = peer.nxt)
      /\ peer' = [peer EXCEPT !.nxt = to, !.fin = fin]
      /\ wire' = News(wire, peer')
      /\ snd' = snd /\ fails' = fails /\ finSplit' = finSplit
  BY DEF Take, Start, Stop
<1>2. /\ snd \in Send /\ Numbers(snd) /\ peer \in Peers
      /\ FinInv(Q, S, lbb, snd.finQueued, finSplit) /\ WireInv(wire, n, peer)
      /\ PeerInv(Q, S, peer, la, n, snd.snd_wnd, snd.finQueued, finSplit)
  BY DEF OutInv, Common
<1>3. s \in Segment /\ Sane(s) /\ End(s) <= n /\ s \in S
  BY <1>2 DEF WireInv
<1>4. /\ Start(s) \in Nat /\ Stop(s) \in Nat /\ End(s) \in Nat /\ Length(s) \in Nat /\ s.fin \in BOOLEAN
      /\ Stop(s) = Start(s) + Length(s) /\ End(s) = (IF s.fin THEN Stop(s) + 1 ELSE Stop(s))
      /\ Stop(s) <= StreamLen
  BY <1>3, SegmentFacts DEF Sane
<1>5. /\ peer.nxt \in Nat /\ peer.nxt <= StreamLen /\ peer.edge \in FirstWnd .. StreamLen + PeerWnd
      /\ peer.edge \in Nat /\ peer.fin \in BOOLEAN /\ StreamLen \in Nat
  BY <1>2, Bounds, OutputAssumption DEF Peers
<1>6. /\ peer.nxt <= peer.edge /\ la <= peer.nxt
      /\ snd.snd_wnd = 0 \/ la + snd.snd_wnd <= peer.edge
  <2>1. /\ peer.nxt <= peer.edge /\ la <= peer.nxt + One(peer.fin)
        /\ snd.snd_wnd = 0 \/ la + snd.snd_wnd <= peer.edge
    BY <1>2 DEF PeerInv
  <2>2. One(peer.fin) = 0
    BY <1>1 DEF One
  <2>3. la \in Nat
    BY <1>2, SendFacts
  <2> QED BY <1>5, <2>1, <2>2, <2>3
<1>7. to = IF Stop(s) <= peer.edge THEN Stop(s) ELSE peer.edge
  BY <1>4, <1>5, MinMax
<1> HIDE DEF to
<1>8. to \in Nat /\ to <= Stop(s) /\ to <= peer.edge /\ to <= StreamLen
  BY <1>4, <1>5, <1>7
<1>9. peer.nxt <= to
  <2>1. CASE to > peer.nxt
    BY <1>5, <1>8, <2>1
  <2>2. CASE Stop(s) = peer.nxt
    BY <1>4, <1>5, <1>6, <1>7, <2>2
  <2> QED BY <1>1, <2>1, <2>2
<1>10. fin \in BOOLEAN /\ (fin => s.fin /\ to = Stop(s))
  OBVIOUS
<1> HIDE DEF fin
<1>11. peer' \in Peers /\ peer'.nxt = to /\ peer'.fin = fin /\ peer'.edge = peer.edge
  <2>1. to \in 0 .. StreamLen /\ fin \in BOOLEAN
    BY <1>5, <1>8, <1>10
  <2>2. peer' = [peer EXCEPT !.nxt = to, !.fin = fin]
    BY <1>1
  <2> QED BY <1>2, <2>1, <2>2 DEF Peers
<1> DEFINE p == peer'
<1>12. p.nxt = to /\ p.fin = fin /\ p.edge = peer.edge
  BY <1>11
<1>13. la \in Nat /\ n \in Nat
  BY <1>2, SendFacts
<1> HIDE DEF p, Q, S, la, n, lbb
<1>14. to + One(fin) <= n /\ la <= to + One(fin)
  <2>1. CASE fin
    <3>1. End(s) = to + 1 /\ One(fin) = 1
      BY <1>4, <1>10, <2>1 DEF One
    <3>2. la <= to /\ to + 1 <= n
      BY <1>3, <1>5, <1>6, <1>8, <1>9, <1>13, <3>1
    <3> QED BY <1>8, <1>13, <3>1, <3>2
  <2>2. CASE ~fin
    <3>1. One(fin) = 0
      BY <2>2 DEF One
    <3>2. Stop(s) <= End(s)
      BY <1>4
    <3>3. la <= to /\ to <= n
      BY <1>3, <1>4, <1>5, <1>6, <1>8, <1>9, <1>13, <3>2
    <3> QED BY <1>8, <1>13, <3>1, <3>3
  <2> QED BY <1>10, <2>1, <2>2
<1>15. ASSUME fin
       PROVE  /\ snd.finQueued
              /\ \A t \in Q : Stop(t) <= to \/ Start(t) >= to
              /\ \A f \in S : Length(f) = 0 => Start(f) = to
              /\ ~finSplit => \A t \in S : Stop(t) <= to
  <2>1. s.fin /\ to = Stop(s)
    BY <1>10, <1>15
  <2>2. snd.finQueued /\ (~finSplit => \A t \in S : Stop(t) <= to)
    BY <1>2, <1>3, <2>1 DEF FinInv
  <2>3. \A t \in Q : Stop(t) <= to \/ Start(t) >= to
    BY <1>2, <1>3, <2>1 DEF FinInv
  <2>4. ASSUME NEW f \in S, Length(f) = 0 PROVE Start(f) = to
    <3>1. Length(s) = 0 /\ Start(s) = Start(f)
      BY <1>2, <1>3, <2>1, <2>4 DEF FinInv
    <3> QED BY <1>4, <2>1, <3>1
  <2> QED BY <2>2, <2>3, <2>4
<1>16. PeerInv(Q, S, p, la, n, snd.snd_wnd, snd.finQueued, finSplit)
  <2>1. /\ p.nxt <= p.edge /\ p.nxt + One(p.fin) <= n /\ la <= p.nxt + One(p.fin)
        /\ snd.snd_wnd = 0 \/ la + snd.snd_wnd <= p.edge
    BY <1>6, <1>8, <1>12, <1>14
  <2>2. p.fin => /\ snd.finQueued
                 /\ \A t \in Q : Stop(t) <= p.nxt \/ Start(t) >= p.nxt
                 /\ \A f \in S : Length(f) = 0 => Start(f) = p.nxt
                 /\ ~finSplit => \A t \in S : Stop(t) <= p.nxt
    BY <1>12, <1>15
  <2> QED BY <2>1, <2>2 DEF PeerInv
<1>17. wire' \subseteq wire /\ peer.edge <= peer'.edge
  BY <1>1, <1>5, <1>11 DEF News
<1> QED BY <1>1, <1>11, <1>16, <1>17, PeerKeeps DEF p, Q, S, la, n

\* A segment of one byte without the FIN, cut from the segment h, is on the wire
\* as well.
LEMMA Probed ==
  ASSUME NEW q, NEW w, NEW pr, NEW split, NEW r, Ready(q, w, pr, split),
         r \in Send, Queued(r) = Queued(q),
         r.lastack = q.lastack, r.snd_lbb = q.snd_lbb, r.snd_buf = q.snd_buf,
         r.snd_wnd = q.snd_wnd, r.snd_wnd_max = q.snd_wnd_max, r.snd_wl2 = q.snd_wl2,
         r.finQueued = q.finQueued, r.alive = q.alive, r.cwnd >= mss, Flight(r), FirstIsNew(r),
         Offset(q.snd_nxt) <= Offset(r.snd_nxt),
         Offset(r.snd_nxt) <= Offset(q.snd_lbb) + One(q.finQueued),
         NEW s \in Segment, Sane(s), End(s) <= Offset(r.snd_nxt), Length(s) = 1, ~s.fin,
         NEW h \in Range(Queued(q)), Stop(s) <= Stop(h)
  PROVE  Ready(r, News(w \cup {s}, pr), pr, split)
<1> DEFINE Q == Range(Queued(q))
           S == Q \cup w
           w2 == News(w \cup {s}, pr)
           S2 == Q \cup w2
           la == Offset(q.lastack)
           n == Offset(q.snd_nxt)
           n2 == Offset(r.snd_nxt)
           lbb == Offset(q.snd_lbb)
<1>1. /\ q \in Send /\ pr \in Peers /\ split \in BOOLEAN /\ Numbers(q) /\ QueueInv(q) /\ q.alive
      /\ FinInv(Q, S, lbb, q.finQueued, split)
      /\ WireInv(w, n, pr)
      /\ PeerInv(Q, S, pr, la, n, q.snd_wnd, q.finQueued, split)
  BY DEF Ready, Common
<1>2. la \in Nat /\ n \in Nat /\ lbb \in Nat /\ n2 \in Nat /\ n <= n2
  <2>1. r.snd_nxt \in SeqNos
    BY DEF Send
  <2> QED BY <1>1, <2>1, SendFacts, OffsetType
<1>3. S2 \subseteq S \cup {s} /\ w2 \subseteq w \cup {s} /\ h \in S
  BY DEF News
<1>4. Stop(s) \in Nat /\ Stop(h) \in Nat
  <2>1. Chain(Queued(q)) /\ q.unacked \in Seq(Segment) /\ q.unsent \in Seq(Segment)
    BY <1>1, SendFacts DEF QueueInv, Linked
  <2>2. h \in Segment
    BY <2>1, QueueFacts
  <2> QED BY <2>2, SegmentFacts
<1>5. Numbers(r)
  <2>1. la <= n /\ lbb <= StreamLen + One(q.finQueued) /\ q.snd_wl2 = q.lastack
        /\ q.snd_wnd <= q.snd_wnd_max /\ q.snd_wnd_max >= 2
    BY <1>1 DEF Numbers
  <2>2. la <= n2
    BY <1>2, <2>1
  <2> QED BY <2>1, <2>2 DEF Numbers
<1>6. QueueInv(r)
  <2>1. MssLocal(r) = MssLocal(q)
    BY DEF MssLocal
  <2> QED BY <1>1, <2>1 DEF QueueInv
<1> HIDE DEF Q, S, w2, S2, la, n, n2, lbb
<1>7. FinInv(Q, S \cup {s}, lbb, q.finQueued, split)
  <2>1. \A t \in S \cup {s} : Stop(t) <= lbb /\ (t.fin => q.finQueued)
    <3>1. Stop(h) <= lbb
      BY <1>1, <1>3 DEF FinInv
    <3>2. Stop(s) <= lbb
      BY <1>2, <1>4, <3>1
    <3> QED BY <1>1, <3>2 DEF FinInv
  <2>2. \A f, t \in S \cup {s} : f.fin /\ ~split => Stop(t) <= Stop(f)
    <3> SUFFICES ASSUME NEW f \in S \cup {s}, NEW t \in S \cup {s}, f.fin, ~split PROVE Stop(t) <= Stop(f)
      OBVIOUS
    <3>1. f \in S /\ Stop(h) <= Stop(f)
      BY <1>1, <1>3 DEF FinInv
    <3>2. CASE t \in S
      BY <1>1, <3>1, <3>2 DEF FinInv
    <3>3. CASE t = s
      <4>1. Stop(f) \in Nat
        <5>1. f \in Segment
          <6>1. f \in Q \/ f \in w
            BY <3>1 DEF S
          <6>2. f \in w => f \in Segment
            BY <1>1 DEF WireInv
          <6>3. f \in Q => f \in Segment
            <7>1. Chain(Queued(q)) /\ q.unacked \in Seq(Segment) /\ q.unsent \in Seq(Segment)
              BY <1>1, SendFacts DEF QueueInv, Linked
            <7> QED BY <7>1, QueueFacts DEF Q
          <6> QED BY <6>1, <6>2, <6>3
        <5> QED BY <5>1, SegmentFacts
      <4> QED BY <1>4, <3>1, <3>3, <4>1
    <3> QED BY <3>2, <3>3
  <2>3. \A f, g \in S \cup {s} : Length(f) = 0 /\ g.fin => Length(g) = 0 /\ Start(g) = Start(f)
    <3> SUFFICES ASSUME NEW f \in S \cup {s}, NEW g \in S \cup {s}, Length(f) = 0, g.fin
                 PROVE  Length(g) = 0 /\ Start(g) = Start(f)
      OBVIOUS
    <3>1. f \in S /\ g \in S
      OBVIOUS
    <3> QED BY <1>1, <3>1 DEF FinInv
  <2>4. \A f \in S \cup {s}, t \in Q : f.fin => Stop(t) <= Stop(f) \/ Start(t) >= Stop(f)
    BY <1>1 DEF FinInv
  <2> QED BY <2>1, <2>2, <2>3, <2>4 DEF FinInv
<1>8. FinInv(Q, S2, lbb, q.finQueued, split)
  BY <1>3, <1>7, FinMonotone
<1>9. PeerInv(Q, S \cup {s}, pr, la, n, q.snd_wnd, q.finQueued, split)
  <2>1. /\ pr.nxt <= pr.edge /\ pr.nxt + One(pr.fin) <= n /\ la <= pr.nxt + One(pr.fin)
        /\ q.snd_wnd = 0 \/ la + q.snd_wnd <= pr.edge
    BY <1>1 DEF PeerInv
  <2>2. ASSUME pr.fin
        PROVE  /\ q.finQueued
               /\ \A t \in Q : Stop(t) <= pr.nxt \/ Start(t) >= pr.nxt
               /\ \A f \in S \cup {s} : Length(f) = 0 => Start(f) = pr.nxt
               /\ ~split => \A t \in S \cup {s} : Stop(t) <= pr.nxt
    <3>1. /\ q.finQueued
          /\ \A t \in Q : Stop(t) <= pr.nxt \/ Start(t) >= pr.nxt
          /\ \A f \in S : Length(f) = 0 => Start(f) = pr.nxt
          /\ ~split => \A t \in S : Stop(t) <= pr.nxt
      BY <1>1, <2>2 DEF PeerInv
    <3>2. \A f \in S \cup {s} : Length(f) = 0 => Start(f) = pr.nxt
      BY <3>1
    <3>3. ASSUME ~split PROVE \A t \in S \cup {s} : Stop(t) <= pr.nxt
      <4>1. pr.nxt \in Nat /\ Stop(h) <= pr.nxt
        BY <1>1, <1>3, <3>1, <3>3, Bounds DEF Peers
      <4>2. Stop(s) <= pr.nxt
        BY <1>4, <4>1
      <4> QED BY <3>1, <3>3, <4>2
    <3> QED BY <3>1, <3>2, <3>3
  <2> QED BY <2>1, <2>2 DEF PeerInv
<1>10. PeerInv(Q, S2, pr, la, n2, q.snd_wnd, q.finQueued, split)
  BY <1>1, <1>2, <1>3, <1>9, PeerMonotone
<1>11. WireInv(w2, n2, pr)
  <2> SUFFICES ASSUME NEW t \in w2
               PROVE  t \in Segment /\ Sane(t) /\ End(t) <= n2 /\ (Stop(t) <= pr.edge \/ Length(t) = 1)
    BY DEF WireInv
  <2>1. CASE t \in w
    <3>1. t \in Segment /\ Sane(t) /\ End(t) <= n /\ (Stop(t) <= pr.edge \/ Length(t) = 1)
      BY <1>1, <2>1 DEF WireInv
    <3>2. End(t) \in Nat
      BY <3>1, SegmentFacts
    <3>3. End(t) <= n2
      BY <1>2, <3>1, <3>2
    <3> QED BY <3>1, <3>3
  <2>2. CASE t = s
    BY <2>2 DEF n2
  <2> QED BY <1>3, <2>1, <2>2
<1>12. Common(r, w2, pr, split)
  BY <1>1, <1>5, <1>8, <1>10, <1>11 DEF Common, Q, S2, la, lbb, n2
<1> QED BY <1>1, <1>6, <1>12 DEF Ready, w2

\* A probe is the first byte of the segment.
LEMMA ProbeFacts ==
  ASSUME NEW h \in Segment, Sane(h), Length(h) > 0
  PROVE  LET s == Probe(h) IN
         /\ s \in Segment /\ Sane(s) /\ ~s.fin /\ Length(s) = 1
         /\ Stop(s) = Start(h) + 1 /\ End(s) = Start(h) + 1 /\ Stop(s) <= Stop(h)
<1> DEFINE s == Probe(h)
           p == SubSeq(h.p, 1, 1)
<1>1. /\ h.seqno \in SeqNos /\ h.p \in Seq(0 .. StreamLen - 1) /\ Len(h.p) >= 1
      /\ Start(h) \in Nat /\ Length(h) \in Nat /\ Stop(h) = Start(h) + Length(h) /\ Length(h) = Len(h.p)
  BY SegmentFacts DEF Length
<1>2. p \in Seq(0 .. StreamLen - 1) /\ Len(p) = 1 /\ p[1] = h.p[1]
  <2> DEFINE x == h.p
             T == 0 .. StreamLen - 1
  <2>1. x \in Seq(T) /\ 1 \in 1 .. Len(x) + 1 /\ 1 \in 0 .. Len(x) /\ 1 <= 1 + 1
    BY <1>1
  <2> HIDE DEF x, T
  <2>2. /\ SubSeq(x, 1, 1) \in Seq(T) /\ Len(SubSeq(x, 1, 1)) = 1 - 1 + 1
        /\ \A i \in 1 .. 1 - 1 + 1 : SubSeq(x, 1, 1)[i] = x[1 + i - 1]
    BY <2>1, Part
  <2>3. SubSeq(x, 1, 1)[1] = x[1] /\ Len(SubSeq(x, 1, 1)) = 1
    BY <2>2
  <2> QED BY <2>2, <2>3 DEF x, T
<1>3. s = [seqno |-> h.seqno, fin |-> FALSE, p |-> p]
  <2>1. s = [CutTo(h, 1) EXCEPT !.fin = FALSE]
    BY <1>1 DEF Probe
  <2> HIDE DEF s
  <2> QED BY <2>1 DEF CutTo, Segment
<1> HIDE DEF s, p
<1>4. s \in Segment /\ s.seqno = h.seqno /\ s.fin = FALSE /\ s.p = p
  BY <1>1, <1>2, <1>3 DEF Segment
<1>5. Length(s) = 1 /\ Start(s) = Start(h)
  BY <1>2, <1>4 DEF Length, Start
<1>6. Stop(s) = Start(h) + 1 /\ End(s) = Start(h) + 1
  <2>1. Stop(s) = Start(s) + Length(s) /\ End(s) = IF s.fin THEN Stop(s) + 1 ELSE Stop(s)
    BY <1>4, SegmentFacts
  <2> QED BY <1>4, <1>5, <2>1
<1>7. Stop(s) <= Stop(h) /\ Stop(h) <= StreamLen /\ StreamLen \in Nat
  <2>1. Stop(h) <= StreamLen /\ StreamLen \in Nat
    BY Bounds DEF Sane
  <2> QED BY <1>1, <1>6, <2>1
<1>8. \A j \in 1 .. Length(s) : s.p[j] = Start(s) + j - 1
  <2>1. h.p[1] = Start(h) + 1 - 1
    BY <1>1 DEF Sane
  <2>2. s.p[1] = Start(s) + 1 - 1
    BY <1>2, <1>4, <1>5, <2>1
  <2> QED BY <1>5, <2>2
<1>9. Sane(s)
  <2>1. Start(s) < End(s) /\ Stop(s) <= StreamLen
    BY <1>1, <1>5, <1>6, <1>7
  <2> QED BY <1>8, <2>1 DEF Sane
<1> QED BY <1>4, <1>5, <1>6, <1>7, <1>9 DEF s

\* The persist timer with the window closed.
LEMMA ZeroWindowProbeKeeps ==
  ASSUME OutInv, NEW nomem \in BOOLEAN, ZeroWindowProbe(nomem)
  PROVE  OutInv'
<1> DEFINE q == tcp_zero_window_probe(snd)
           h == Head(snd.unsent)
           end == Add(h.seqno, 1)
           z == IF TCP_SEQ_LT(snd.snd_nxt, end) THEN end ELSE snd.snd_nxt
           pc == MinOf(snd.persist_probe + 1, TCP_MAXRTX)
           lbb == Offset(snd.snd_lbb)
           n == Offset(snd.snd_nxt)
<1>1. /\ snd.alive /\ snd.persist /\ snd.unsent # <<>> /\ snd.snd_wnd = 0
      /\ snd' = IF nomem THEN [q EXCEPT !.snd_nxt = snd.snd_nxt] ELSE q
      /\ wire' = IF nomem THEN wire ELSE News(wire \cup {Probe(h)}, peer)
      /\ Failed(nomem) /\ peer' = peer /\ finSplit' = finSplit
  BY DEF ZeroWindowProbe, PersistRuns, TimerRuns
<1>2. Ready(snd, wire, peer, finSplit) /\ Busy(snd) /\ fails \in 0 .. MaxFail /\ fails' \in 0 .. MaxFail
  BY <1>1, AliveIsReady, FailCounted
<1>3. /\ snd \in Send /\ Numbers(snd) /\ QueueInv(snd) /\ Flight(snd)
      /\ Linked(Queued(snd), Offset(snd.lastack), lbb, MssLocal(snd)) /\ Chain(Queued(snd))
      /\ \A s \in Range(Queued(snd)) : Stop(s) <= lbb /\ (s.fin => snd.finQueued)
  BY <1>2 DEF Ready, Common, QueueInv, FinInv, Linked
<1>4. snd.unacked = <<>> /\ snd.unsent \in Seq(Segment) /\ Queued(snd) = snd.unsent
  <2>1. snd.unacked = <<>> /\ snd.unsent \in Seq(Segment)
    BY <1>1, <1>3 DEF Flight, Send
  <2> QED BY <2>1, ConcatEmptySeq DEF Queued
<1>5. /\ h \in Segment /\ Sane(h) /\ h \in Range(Queued(snd)) /\ h = Queued(snd)[1]
      /\ Start(h) <= Offset(snd.lastack)
  <2>1. h = snd.unsent[1] /\ 1 \in 1 .. Len(snd.unsent)
    BY <1>1, <1>4
  <2>2. h \in Range(Queued(snd)) /\ h \in Segment /\ Sane(h)
    <3>1. snd.unacked \in Seq(Segment)
      BY <1>3 DEF Send
    <3>2. \A i \in 1 .. Len(snd.unsent) : /\ snd.unsent[i] \in Segment /\ Sane(snd.unsent[i])
                                          /\ snd.unsent[i] \in Range(Queued(snd))
      BY <1>3, <1>4, <3>1, QueueFacts
    <3> QED BY <2>1, <3>2
  <2>3. Start(Queued(snd)[1]) <= Offset(snd.lastack)
    BY <1>1, <1>3, <1>4 DEF Linked
  <2>4. h = Queued(snd)[1]
    BY <1>4, <2>1
  <2> QED BY <2>2, <2>3, <2>4
<1> HIDE DEF h
<1>6. /\ Start(h) \in Nat /\ Stop(h) \in Nat /\ End(h) \in Nat /\ Length(h) \in Nat /\ h.fin \in BOOLEAN
      /\ Stop(h) = Start(h) + Length(h) /\ End(h) = (IF h.fin THEN Stop(h) + 1 ELSE Stop(h))
      /\ Start(h) < End(h) /\ h.seqno \in SeqNos /\ Stop(h) <= StreamLen
  BY <1>5, SegmentFacts DEF Sane
<1>7. /\ lbb \in Nat /\ n \in Nat /\ n <= lbb + One(snd.finQueued) /\ n <= StreamLen + 2
      /\ snd.finQueued \in BOOLEAN /\ snd.snd_nxt \in SeqNos /\ StreamLen \in Nat /\ Offset(snd.lastack) \in Nat
  BY <1>3, SendFacts, Bounds DEF Numbers, Send
<1>8. end \in SeqNos /\ Offset(end) = Start(h) + 1
  <2>1. Offset(h.seqno) + 1 < SEQ
    <3>1. StreamLen + 2 < SEQ \div 2 /\ SEQ \in Nat /\ SEQ \div 2 \in Nat /\ 2 * (SEQ \div 2) = SEQ
      BY <1>3, SendFacts, Bounds
    <3>2. Start(h) <= StreamLen
      BY <1>6, <1>7
    <3>3. Start(h) + 1 < SEQ
      BY <1>6, <1>7, <3>1, <3>2
    <3> QED BY <3>3 DEF Start
  <2> QED BY <1>6, <2>1, OffsetAdd DEF Start
<1>9. Start(h) + 1 <= lbb + One(snd.finQueued) /\ Start(h) + 1 <= StreamLen + 2
  <2>1. Stop(h) <= lbb /\ (h.fin => snd.finQueued)
    BY <1>3, <1>5
  <2>2. One(snd.finQueued) \in Int /\ 0 <= One(snd.finQueued) /\ (snd.finQueued => One(snd.finQueued) = 1)
    BY <1>7 DEF One
  <2>3. CASE h.fin
    <3>1. One(snd.finQueued) = 1 /\ End(h) = Stop(h) + 1
      BY <1>6, <2>1, <2>2, <2>3
    <3> HIDE DEF lbb
    <3> QED BY <1>6, <1>7, <2>1, <3>1
  <2>4. CASE ~h.fin
    <3>1. End(h) = Stop(h)
      BY <1>6, <2>4
    <3> HIDE DEF lbb
    <3> QED BY <1>6, <1>7, <2>1, <2>2, <3>1
  <2> QED BY <1>6, <2>3, <2>4
<1> HIDE DEF end
<1>10. z \in SeqNos /\ n <= Offset(z) /\ Offset(end) <= Offset(z) /\ Offset(z) <= lbb + One(snd.finQueued)
  <2>1. z \in SeqNos /\ z \in {snd.snd_nxt, end} /\ n <= Offset(z) /\ Offset(end) <= Offset(z)
    BY <1>7, <1>8, <1>9, NextNumber
  <2> QED BY <1>7, <1>8, <1>9, <2>1
<1>11. pc \in 0 .. TCP_MAXRTX
  BY <1>3, CountUp DEF Send
<1>12. q = [snd EXCEPT !.persist_probe = pc, !.snd_nxt = z]
  BY <1>3 DEF tcp_zero_window_probe, h, end, Send
<1>13. PICK nx : /\ nx = IF nomem THEN snd.snd_nxt ELSE z
                 /\ snd' = [snd EXCEPT !.persist_probe = pc, !.snd_nxt = nx]
  <2> HIDE DEF q, pc, z
  <2>1. CASE nomem
    BY <1>1, <1>3, <1>12, <2>1 DEF Send
  <2>2. CASE ~nomem
    BY <1>1, <1>12, <2>2
  <2> QED BY <2>1, <2>2
<1> HIDE DEF pc, z, q
<1>14. nx \in SeqNos /\ n <= Offset(nx) /\ Offset(nx) <= lbb + One(snd.finQueued)
  BY <1>7, <1>10, <1>13
<1> DEFINE r == snd'
<1>15. /\ r \in Send /\ r.unsent = snd.unsent /\ r.unacked = snd.unacked /\ r.persist = snd.persist /\ r.snd_nxt = nx
       /\ r.lastack = snd.lastack /\ r.snd_lbb = snd.snd_lbb /\ r.rtxTimer = snd.rtxTimer
       /\ r.snd_buf = snd.snd_buf /\ r.snd_wnd = snd.snd_wnd /\ r.snd_wnd_max = snd.snd_wnd_max
       /\ r.snd_wl2 = snd.snd_wl2 /\ r.finQueued = snd.finQueued /\ r.cwnd = snd.cwnd /\ r.alive = snd.alive
  BY <1>3, <1>11, <1>13, <1>14 DEF Send
<1> HIDE DEF r
<1>16. Queued(r) = Queued(snd) /\ Flight(r) /\ FirstIsNew(r) /\ Busy(r) /\ r.cwnd >= mss
  BY <1>1, <1>3, <1>4, <1>15 DEF Queued, Flight, FirstIsNew, Busy, Numbers
<1>17. CASE nomem
  <2>1. r.snd_nxt = snd.snd_nxt
    BY <1>13, <1>15, <1>17
  <2>2. Ready(r, wire, peer, finSplit)
    BY <1>2, <1>15, <1>16, <2>1, Reset
  <2>3. Ready(snd', wire', peer', finSplit') /\ Busy(snd')
    BY <1>1, <1>16, <1>17, <2>2 DEF r
  <2> QED BY <1>2, <2>3, QuietKeeps
<1>18. CASE ~nomem /\ Length(h) > 0
  <2> DEFINE s == Probe(h)
  <2>1. /\ s \in Segment /\ Sane(s) /\ ~s.fin /\ Length(s) = 1
        /\ Stop(s) = Start(h) + 1 /\ End(s) = Start(h) + 1 /\ Stop(s) <= Stop(h)
    BY <1>5, <1>18, ProbeFacts
  <2> HIDE DEF s
  <2>2. nx = z /\ End(s) <= Offset(nx)
    BY <1>8, <1>10, <1>13, <1>18, <2>1
  <2>3. Ready(r, News(wire \cup {s}, peer), peer, finSplit)
    <3>1. /\ Offset(snd.snd_nxt) <= Offset(r.snd_nxt) /\ End(s) <= Offset(r.snd_nxt)
          /\ Offset(r.snd_nxt) <= Offset(snd.snd_lbb) + One(snd.finQueued)
      BY <1>14, <1>15, <2>2
    <3> HIDE DEF n, lbb
    <3> QED BY <1>2, <1>5, <1>15, <1>16, <2>1, <3>1, Probed
  <2>4. Ready(snd', wire', peer', finSplit') /\ Busy(snd')
    BY <1>1, <1>16, <1>18, <2>3 DEF r, s
  <2> QED BY <1>2, <2>4, QuietKeeps
<1>19. CASE ~nomem /\ Length(h) = 0
  <2>1. Probe(h) = h
    BY <1>19 DEF Probe
  <2>2. nx = z /\ h.fin /\ End(h) = Start(h) + 1 /\ Stop(h) = Start(h)
    BY <1>6, <1>13, <1>19
  <2>3. End(h) <= Offset(r.snd_nxt) /\ Stop(h) <= Offset(snd.lastack) + snd.snd_wnd
    <3>1. Stop(h) <= Offset(snd.lastack) + 0
      BY <1>5, <1>6, <1>7, <2>2
    <3> QED BY <1>1, <1>8, <1>10, <1>15, <2>2, <3>1
  <2>4. Sends(snd, r, {h})
    <3>1. /\ Offset(snd.snd_nxt) <= Offset(r.snd_nxt)
          /\ Offset(r.snd_nxt) <= Offset(snd.snd_lbb) + One(snd.finQueued)
      BY <1>14, <1>15
    <3> QED BY <1>5, <1>15, <1>16, <2>3, <3>1 DEF Sends
  <2>5. Common(r, News(wire \cup {h}, peer), peer, finSplit) /\ QueueInv(r) /\ Busy(r) /\ r.alive
    BY <1>2, <2>4, Posted
  <2>6. Ready(snd', wire', peer', finSplit') /\ Busy(snd')
    BY <1>1, <1>19, <2>1, <2>5 DEF r, Ready
  <2> QED BY <1>2, <2>6, QuietKeeps
<1>20. nomem \/ (~nomem /\ Length(h) > 0) \/ (~nomem /\ Length(h) = 0)
  BY <1>6
<1> QED BY <1>17, <1>18, <1>19, <1>20

\* A segment h is replaced by its two parts; T are the segments behind it.
LEMMA SplitKeepsFin ==
  ASSUME NEW Q, NEW S, S \subseteq Segment, Q \subseteq S, NEW h \in Q, NEW cut \in Segment, NEW rest \in Segment,
         Start(cut) = Start(h), Stop(cut) = Start(rest), Stop(rest) = Stop(h),
         Length(cut) >= 1, Length(rest) >= 1, Length(h) >= 1, cut.fin = h.fin, rest.fin = h.fin,
         NEW T, T \subseteq Q, \A t \in T : Start(t) >= Stop(h),
         NEW lbb \in Nat, NEW fq, NEW split, NEW split2, split2 = (split \/ h.fin), FinInv(Q, S, lbb, fq, split)
  PROVE  FinInv(T \cup {cut, rest}, S \cup {cut, rest}, lbb, fq, split2)
<1> DEFINE Q2 == T \cup {cut, rest}
           S2 == S \cup {cut, rest}
<1>0. h \in S /\ h \in Segment
  OBVIOUS
<1>1. \A s \in S2 : s \in Segment /\ Start(s) \in Nat /\ Stop(s) \in Nat /\ Length(s) \in Nat /\ Start(s) <= Stop(s)
  BY SegmentFacts
<1>2. Start(cut) <= Stop(cut) /\ Start(rest) <= Stop(rest) /\ Stop(cut) <= Stop(h) /\ Start(h) <= Start(rest)
  BY <1>1
<1>3. \A s \in S2 : Stop(s) <= lbb /\ (s.fin => fq)
  <2>1. \A s \in S : Stop(s) <= lbb /\ (s.fin => fq)
    BY DEF FinInv
  <2>2. Stop(h) <= lbb /\ (h.fin => fq)
    BY <1>0, <2>1
  <2>3. Stop(cut) <= lbb /\ Stop(rest) <= lbb
    BY <1>0, <1>1, <1>2, <2>2
  <2> QED BY <2>1, <2>2, <2>3
<1>4. \A f, s \in S2 : f.fin /\ ~split2 => Stop(s) <= Stop(f)
  <2> SUFFICES ASSUME NEW f \in S2, NEW s \in S2, f.fin, ~split2 PROVE Stop(s) <= Stop(f)
    OBVIOUS
  <2>1. ~split /\ ~h.fin
    OBVIOUS
  <2>2. f \in S
    BY <2>1
  <2>3. \A t \in S : Stop(t) <= Stop(f)
    BY <2>1, <2>2 DEF FinInv
  <2>4. Stop(h) <= Stop(f) /\ Stop(f) \in Nat /\ Stop(h) \in Nat /\ Stop(cut) \in Nat
    BY <1>0, <1>1, <2>2, <2>3
  <2>5. Stop(cut) <= Stop(f) /\ Stop(rest) <= Stop(f)
    BY <1>2, <2>4
  <2> QED BY <2>3, <2>5
<1>5. \A f, g \in S2 : Length(f) = 0 /\ g.fin => Length(g) = 0 /\ Start(g) = Start(f)
  <2> SUFFICES ASSUME NEW f \in S2, NEW g \in S2, Length(f) = 0, g.fin
               PROVE  Length(g) = 0 /\ Start(g) = Start(f)
    OBVIOUS
  <2>1. f # cut /\ f # rest /\ f \in S
    OBVIOUS
  <2>2. \A k \in S : k.fin => Length(k) = 0 /\ Start(k) = Start(f)
    BY <2>1 DEF FinInv
  <2>3. ~h.fin
    BY <1>0, <2>2
  <2>4. g \in S
    BY <2>3
  <2> QED BY <2>2, <2>4
<1>6. \A f \in S2, t \in Q2 : f.fin => Stop(t) <= Stop(f) \/ Start(t) >= Stop(f)
  <2> SUFFICES ASSUME NEW f \in S2, NEW t \in Q2, f.fin PROVE Stop(t) <= Stop(f) \/ Start(t) >= Stop(f)
    OBVIOUS
  <2>0. t \in S2 /\ f \in S2
    OBVIOUS
  <2>1. CASE f \in S
    <3>1. \A k \in Q : Stop(k) <= Stop(f) \/ Start(k) >= Stop(f)
      BY <2>1 DEF FinInv
    <3>2. Stop(h) <= Stop(f) \/ Start(h) >= Stop(f)
      BY <3>1
    <3>3. CASE t = cut
      BY <1>0, <1>1, <1>2, <2>0, <3>2, <3>3
    <3>4. CASE t = rest
      BY <1>0, <1>1, <1>2, <2>0, <3>2, <3>4
    <3>5. CASE t \in T
      BY <3>1, <3>5
    <3> QED BY <3>3, <3>4, <3>5
  <2>2. CASE f = cut
    <3>1. CASE t = cut
      BY <1>1, <2>0, <2>2, <3>1
    <3>2. CASE t = rest
      BY <1>1, <2>0, <2>2, <3>2
    <3>3. CASE t \in T
      <4>1. Start(t) >= Stop(h) /\ Start(t) \in Nat /\ Stop(h) \in Nat /\ Stop(cut) \in Nat
        BY <1>0, <1>1, <2>0, <3>3
      <4> QED BY <1>2, <2>2, <4>1
    <3> QED BY <3>1, <3>2, <3>3
  <2>3. CASE f = rest
    <3>1. CASE t = cut
      BY <1>0, <1>1, <1>2, <2>0, <2>3, <3>1
    <3>2. CASE t = rest
      BY <1>1, <2>0, <2>3, <3>2
    <3>3. CASE t \in T
      BY <2>3, <3>3
    <3> QED BY <3>1, <3>2, <3>3
  <2> QED BY <2>1, <2>2, <2>3
<1> QED BY <1>3, <1>4, <1>5, <1>6 DEF FinInv

\* The same for what the peer has.
LEMMA SplitKeepsPeer ==
  ASSUME NEW Q, NEW S, S \subseteq Segment, Q \subseteq S, NEW h \in Q, NEW cut \in Segment, NEW rest \in Segment,
         Start(cut) = Start(h), Stop(cut) = Start(rest), Stop(rest) = Stop(h),
         Length(cut) >= 1, Length(rest) >= 1,
         NEW T, T \subseteq Q, NEW pr \in Peers, NEW la, NEW n, NEW wnd, NEW fq, NEW split, NEW split2, split => split2,
         PeerInv(Q, S, pr, la, n, wnd, fq, split)
  PROVE  PeerInv(T \cup {cut, rest}, S \cup {cut, rest}, pr, la, n, wnd, fq, split2)
<1> DEFINE Q2 == T \cup {cut, rest}
           S2 == S \cup {cut, rest}
<1>1. /\ pr.nxt <= pr.edge /\ pr.nxt + One(pr.fin) <= n /\ la <= pr.nxt + One(pr.fin)
      /\ wnd = 0 \/ la + wnd <= pr.edge
  BY DEF PeerInv
<1>2. /\ Start(h) \in Nat /\ Stop(h) \in Nat /\ Start(rest) \in Nat /\ Stop(cut) \in Nat
      /\ Stop(cut) <= Stop(h) /\ Start(h) <= Start(rest) /\ pr.nxt \in Nat
  <2>1. h \in Segment /\ pr.nxt \in Nat
    BY Bounds DEF Peers
  <2>2. /\ Start(h) \in Nat /\ Stop(h) \in Nat /\ Start(rest) \in Nat /\ Stop(rest) \in Nat /\ Stop(cut) \in Nat
        /\ Start(rest) <= Stop(rest) /\ Start(cut) <= Stop(cut)
    BY <2>1, SegmentFacts
  <2> QED BY <2>1, <2>2
<1>3. ASSUME pr.fin
      PROVE  /\ fq
             /\ \A t \in Q2 : Stop(t) <= pr.nxt \/ Start(t) >= pr.nxt
             /\ \A f \in S2 : Length(f) = 0 => Start(f) = pr.nxt
             /\ ~split2 => \A s \in S2 : Stop(s) <= pr.nxt
  <2>1. /\ fq
        /\ \A t \in Q : Stop(t) <= pr.nxt \/ Start(t) >= pr.nxt
        /\ \A f \in S : Length(f) = 0 => Start(f) = pr.nxt
        /\ ~split => \A s \in S : Stop(s) <= pr.nxt
    BY <1>3 DEF PeerInv
  <2>2. Stop(h) <= pr.nxt \/ Start(h) >= pr.nxt
    BY <2>1
  <2>3. Stop(cut) <= pr.nxt \/ Start(cut) >= pr.nxt
    BY <1>2, <2>2
  <2>4. Stop(rest) <= pr.nxt \/ Start(rest) >= pr.nxt
    BY <1>2, <2>2
  <2>5. \A t \in Q2 : Stop(t) <= pr.nxt \/ Start(t) >= pr.nxt
    BY <2>1, <2>3, <2>4
  <2>6. \A f \in S2 : Length(f) = 0 => Start(f) = pr.nxt
    BY <2>1
  <2>7. ASSUME ~split2 PROVE \A s \in S2 : Stop(s) <= pr.nxt
    <3>1. \A s \in S : Stop(s) <= pr.nxt
      BY <2>1, <2>7
    <3>2. Stop(h) <= pr.nxt
      BY <3>1
    <3>3. Stop(cut) <= pr.nxt /\ Stop(rest) <= pr.nxt
      BY <1>2, <3>2
    <3> QED BY <3>1, <3>3
  <2> QED BY <2>1, <2>5, <2>6, <2>7
<1> QED BY <1>1, <1>3 DEF PeerInv

\* tcp_split_unsent_seg.
LEMMA SplitIsReady ==
  ASSUME NEW q, NEW w, NEW pr, NEW split, Ready(q, w, pr, split), q.persist, q.unsent # <<>>,
         q.snd_wnd > 0, Length(Head(q.unsent)) > q.snd_wnd
  PROVE  LET r == tcp_split_unsent_seg(q, q.snd_wnd) IN
         /\ Ready(r, w, pr, split \/ Head(q.unsent).fin)
         /\ r.unsent # q.unsent
<1> DEFINE h == Head(q.unsent)
           n == q.snd_wnd
           r == tcp_split_unsent_seg(q, n)
           cut == CutTo(h, n)
           rest == [h EXCEPT !.seqno = Add(h.seqno, n), !.p = SubSeq(h.p, n + 1, Len(h.p))]
           all == Queued(q)
           T == Tail(all)
           c == <<cut, rest>> \o T
           la == Offset(q.lastack)
           lbb == Offset(q.snd_lbb)
           m == MssLocal(q)
           Q == Range(all)
           S == Q \cup w
           split2 == split \/ h.fin
<1>1. /\ q \in Send /\ pr \in Peers /\ split \in BOOLEAN /\ Numbers(q) /\ Flight(q) /\ QueueInv(q) /\ q.alive
      /\ FinInv(Q, S, lbb, q.finQueued, split)
      /\ WireInv(w, Offset(q.snd_nxt), pr)
      /\ PeerInv(Q, S, pr, la, Offset(q.snd_nxt), q.snd_wnd, q.finQueued, split)
      /\ Linked(all, la, lbb, m) /\ Chain(all) /\ q.snd_buf + Bytes(all) = TCP_SND_BUF
  BY DEF Ready, Common, QueueInv, Linked
<1>2. q.unacked = <<>> /\ q.unacked \in Seq(Segment) /\ q.unsent \in Seq(Segment) /\ all = q.unsent
  <2>1. q.unacked = <<>> /\ q.unacked \in Seq(Segment) /\ q.unsent \in Seq(Segment)
    BY <1>1 DEF Flight, Send
  <2> QED BY <2>1, ConcatEmptySeq DEF Queued
<1>3. /\ all \in Seq(Segment) /\ all # <<>> /\ h = Head(all) /\ h = all[1] /\ 1 \in 1 .. Len(all) /\ Len(all) \in Nat
      /\ \A s \in Q : s \in Segment /\ Sane(s)
  <2>1. \A s \in Q : s \in Segment /\ Sane(s)
    BY <1>1, <1>2, QueueFacts
  <2>2. all \in Seq(Segment) /\ all # <<>> /\ h = Head(all)
    BY <1>2
  <2> HIDE DEF all, h
  <2>3. h = all[1] /\ Len(all) \in Nat /\ Len(all) >= 1
    BY <2>2, HeadAndTail
  <2>4. 1 \in 1 .. Len(all)
    BY <2>3
  <2> QED BY <2>1, <2>2, <2>3, <2>4
<1>4. h \in Q /\ h \in Segment /\ Sane(h) /\ Length(h) <= m
  <2>1. DOMAIN all = 1 .. Len(all)
    BY <1>3
  <2>2. h \in Q
    BY <1>3, <2>1 DEF Range
  <2>3. Length(h) <= m
    BY <1>1, <1>3 DEF Linked
  <2> QED BY <1>3, <2>2, <2>3
<1>5. n \in Nat /\ la \in Nat /\ lbb \in Nat /\ m \in Nat /\ Length(h) \in Nat
  BY <1>1, <1>4, SendFacts, SegmentFacts
<1> HIDE DEF h
<1>6. n >= 1 /\ n < Length(h) /\ n <= Length(h)
  BY <1>5 DEF h
<1>7. /\ cut \in Segment /\ Sane(cut) /\ cut.fin = h.fin /\ Length(cut) = n
      /\ Start(cut) = Start(h) /\ Stop(cut) = Start(h) + n
      /\ rest \in Segment /\ Sane(rest) /\ rest.fin = h.fin /\ Length(rest) = Length(h) - n
      /\ Start(rest) = Start(h) + n /\ Stop(rest) = Stop(h)
  BY <1>4, <1>5, <1>6, CutFacts
<1>8. r = [q EXCEPT !.unsent = c]
  <2>1. ~(Length(h) <= n)
    BY <1>5, <1>6
  <2>2. r = [q EXCEPT !.unsent = <<CutTo(h, n), [h EXCEPT !.seqno = Add(h.seqno, n), !.p = SubSeq(h.p, n + 1, Len(h.p))]>> \o Tail(q.unsent)]
    BY <2>1 DEF tcp_split_unsent_seg, h
  <2> QED BY <1>2, <2>2
<1> HIDE DEF cut, rest, all
<1>9. /\ Length(cut) >= 1 /\ Length(rest) >= 1 /\ Length(cut) <= m /\ Length(rest) <= m /\ Length(h) >= 1
      /\ Stop(cut) = Start(rest)
  <2> HIDE DEF n, m
  <2> QED BY <1>4, <1>5, <1>6, <1>7
<1>10. /\ c \in Seq(Segment) /\ Linked(c, la, lbb, m) /\ Len(c) = Len(all) + 1
       /\ c[1] = cut /\ c[2] = rest /\ \A i \in 2 .. Len(all) : c[i + 1] = all[i]
       /\ Bytes(c) = Bytes(all)
  <2> HIDE DEF la, lbb, m
  <2> QED BY <1>1, <1>3, <1>5, <1>7, <1>9, LinkedSplit
<1> DEFINE U == {all[i] : i \in 2 .. Len(all)}
<1>11. U \subseteq Q /\ \A t \in U : Start(t) >= Stop(h)
  <2>1. ASSUME NEW i \in 2 .. Len(all) PROVE all[i] \in Q /\ Start(all[i]) >= Stop(h)
    <3>1. i \in 1 .. Len(all) /\ 1 < i /\ DOMAIN all = 1 .. Len(all)
      BY <1>3
    <3>2. all[i] \in Q
      BY <3>1 DEF Range
    <3>3. Stop(all[1]) <= Start(all[i])
      BY <1>1, <1>3, <3>1 DEF Chain
    <3>4. Stop(h) \in Nat /\ Start(all[i]) \in Nat
      BY <1>3, <1>4, <3>2, SegmentFacts
    <3> QED BY <1>3, <3>2, <3>3, <3>4
  <2> HIDE DEF Q
  <2> QED BY <2>1
<1> HIDE DEF c, r
<1>12. Range(c) = U \cup {cut, rest}
  <2>1. DOMAIN c = 1 .. Len(all) + 1
    BY <1>10
  <2>2. Range(c) = {c[i] : i \in 1 .. Len(all) + 1}
    BY <2>1 DEF Range
  <2>3. ASSUME NEW i \in 1 .. Len(all) + 1 PROVE c[i] \in U \cup {cut, rest}
    <3>1. i = 1 \/ i = 2 \/ i - 1 \in 2 .. Len(all)
      BY <1>3
    <3>2. ASSUME i - 1 \in 2 .. Len(all) PROVE c[i] \in U
      <4>1. c[(i - 1) + 1] = all[i - 1] /\ (i - 1) + 1 = i
        BY <1>10, <3>2
      <4> QED BY <3>2, <4>1
    <3> QED BY <1>10, <3>1, <3>2
  <2>4. 1 \in 1 .. Len(all) + 1 /\ 2 \in 1 .. Len(all) + 1
    BY <1>3
  <2>5. cut \in Range(c) /\ rest \in Range(c)
    BY <1>10, <2>2, <2>4
  <2>6. ASSUME NEW i \in 2 .. Len(all) PROVE all[i] \in Range(c)
    <3>1. i + 1 \in 1 .. Len(all) + 1 /\ c[i + 1] = all[i]
      BY <1>3, <1>10
    <3> QED BY <2>2, <3>1
  <2>7. U \subseteq Range(c)
    BY <2>6
  <2>8. Range(c) \subseteq U \cup {cut, rest}
    BY <2>2, <2>3
  <2> QED BY <2>5, <2>7, <2>8
<1>13. /\ r \in Send /\ r.unsent = c /\ r.unacked = <<>> /\ r.persist = q.persist /\ r.snd_nxt = q.snd_nxt
       /\ r.lastack = q.lastack /\ r.snd_lbb = q.snd_lbb
       /\ r.snd_buf = q.snd_buf /\ r.snd_wnd = q.snd_wnd /\ r.snd_wnd_max = q.snd_wnd_max
       /\ r.snd_wl2 = q.snd_wl2 /\ r.finQueued = q.finQueued /\ r.cwnd = q.cwnd /\ r.alive = q.alive
  <2>1. q \in Send /\ q.unacked = <<>> /\ c \in Seq(Segment)
    BY <1>1, <1>2, <1>10
  <2> QED BY <1>8, <2>1 DEF Send
<1>14. Queued(r) = c /\ Flight(r) /\ FirstIsNew(r) /\ Numbers(r) /\ MssLocal(r) = m
  <2>1. Queued(r) = c
    BY <1>10, <1>13, ConcatEmptySeq DEF Queued
  <2>2. Flight(r) /\ FirstIsNew(r)
    BY <1>13 DEF Flight, FirstIsNew
  <2>3. Numbers(r)
    BY <1>1, <1>13 DEF Numbers
  <2>4. MssLocal(r) = m
    BY <1>13 DEF MssLocal
  <2> QED BY <2>1, <2>2, <2>3, <2>4
<1>15. QueueInv(r)
  BY <1>1, <1>10, <1>13, <1>14 DEF QueueInv
<1>16. S \subseteq Segment /\ Q \subseteq S /\ split2 \in BOOLEAN /\ (split => split2)
  <2>1. h.fin \in BOOLEAN
    BY <1>4, SegmentFacts
  <2> QED BY <1>1, <1>3, <2>1 DEF WireInv
<1> DEFINE Q2 == U \cup {cut, rest}
           S2 == S \cup {cut, rest}
           nx == Offset(q.snd_nxt)
<1>17. Q2 \cup w \subseteq S2
  BY <1>11
<1> HIDE DEF Q, S, U, la, lbb
<1>18. FinInv(Q2, S2, lbb, q.finQueued, split2)
  BY <1>1, <1>4, <1>5, <1>7, <1>9, <1>11, <1>16, SplitKeepsFin
<1>19. PeerInv(Q2, S2, pr, la, nx, q.snd_wnd, q.finQueued, split2)
  <2> HIDE DEF nx, n, m, split2
  <2> QED BY <1>1, <1>4, <1>7, <1>9, <1>11, <1>16, SplitKeepsPeer, ZenonT(60) DEF nx
<1>20. nx \in Nat /\ nx <= nx
  BY <1>1, SendFacts
<1> HIDE DEF Q2, S2, split2, nx
<1>21. FinInv(Q2, Q2 \cup w, lbb, q.finQueued, split2)
  BY <1>17, <1>18, FinMonotone
<1>22. PeerInv(Q2, Q2 \cup w, pr, la, nx, q.snd_wnd, q.finQueued, split2)
  BY <1>1, <1>17, <1>19, <1>20, PeerMonotone
<1>23. Range(Queued(r)) = Q2
  BY <1>12, <1>14 DEF Q2
<1>24. Common(r, w, pr, split2)
  BY <1>1, <1>13, <1>14, <1>16, <1>21, <1>22, <1>23 DEF Common, nx, la, lbb
<1>25. r.unsent # q.unsent
  <2>1. Len(c) # Len(all)
    BY <1>3, <1>10
  <2> QED BY <1>2, <1>13, <2>1
<1> QED BY <1>1, <1>13, <1>15, <1>24, <1>25 DEF Ready, r, split2, h, n

\* The persist timer with a small window.
LEMMA SplitForWindowKeeps ==
  ASSUME OutInv, NEW nomem \in BOOLEAN, SplitForWindow(nomem)
  PROVE  OutInv'
<1> DEFINE q == IF nomem THEN snd ELSE tcp_split_unsent_seg(snd, snd.snd_wnd)
           h == Head(snd.unsent)
<1>1. /\ snd.alive /\ snd.persist /\ snd.unsent # <<>> /\ snd.snd_wnd > 0
      /\ IF nomem THEN snd' = snd /\ wire' = wire ELSE Output(q)
      /\ finSplit' = (finSplit \/ (q.unsent # snd.unsent /\ h.fin))
      /\ Failed(nomem) /\ peer' = peer
  BY DEF SplitForWindow, PersistRuns, TimerRuns
<1>2. Ready(snd, wire, peer, finSplit) /\ Busy(snd) /\ fails \in 0 .. MaxFail /\ fails' \in 0 .. MaxFail
  BY <1>1, AliveIsReady, FailCounted
<1>3. finSplit \in BOOLEAN /\ snd.snd_wnd \in Nat /\ Length(h) \in Nat /\ h.fin \in BOOLEAN
  <2>1. snd \in Send /\ finSplit \in BOOLEAN
    BY <1>2 DEF Ready, Common
  <2>2. snd.unsent \in Seq(Segment) /\ snd.snd_wnd \in Nat
    BY <2>1, Bounds DEF Send
  <2>3. h \in Segment
    BY <1>1, <2>2
  <2> QED BY <2>1, <2>2, <2>3, SegmentFacts
<1>4. CASE nomem
  <2>1. finSplit' = finSplit /\ snd' = snd /\ wire' = wire
    BY <1>1, <1>3, <1>4
  <2> QED BY <1>1, <1>2, <2>1, QuietKeeps
<1>5. CASE ~nomem /\ Length(h) <= snd.snd_wnd
  <2>1. q = snd
    BY <1>5 DEF tcp_split_unsent_seg
  <2> HIDE DEF q
  <2>2. finSplit' = finSplit /\ Output(snd)
    BY <1>1, <1>3, <1>5, <2>1
  <2>3. Ready(snd, wire, peer, finSplit')
    BY <1>2, <2>2
  <2> QED BY <1>1, <1>2, <2>2, <2>3, OutputKeeps
<1>6. CASE ~nomem /\ Length(h) > snd.snd_wnd
  <2>1. Ready(q, wire, peer, finSplit \/ h.fin) /\ q.unsent # snd.unsent
    BY <1>1, <1>2, <1>6, SplitIsReady
  <2> HIDE DEF q, h
  <2>2. finSplit' = (finSplit \/ h.fin) /\ Output(q)
    BY <1>1, <1>3, <1>6, <2>1
  <2>3. Ready(q, wire, peer, finSplit')
    BY <2>1, <2>2
  <2> QED BY <1>1, <1>2, <2>2, <2>3, OutputKeeps
<1>7. nomem \/ (~nomem /\ Length(h) <= snd.snd_wnd) \/ (~nomem /\ Length(h) > snd.snd_wnd)
  BY <1>3
<1> QED BY <1>4, <1>5, <1>6, <1>7

\* Before the FIN is queued.
LEMMA BeforeFin ==
  ASSUME NEW q, NEW w, NEW pr, NEW split, Ready(q, w, pr, split), ~q.finQueued
  PROVE  LET all == Queued(q)
             Q   == Range(all)
             S   == Q \cup w
             la  == Offset(q.lastack)
             nx  == Offset(q.snd_nxt)
             lbb == Offset(q.snd_lbb)
         IN /\ q \in Send /\ Numbers(q) /\ Flight(q) /\ FirstIsNew(q) /\ pr \in Peers /\ split \in BOOLEAN
            /\ q.alive /\ WireInv(w, nx, pr)
            /\ PeerInv(Q, S, pr, la, nx, q.snd_wnd, q.finQueued, split)
            /\ q.snd_buf + Bytes(all) = TCP_SND_BUF
            /\ \A s \in S : s \in Segment /\ Sane(s) /\ s.fin = FALSE /\ Length(s) >= 1 /\ Stop(s) <= lbb
            /\ ~pr.fin /\ la <= lbb /\ lbb <= StreamLen /\ nx <= lbb
            /\ la \in Nat /\ nx \in Nat /\ lbb \in Nat /\ q.snd_lbb \in SeqNos
            /\ Linked(all, la, lbb, MssLocal(q)) /\ Chain(all)
            /\ q.unacked \in Seq(Segment) /\ q.unsent \in Seq(Segment) /\ all \in Seq(Segment)
            /\ all # <<>> => Stop(all[Len(all)]) = lbb /\ Length(all[Len(all)]) >= 1
<1> DEFINE all == Queued(q)
           Q == Range(all)
           S == Q \cup w
           la == Offset(q.lastack)
           nx == Offset(q.snd_nxt)
           lbb == Offset(q.snd_lbb)
<1>1. /\ q \in Send /\ Numbers(q) /\ Flight(q) /\ FirstIsNew(q) /\ pr \in Peers /\ split \in BOOLEAN
      /\ q.alive /\ WireInv(w, nx, pr)
      /\ PeerInv(Q, S, pr, la, nx, q.snd_wnd, q.finQueued, split)
      /\ FinInv(Q, S, lbb, q.finQueued, split)
      /\ q.snd_buf + Bytes(all) = TCP_SND_BUF
      /\ Linked(all, la, lbb, MssLocal(q)) /\ Chain(all)
  BY DEF Ready, Common, QueueInv, Linked
<1>2. /\ q.unacked \in Seq(Segment) /\ q.unsent \in Seq(Segment) /\ all \in Seq(Segment)
      /\ la \in Nat /\ nx \in Nat /\ lbb \in Nat /\ q.snd_lbb \in SeqNos
  BY <1>1, SendFacts DEF Send
<1>3. ASSUME NEW s \in S
      PROVE  s \in Segment /\ Sane(s) /\ s.fin = FALSE /\ Length(s) >= 1 /\ Stop(s) <= lbb
  <2>1. s \in Segment /\ Sane(s)
    <3>1. CASE s \in w
      BY <1>1, <3>1 DEF WireInv
    <3>2. CASE s \in Q
      BY <1>1, <1>2, <3>2, QueueFacts
    <3> QED BY <3>1, <3>2
  <2>2. Stop(s) <= lbb /\ (s.fin => q.finQueued)
    BY <1>1 DEF FinInv
  <2>3. s.fin = FALSE
    BY <2>1, <2>2 DEF Segment
  <2>4. Length(s) >= 1
    BY <2>1, <2>3, TopFacts
  <2> QED BY <2>1, <2>2, <2>3, <2>4
<1>4. ~pr.fin
  BY <1>1 DEF PeerInv
<1>5. One(q.finQueued) = 0
  BY DEF One
<1>6. la <= lbb /\ lbb <= StreamLen /\ nx <= lbb
  <2>1. la <= nx /\ nx <= lbb + 0 /\ lbb <= StreamLen + 0
    BY <1>1, <1>5 DEF Numbers
  <2>2. StreamLen \in Nat
    BY Bounds
  <2> HIDE DEF la, nx, lbb
  <2> QED BY <1>2, <2>1, <2>2
<1>7. ASSUME all # <<>> PROVE Stop(all[Len(all)]) = lbb /\ Length(all[Len(all)]) >= 1
  <2>1. Len(all) \in 1 .. Len(all) /\ DOMAIN all = 1 .. Len(all)
    <3> HIDE DEF all
    <3> QED BY <1>2, <1>7
  <2> DEFINE s == all[Len(all)]
  <2>2. s \in S /\ Top(s) = lbb
    <3>1. s \in Q
      BY <2>1 DEF Range
    <3> QED BY <1>1, <1>7, <3>1 DEF Linked
  <2> HIDE DEF s
  <2>3. s \in Segment /\ Sane(s) /\ Length(s) >= 1
    BY <1>3, <2>2
  <2>4. Top(s) = Stop(s)
    BY <2>3, TopFacts
  <2> QED BY <2>2, <2>3, <2>4 DEF s
<1> QED BY <1>1, <1>2, <1>3, <1>4, <1>6, <1>7

\* The first segment with the FIN.
LEMMA FinAdded ==
  ASSUME NEW Q, NEW S, Q \subseteq S, NEW s \in Segment, s.fin,
         NEW lbb \in Nat, Stop(s) <= lbb, NEW split,
         \A t \in S : t \in Segment /\ t.fin = FALSE /\ Length(t) >= 1 /\ Stop(t) <= Stop(s)
  PROVE  FinInv(Q \cup {s}, S \cup {s}, lbb, TRUE, split)
<1>1. Stop(s) \in Nat
  BY SegmentFacts
<1>2. \A t \in S \cup {s} : Stop(t) <= Stop(s)
  BY <1>1
<1>3. \A t \in S \cup {s} : Stop(t) <= lbb
  <2>1. \A t \in S \cup {s} : Stop(t) \in Nat
    BY SegmentFacts
  <2> QED BY <1>1, <1>2, <2>1
<1>4. \A f \in S \cup {s} : f.fin => f = s
  OBVIOUS
<1>5. \A f \in S \cup {s} : Length(f) = 0 => f = s
  OBVIOUS
<1> QED BY <1>2, <1>3, <1>4, <1>5 DEF FinInv

\* A pcb r with other queues than q, and the invariant's parts for them.
LEMMA Assembled ==
  ASSUME NEW q, NEW w, NEW pr, NEW split, NEW r, NEW Q, NEW S,
         q \in Send, Numbers(q), pr \in Peers, split \in BOOLEAN, ~pr.fin, WireInv(w, Offset(q.snd_nxt), pr),
         PeerInv(Q, S, pr, Offset(q.lastack), Offset(q.snd_nxt), q.snd_wnd, q.finQueued, split),
         r \in Send, r.alive, Numbers(r), Flight(r), QueueInv(r),
         r.lastack = q.lastack, r.snd_nxt = q.snd_nxt, r.snd_wnd = q.snd_wnd,
         FinInv(Range(Queued(r)), Range(Queued(r)) \cup w, Offset(r.snd_lbb), r.finQueued, split)
  PROVE  Ready(r, w, pr, split)
<1>1. PeerInv(Range(Queued(r)), Range(Queued(r)) \cup w, pr, Offset(r.lastack), Offset(r.snd_nxt), r.snd_wnd, r.finQueued, split)
  BY DEF PeerInv
<1> QED BY <1>1 DEF Ready, Common

\* Two chains with the same beginning and end hold as many bytes.
LEMMA SameBytes ==
  ASSUME NEW a \in Seq(Segment), NEW b \in Seq(Segment), Chain(a), Chain(b), a # <<>>, b # <<>>,
         Start(a[1]) = Start(b[1]), Stop(a[Len(a)]) = Stop(b[Len(b)])
  PROVE  Bytes(a) = Bytes(b)
<1>1. Last(a) = a[Len(a)] /\ Last(b) = b[Len(b)]
  BY DEF Last
<1>2. Bytes(a) = Stop(Last(a)) - Start(a[1])
  BY ChainBytes
<1>3. Bytes(b) = Stop(Last(b)) - Start(b[1])
  BY ChainBytes
<1> QED BY <1>1, <1>2, <1>3

\* The FIN goes on the last segment.
LEMMA FinOnLast ==
  ASSUME NEW q, NEW w, NEW pr, NEW split, Ready(q, w, pr, split), ~q.finQueued, q.unsent # <<>>
  PROVE  Ready(tcp_send_fin(q), w, pr, split)
<1> DEFINE a == q.unacked
           b == q.unsent
           all == Queued(q)
           k == Len(b)
           n == Len(all)
           l == [b[k] EXCEPT !.fin = TRUE]
           d == [b EXCEPT ![k] = l]
           c == a \o d
           r == tcp_send_fin(q)
           Q == Range(all)
           S == Q \cup w
           la == Offset(q.lastack)
           nx == Offset(q.snd_nxt)
           lbb == Offset(q.snd_lbb)
           m == MssLocal(q)
<1>1. /\ q \in Send /\ Numbers(q) /\ Flight(q) /\ FirstIsNew(q) /\ pr \in Peers /\ split \in BOOLEAN
      /\ q.alive /\ WireInv(w, nx, pr)
      /\ PeerInv(Q, S, pr, la, nx, q.snd_wnd, q.finQueued, split)
      /\ q.snd_buf + Bytes(all) = TCP_SND_BUF
      /\ \A s \in S : s \in Segment /\ Sane(s) /\ s.fin = FALSE /\ Length(s) >= 1 /\ Stop(s) <= lbb
      /\ ~pr.fin /\ la <= lbb /\ lbb <= StreamLen /\ nx <= lbb
      /\ la \in Nat /\ nx \in Nat /\ lbb \in Nat
      /\ Linked(all, la, lbb, m) /\ Chain(all)
      /\ a \in Seq(Segment) /\ b \in Seq(Segment) /\ all \in Seq(Segment)
      /\ all # <<>> => Stop(all[n]) = lbb /\ Length(all[n]) >= 1
  BY BeforeFin
<1>2. b # <<>> /\ all = a \o b
  BY DEF Queued
<1>3. r = [q EXCEPT !.unsent = d, !.finQueued = TRUE]
  BY <1>1 DEF tcp_send_fin, Send
<1> HIDE DEF a, b, all, r
<1>4. k \in Nat /\ k >= 1 /\ k \in 1 .. k /\ b[k] \in Segment /\ DOMAIN b = 1 .. k
  BY <1>1, <1>2
<1>5. /\ Len(all) = Len(a) + k /\ Len(a) \in Nat /\ n \in Nat
      /\ \A i \in 1 .. Len(a) : all[i] = a[i]
      /\ \A i \in 1 .. k : all[Len(a) + i] = b[i]
  BY <1>1, <1>2, Joined
<1>6. n = Len(a) + k /\ n >= 1 /\ all # <<>> /\ all[n] = b[k] /\ n \in 1 .. n /\ 1 \in 1 .. n /\ DOMAIN all = 1 .. n
  <2>1. n = Len(a) + k /\ n >= 1
    BY <1>4, <1>5
  <2>2. all[Len(a) + k] = b[k]
    BY <1>4, <1>5
  <2> QED BY <1>1, <1>5, <2>1, <2>2
<1>7. l \in Segment /\ l.seqno = b[k].seqno /\ l.p = b[k].p /\ l.fin = TRUE
  BY <1>4 DEF Segment
<1>8. d \in Seq(Segment) /\ Len(d) = k /\ d[k] = l /\ \A i \in 1 .. k - 1 : d[i] = b[i]
  <2>1. d \in [1 .. k -> Segment]
    <3>1. b \in [1 .. k -> Segment]
      BY <1>1
    <3> HIDE DEF l, k
    <3> QED BY <1>7, <3>1
  <2>2. d \in Seq(Segment) /\ Len(d) = k
    <3> HIDE DEF d
    <3> QED BY <1>4, <2>1
  <2>3. d[k] = l /\ \A i \in 1 .. k - 1 : d[i] = b[i]
    <3> HIDE DEF l, k
    <3> QED BY <1>4
  <2> QED BY <2>2, <2>3
<1> HIDE DEF d, l, k
<1>9. /\ c \in Seq(Segment) /\ Len(c) = Len(a) + k
      /\ \A i \in 1 .. Len(a) : c[i] = a[i]
      /\ \A i \in 1 .. k : c[Len(a) + i] = d[i]
  <2>1. a \in Seq(Segment) /\ d \in Seq(Segment) /\ Len(d) = k /\ c = a \o d
    BY <1>1, <1>8
  <2> HIDE DEF c
  <2>2. /\ a \o d \in Seq(Segment) /\ Len(a \o d) = Len(a) + Len(d)
        /\ \A i \in 1 .. Len(a) : (a \o d)[i] = a[i]
        /\ \A i \in 1 .. Len(d) : (a \o d)[Len(a) + i] = d[i]
    <3>1. a \in Seq(Segment)
      BY <2>1
    <3>2. d \in Seq(Segment)
      BY <2>1
    <3> QED BY <3>1, <3>2, Joined
  <2> QED BY <2>1, <2>2
<1> HIDE DEF c, n
<1>10. Len(c) = n /\ c[n] = l /\ \A i \in 1 .. n - 1 : c[i] = all[i]
  <2>1. c[n] = l
    BY <1>4, <1>6, <1>8, <1>9
  <2>2. ASSUME NEW i \in 1 .. n - 1 PROVE c[i] = all[i]
    <3>1. CASE i \in 1 .. Len(a)
      BY <1>5, <1>9, <3>1
    <3>2. CASE i \in Len(a) + 1 .. n - 1
      <4>1. i - Len(a) \in 1 .. k - 1 /\ i - Len(a) \in 1 .. k /\ Len(a) + (i - Len(a)) = i
        BY <1>4, <1>5, <1>6, <3>2
      <4>2. c[Len(a) + (i - Len(a))] = d[i - Len(a)] /\ all[Len(a) + (i - Len(a))] = b[i - Len(a)]
        BY <1>5, <1>9, <4>1
      <4> QED BY <1>8, <4>1, <4>2
    <3>3. i \in 1 .. Len(a) \/ i \in Len(a) + 1 .. n - 1
      BY <1>5, <1>6
    <3> QED BY <3>1, <3>2, <3>3
  <2> QED BY <1>6, <1>9, <2>1, <2>2
<1>11. all[n] \in Q
  BY <1>6 DEF Range
<1>12. all[n] \in Segment /\ Sane(all[n]) /\ Length(all[n]) >= 1 /\ Stop(all[n]) = lbb /\ Length(all[n]) \in Nat
  BY <1>1, <1>6, <1>11, SegmentFacts
<1>13. Start(l) = Start(all[n]) /\ Length(l) = Length(all[n])
  BY <1>6, <1>7 DEF Start, Length
<1>14. Stop(l) = lbb /\ Sane(l)
  <2>1. Stop(l) = Start(l) + Length(l) /\ Stop(l) <= End(l) /\ End(l) \in Nat /\ Start(l) \in Nat
    BY <1>7, SegmentFacts
  <2>2. Stop(all[n]) = Start(all[n]) + Length(all[n])
    BY <1>12, SegmentFacts
  <2>3. Stop(l) = lbb
    BY <1>12, <1>13, <2>1, <2>2
  <2>4. Start(l) < End(l)
    BY <1>12, <1>13, <2>1
  <2>5. \A j \in 1 .. Length(l) : l.p[j] = Start(l) + j - 1
    BY <1>6, <1>7, <1>12, <1>13 DEF Sane
  <2> QED BY <1>1, <2>3, <2>4, <2>5 DEF Sane
<1>15. Top(l) = lbb
  BY <1>7, <1>12, <1>13, <1>14, TopFacts
<1>16. Linked(c, la, lbb, m)
  <2>1. Length(all[n]) <= m
    BY <1>1, <1>6 DEF Linked, n
  <2>2. Linked(c, la, Top(c[n]), m)
    <3> HIDE DEF la, lbb, m
    <3>1. Len(all) = n
      BY DEF n
    <3> QED BY <1>1, <1>5, <1>6, <1>9, <1>10, <1>13, <1>14, <2>1, <3>1, LinkedLast
  <2> QED BY <1>10, <1>15, <2>2
<1>17. c # <<>> /\ Start(c[1]) = Start(all[1]) /\ Stop(c[1]) = Stop(all[1]) /\ Chain(c)
  <2>1. c # <<>> /\ Chain(c)
    BY <1>6, <1>9, <1>10, <1>16 DEF Linked
  <2>2. CASE n = 1
    BY <1>10, <1>12, <1>13, <1>14, <2>1, <2>2
  <2>3. CASE n # 1
    <3>1. 1 \in 1 .. n - 1
      BY <1>5, <1>6, <2>3
    <3> QED BY <1>10, <2>1, <3>1
  <2> QED BY <2>2, <2>3
<1>18. Bytes(c) = Bytes(all)
  <2>1. Stop(c[Len(c)]) = Stop(all[Len(all)])
    BY <1>10, <1>12, <1>14 DEF n
  <2> QED BY <1>1, <1>6, <1>9, <1>17, <2>1, SameBytes
<1>19. /\ r \in Send /\ r.unsent = d /\ r.unacked = a /\ r.persist = q.persist /\ r.snd_nxt = q.snd_nxt
       /\ r.lastack = q.lastack /\ r.snd_lbb = q.snd_lbb /\ r.rtxTimer = q.rtxTimer
       /\ r.snd_buf = q.snd_buf /\ r.snd_wnd = q.snd_wnd /\ r.snd_wnd_max = q.snd_wnd_max
       /\ r.snd_wl2 = q.snd_wl2 /\ r.finQueued = TRUE /\ r.cwnd = q.cwnd /\ r.alive = q.alive
  BY <1>1, <1>3, <1>8 DEF Send, a
<1>20. Queued(r) = c
  BY <1>19 DEF Queued, c
<1>21. Flight(r)
  BY <1>1, <1>19 DEF Flight, a
<1>22. FirstIsNew(r)
  BY <1>1, <1>6, <1>17, <1>19, <1>20 DEF FirstIsNew, all
<1>23. MssLocal(r) = m
  BY <1>19 DEF MssLocal
<1>24. QueueInv(r)
  BY <1>1, <1>16, <1>18, <1>19, <1>20, <1>22, <1>23 DEF QueueInv
<1>25. Numbers(r)
  <2>1. la <= nx /\ q.snd_wl2 = q.lastack /\ q.cwnd >= mss /\ q.snd_wnd <= q.snd_wnd_max /\ q.snd_wnd_max >= 2
    BY <1>1 DEF Numbers
  <2>2. StreamLen \in Nat
    BY Bounds
  <2>3. nx <= lbb + 1 /\ lbb <= StreamLen + 1
    BY <1>1, <2>2
  <2>4. One(TRUE) = 1
    BY DEF One
  <2> QED BY <1>19, <2>1, <2>3, <2>4 DEF Numbers
<1>26. Range(c) \subseteq Q \cup {l}
  <2>1. DOMAIN c = 1 .. n
    BY <1>9, <1>10
  <2>2. ASSUME NEW i \in 1 .. n PROVE c[i] \in Q \cup {l}
    <3>1. CASE i = n
      BY <1>10, <3>1
    <3>2. CASE i # n
      <4>1. i \in 1 .. n - 1
        BY <1>5, <3>2
      <4>2. all[i] \in Q
        BY <1>6 DEF Range
      <4> QED BY <1>10, <4>1, <4>2
    <3> QED BY <3>1, <3>2
  <2> QED BY <2>1, <2>2 DEF Range
<1>27. FinInv(Range(c), Range(c) \cup w, lbb, TRUE, split)
  <2> DEFINE R == Range(c)
  <2>1. Q \subseteq S /\ \A t \in S : t \in Segment /\ t.fin = FALSE /\ Length(t) >= 1 /\ Stop(t) <= Stop(l)
    BY <1>1, <1>14
  <2>2. R \subseteq Q \cup {l} /\ R \cup w \subseteq S \cup {l}
    BY <1>26
  <2>3. Stop(l) <= lbb
    BY <1>1, <1>14
  <2> HIDE DEF Q, S, R, lbb
  <2>4. FinInv(Q \cup {l}, S \cup {l}, lbb, TRUE, split)
    BY <1>1, <1>7, <2>1, <2>3, FinAdded
  <2> QED BY <2>2, <2>4, FinMonotone DEF R
<1>28. FinInv(Range(Queued(r)), Range(Queued(r)) \cup w, Offset(r.snd_lbb), r.finQueued, split)
  BY <1>19, <1>20, <1>27
<1>29. r.alive
  BY <1>1, <1>19
<1>30. Ready(r, w, pr, split)
  <2> HIDE DEF Q, S
  <2> QED BY <1>1, <1>19, <1>21, <1>24, <1>25, <1>28, <1>29, Assembled
<1> QED BY <1>30 DEF r

\* The FIN is a segment of its own.
LEMMA FinAlone ==
  ASSUME NEW q, NEW w, NEW pr, NEW split, Ready(q, w, pr, split), ~q.finQueued, q.unsent = <<>>
  PROVE  Ready(tcp_send_fin(q), w, pr, split)
<1> DEFINE a == q.unacked
           all == Queued(q)
           x == q.snd_lbb
           s == SegmentAt(x, 0, 0, TRUE)
           y == Add(x, 1)
           c == a \o <<s>>
           r == tcp_send_fin(q)
           Q == Range(all)
           S == Q \cup w
           la == Offset(q.lastack)
           nx == Offset(q.snd_nxt)
           lbb == Offset(x)
           m == MssLocal(q)
<1>1. /\ q \in Send /\ Numbers(q) /\ Flight(q) /\ FirstIsNew(q) /\ pr \in Peers /\ split \in BOOLEAN
      /\ q.alive /\ WireInv(w, nx, pr)
      /\ PeerInv(Q, S, pr, la, nx, q.snd_wnd, q.finQueued, split)
      /\ q.snd_buf + Bytes(all) = TCP_SND_BUF
      /\ \A t \in S : t \in Segment /\ Sane(t) /\ t.fin = FALSE /\ Length(t) >= 1 /\ Stop(t) <= lbb
      /\ ~pr.fin /\ la <= lbb /\ lbb <= StreamLen /\ nx <= lbb
      /\ la \in Nat /\ nx \in Nat /\ lbb \in Nat /\ x \in SeqNos
      /\ Linked(all, la, lbb, m) /\ Chain(all)
      /\ a \in Seq(Segment) /\ all \in Seq(Segment)
      /\ all # <<>> => Stop(all[Len(all)]) = lbb /\ Length(all[Len(all)]) >= 1
  BY BeforeFin
<1>2. all = a
  BY <1>1, ConcatEmptySeq DEF Queued
<1>3. m \in Nat
  BY <1>1, SendFacts
<1>4. s \in Segment /\ Sane(s) /\ Start(s) = lbb /\ Length(s) = 0 /\ s.fin = TRUE
  <2>1. [i \in 1 .. 0 |-> 0 + i - 1] = [i \in 1 .. 0 |-> Offset(x) + i - 1]
    <3>1. 1 .. 0 = {}
      OBVIOUS
    <3> QED BY <3>1
  <2>2. s = SegmentAt(x, Offset(x), 0, TRUE)
    BY <2>1 DEF SegmentAt
  <2>3. Offset(x) + 0 <= StreamLen /\ 0 \in Nat
    BY <1>1
  <2> HIDE DEF s
  <2> QED BY <1>1, <2>2, <2>3, NewSegment
<1>5. r = [q EXCEPT !.unsent = <<s>>, !.snd_lbb = y, !.finQueued = TRUE]
  BY <1>1 DEF tcp_send_fin, Send
<1>6. y \in SeqNos /\ Offset(y) = lbb + 1
  <2>1. SEQ \in Nat /\ StreamLen + 1 < SEQ /\ StreamLen \in Nat
    <3>1. StreamLen \in Nat /\ PeerWnd \in Nat /\ StreamLen + PeerWnd + 1 < SEQ \div 2 /\ SEQ \div 2 \in Nat
          /\ 2 * (SEQ \div 2) = SEQ /\ SEQ \in Nat
      BY Bounds
    <3> QED BY <3>1
  <2>2. Offset(x) + 1 < SEQ
    BY <1>1, <2>1
  <2> QED BY <1>1, <2>2, OffsetAdd
<1> HIDE DEF a, all, r, s, x, y
<1>7. Stop(s) = lbb /\ Top(s) = lbb + 1
  <2>1. Stop(s) = Start(s) + Length(s)
    BY <1>4, SegmentFacts
  <2>2. Stop(s) = lbb
    BY <1>1, <1>4, <2>1
  <2> QED BY <1>4, <2>2, TopFacts
<1>8. <<s>> \in Seq(Segment) /\ Len(<<s>>) = 1 /\ <<s>>[1] = s /\ Chain(<<s>>)
  BY <1>4, ChainOne
<1> DEFINE t == <<s>>
<1>9. /\ t \in Seq(Segment) /\ Len(t) = 1 /\ t[1] = s /\ Chain(t) /\ t # <<>> /\ c = a \o t
  BY <1>8
<1> HIDE DEF t, c
<1>10. /\ c \in Seq(Segment) /\ Len(c) = Len(a) + 1 /\ Len(a) \in Nat /\ DOMAIN a = 1 .. Len(a)
       /\ \A i \in 1 .. Len(a) : c[i] = a[i]
       /\ c[Len(a) + 1] = s
  <2>1. /\ c \in Seq(Segment) /\ Len(c) = Len(a) + Len(t) /\ Len(a) \in Nat
        /\ \A i \in 1 .. Len(a) : c[i] = a[i]
        /\ \A i \in 1 .. Len(t) : c[Len(a) + i] = t[i]
    <3>1. a \in Seq(Segment) /\ t \in Seq(Segment) /\ c = a \o t
      BY <1>1, <1>9
    <3> QED BY <3>1, Joined
  <2>2. 1 \in 1 .. Len(t)
    BY <1>9
  <2> QED BY <1>1, <1>9, <2>1, <2>2
<1>11. Linked(c, la, lbb + 1, m)
  <2>1. /\ \A i \in 1 .. Len(t) : Length(t[i]) <= m
        /\ t # <<>> => Start(t[1]) = lbb /\ Top(t[Len(t)]) = lbb + 1
        /\ t = <<>> => lbb + 1 = lbb
        /\ lbb + 1 \in Nat
    BY <1>1, <1>3, <1>4, <1>7, <1>9
  <2> DEFINE top == lbb + 1
  <2> HIDE DEF la, lbb, m, top
  <2>2. Linked(a, la, lbb, m) /\ (a # <<>> => Length(a[Len(a)]) >= 1)
    BY <1>1, <1>2
  <2>3. Linked(a \o t, la, top, m)
    BY <1>1, <1>3, <1>9, <2>1, <2>2, LinkedAppend DEF top
  <2> QED BY <1>9, <2>3 DEF top
<1>12. c # <<>> /\ Chain(c)
  BY <1>10, <1>11 DEF Linked
<1>13. Bytes(c) = Bytes(all)
  <2>1. Last(c) = s
    BY <1>10 DEF Last
  <2>2. Bytes(c) = Stop(s) - Start(c[1])
    BY <1>10, <1>12, <2>1, ChainBytes
  <2>3. CASE a = <<>>
    <3>1. Bytes(all) = 0
      <4>1. all \in Seq(Segment) /\ Chain(all) /\ all = <<>>
        BY <1>1, <1>2, <2>3
      <4> QED BY <4>1, ChainBytes
    <3>2. c[1] = s
      <4>1. Len(a) = 0
        BY <2>3
      <4> QED BY <1>10, <4>1
    <3> QED BY <1>1, <1>4, <1>7, <2>2, <3>1, <3>2
  <2>4. CASE a # <<>>
    <3>1. Bytes(all) = Stop(Last(all)) - Start(all[1]) /\ Last(all) = all[Len(all)]
      BY <1>1, <1>2, <2>4, ChainBytes DEF Last
    <3>2. c[1] = all[1]
      <4>1. 1 \in 1 .. Len(a)
        BY <1>1, <2>4
      <4> QED BY <1>2, <1>10, <4>1
    <3> QED BY <1>1, <1>2, <1>7, <2>2, <2>4, <3>1, <3>2
  <2> QED BY <2>3, <2>4
<1>14. /\ r \in Send /\ r.unsent = t /\ r.unacked = a /\ r.persist = q.persist /\ r.snd_nxt = q.snd_nxt
       /\ r.lastack = q.lastack /\ r.snd_lbb = y /\ r.rtxTimer = q.rtxTimer
       /\ r.snd_buf = q.snd_buf /\ r.snd_wnd = q.snd_wnd /\ r.snd_wnd_max = q.snd_wnd_max
       /\ r.snd_wl2 = q.snd_wl2 /\ r.finQueued = TRUE /\ r.cwnd = q.cwnd /\ r.alive = q.alive
  <2>1. r = [q EXCEPT !.unsent = t, !.snd_lbb = y, !.finQueued = TRUE]
    BY <1>5 DEF t
  <2> QED BY <1>1, <1>6, <1>9, <2>1 DEF Send, a
<1>15. Queued(r) = c /\ Offset(r.snd_lbb) = lbb + 1
  BY <1>6, <1>9, <1>14 DEF Queued
<1>16. Flight(r)
  BY <1>1, <1>14 DEF Flight, a
<1>17. FirstIsNew(r)
  <2>1. CASE a = <<>>
    <3>1. c[1] = s
      BY <1>10, <2>1
    <3> QED BY <1>1, <1>7, <1>14, <1>15, <3>1 DEF FirstIsNew
  <2>2. CASE a # <<>>
    <3>1. 1 \in 1 .. Len(a)
      BY <1>1, <2>2
    <3>2. c[1] = all[1] /\ all # <<>>
      BY <1>2, <1>10, <2>2, <3>1
    <3> QED BY <1>1, <1>14, <1>15, <3>2 DEF FirstIsNew, all
  <2> QED BY <2>1, <2>2
<1>18. QueueInv(r)
  <2>1. MssLocal(r) = m
    BY <1>14 DEF MssLocal
  <2> QED BY <1>1, <1>11, <1>13, <1>14, <1>15, <1>17, <2>1 DEF QueueInv
<1>19. Numbers(r)
  <2>1. la <= nx /\ q.snd_wl2 = q.lastack /\ q.cwnd >= mss /\ q.snd_wnd <= q.snd_wnd_max /\ q.snd_wnd_max >= 2
    BY <1>1 DEF Numbers
  <2>2. StreamLen \in Nat
    BY Bounds
  <2>3. nx <= lbb + 1 + 1 /\ lbb + 1 <= StreamLen + 1
    <3> HIDE DEF nx, lbb
    <3> QED BY <1>1, <2>2
  <2>4. One(TRUE) = 1
    BY DEF One
  <2> QED BY <1>14, <1>15, <2>1, <2>3, <2>4 DEF Numbers
<1>20. Range(c) \subseteq Q \cup {s}
  <2>1. DOMAIN c = 1 .. Len(a) + 1
    BY <1>10
  <2>2. ASSUME NEW i \in 1 .. Len(a) + 1 PROVE c[i] \in Q \cup {s}
    <3>1. CASE i = Len(a) + 1
      BY <1>10, <3>1
    <3>2. CASE i # Len(a) + 1
      <4>1. i \in 1 .. Len(a)
        BY <1>10, <3>2
      <4>2. a[i] \in Q
        BY <1>2, <1>10, <4>1 DEF Range
      <4> QED BY <1>10, <4>1, <4>2
    <3> QED BY <3>1, <3>2
  <2> QED BY <2>1, <2>2 DEF Range
<1>21. FinInv(Range(c), Range(c) \cup w, lbb + 1, TRUE, split)
  <2> DEFINE R == Range(c)
             top == lbb + 1
  <2>1. Q \subseteq S /\ \A k \in S : k \in Segment /\ k.fin = FALSE /\ Length(k) >= 1 /\ Stop(k) <= Stop(s)
    BY <1>1, <1>7
  <2>2. R \subseteq Q \cup {s} /\ R \cup w \subseteq S \cup {s}
    BY <1>20
  <2>3. Stop(s) <= top /\ top \in Nat
    BY <1>1, <1>7
  <2> HIDE DEF Q, S, R, top
  <2>4. FinInv(Q \cup {s}, S \cup {s}, top, TRUE, split)
    BY <1>4, <2>1, <2>3, FinAdded
  <2>5. FinInv(R, R \cup w, top, TRUE, split)
    BY <2>2, <2>4, FinMonotone
  <2> QED BY <2>5 DEF R, top
<1>22. FinInv(Range(Queued(r)), Range(Queued(r)) \cup w, Offset(r.snd_lbb), r.finQueued, split)
  BY <1>14, <1>15, <1>21
<1>23. r.alive
  BY <1>1, <1>14
<1>24. Ready(r, w, pr, split)
  <2> HIDE DEF Q, S
  <2> QED BY <1>1, <1>14, <1>16, <1>18, <1>19, <1>22, <1>23, Assembled
<1> QED BY <1>24 DEF r

\* naglememerr is set.
LEMMA NagleIsReady ==
  ASSUME NEW q, NEW w, NEW pr, NEW split, Ready(q, w, pr, split), Busy(q)
  PROVE  LET r == [q EXCEPT !.naglememerr = TRUE] IN Ready(r, w, pr, split) /\ Busy(r)
<1> DEFINE r == [q EXCEPT !.naglememerr = TRUE]
<1>1. q \in Send /\ Flight(q) /\ FirstIsNew(q) /\ q.cwnd >= mss
  BY DEF Ready, Common, QueueInv, Numbers
<1>2. /\ r \in Send /\ r.unsent = q.unsent /\ r.unacked = q.unacked /\ r.persist = q.persist
      /\ r.lastack = q.lastack /\ r.snd_lbb = q.snd_lbb /\ r.rtxTimer = q.rtxTimer /\ r.snd_nxt = q.snd_nxt
      /\ r.snd_buf = q.snd_buf /\ r.snd_wnd = q.snd_wnd /\ r.snd_wnd_max = q.snd_wnd_max
      /\ r.snd_wl2 = q.snd_wl2 /\ r.finQueued = q.finQueued /\ r.cwnd = q.cwnd /\ r.alive = q.alive
  BY <1>1 DEF Send
<1> HIDE DEF r
<1>3. Queued(r) = Queued(q) /\ Flight(r) /\ FirstIsNew(r) /\ Busy(r)
  BY <1>1, <1>2 DEF Queued, Flight, FirstIsNew, Busy
<1>4. Ready(r, w, pr, split)
  BY <1>1, <1>2, <1>3, Reset
<1> QED BY <1>3, <1>4 DEF r

\* shutdownWrite and gracefulClose.
LEMMA ShutdownKeeps ==
  ASSUME OutInv, NEW nomem \in BOOLEAN, Shutdown(nomem)
  PROVE  OutInv'
<1>1. /\ snd.alive /\ ~snd.finQueued /\ Failed(nomem) /\ peer' = peer /\ finSplit' = finSplit
      /\ IF nomem /\ snd.unsent = <<>>
           THEN snd' = [snd EXCEPT !.naglememerr = TRUE] /\ wire' = wire
           ELSE Output(tcp_send_fin(snd))
  BY DEF Shutdown
<1>2. Ready(snd, wire, peer, finSplit) /\ Busy(snd) /\ fails \in 0 .. MaxFail /\ fails' \in 0 .. MaxFail
  BY <1>1, AliveIsReady, FailCounted
<1>3. CASE nomem /\ snd.unsent = <<>>
  BY <1>1, <1>2, <1>3, NagleIsReady, QuietKeeps
<1>4. CASE ~(nomem /\ snd.unsent = <<>>)
  <2>1. Ready(tcp_send_fin(snd), wire, peer, finSplit)
    <3>1. CASE snd.unsent # <<>>
      BY <1>1, <1>2, <3>1, FinOnLast
    <3>2. CASE snd.unsent = <<>>
      BY <1>1, <1>2, <3>2, FinAlone
    <3> QED BY <3>1, <3>2
  <2>2. Ready(tcp_send_fin(snd), wire, peer, finSplit') /\ Output(tcp_send_fin(snd))
    BY <1>1, <1>4, <2>1
  <2> QED BY <1>1, <1>2, <2>2, OutputKeeps
<1> QED BY <1>3, <1>4

\* The last segment takes n more bytes.
LEMMA ExtendFacts ==
  ASSUME NEW s \in Segment, Sane(s), s.fin = FALSE, Length(s) >= 1, NEW n \in Nat, Stop(s) + n <= StreamLen
  PROVE  LET e == Extend(s, n) IN
         /\ e \in Segment /\ Sane(e) /\ e.fin = FALSE /\ Start(e) = Start(s)
         /\ Length(e) = Length(s) + n /\ Stop(e) = Stop(s) + n
<1> DEFINE e == Extend(s, n)
           T == 0 .. StreamLen - 1
           x == s.p
           m == Len(x)
           y == [i \in 1 .. n |-> x[m] + i]
           z == x \o y
<1>1. /\ s.seqno \in SeqNos /\ x \in Seq(T) /\ m = Length(s) /\ m \in Nat /\ m >= 1
      /\ Start(s) \in Nat /\ Stop(s) = Start(s) + m
  BY SegmentFacts DEF Length
<1>2. /\ \A j \in 1 .. m : x[j] = Start(s) + j - 1
      /\ StreamLen \in Nat
  BY <1>1, Bounds DEF Sane
<1>3. x[m] = Start(s) + m - 1
  BY <1>1, <1>2, SMTT(30)
<1> HIDE DEF m, x
<1>4. y \in Seq(T) /\ Len(y) = n /\ \A i \in 1 .. n : y[i] = Start(s) + (m + i) - 1
  <2>1. \A i \in 1 .. n : x[m] + i = Start(s) + (m + i) - 1
    BY <1>1, <1>3
  <2>2. \A i \in 1 .. n : x[m] + i \in T
    <3>1. \A i \in 1 .. n : Start(s) + (m + i) - 1 \in T
      BY <1>1, <1>2, SMTT(30)
    <3> QED BY <2>1, <3>1
  <2>3. y \in [1 .. n -> T]
    <3> HIDE DEF T
    <3> QED BY <2>2
  <2>4. \A i \in 1 .. n : y[i] = x[m] + i
    OBVIOUS
  <2> HIDE DEF y, T
  <2> QED BY <2>1, <2>3, <2>4
<1> HIDE DEF y, T
<1>5. /\ z \in Seq(T) /\ Len(z) = m + n /\ (\A i \in 1 .. m : z[i] = x[i])
      /\ \A i \in 1 .. n : z[m + i] = y[i]
  <2>1. x \in Seq(T) /\ y \in Seq(T)
    BY <1>1, <1>4
  <2>2. /\ z \in Seq(T) /\ Len(z) = Len(x) + Len(y) /\ (\A i \in 1 .. Len(x) : z[i] = x[i])
        /\ \A i \in 1 .. Len(y) : z[Len(x) + i] = y[i]
    BY <2>1, Joined
  <2> HIDE DEF z
  <2> QED BY <1>4, <2>2 DEF m
<1>6. e = [s EXCEPT !.p = z]
  BY DEF Extend, z, y, x, m
<1> HIDE DEF z, e
<1>7. e \in Segment /\ e.seqno = s.seqno /\ e.fin = FALSE /\ e.p = z
  BY <1>5, <1>6 DEF Segment, T
<1>8. Length(e) = m + n /\ Start(e) = Start(s)
  BY <1>5, <1>7 DEF Length, Start
<1>9. Stop(e) = Stop(s) + n /\ Stop(e) <= End(e) /\ End(e) \in Nat
  <2>1. Stop(e) = Start(e) + Length(e) /\ Stop(e) <= End(e) /\ End(e) \in Nat
    BY <1>7, SegmentFacts
  <2> QED BY <1>1, <1>8, <2>1
<1>10. ASSUME NEW j \in 1 .. m + n PROVE z[j] = Start(s) + j - 1
  <2>1. CASE j \in 1 .. m
    BY <1>2, <1>5, <2>1
  <2>2. CASE j - m \in 1 .. n
    <3>1. m + (j - m) = j
      BY <1>1
    <3>2. z[m + (j - m)] = y[j - m] /\ y[j - m] = Start(s) + (m + (j - m)) - 1
      BY <1>4, <1>5, <2>2
    <3> QED BY <3>1, <3>2
  <2>3. j \in 1 .. m \/ j - m \in 1 .. n
    BY <1>1
  <2> QED BY <2>1, <2>2, <2>3
<1>11. Sane(e)
  <2>1. Start(e) < End(e) /\ Stop(e) <= StreamLen
    BY <1>1, <1>8, <1>9
  <2>2. \A j \in 1 .. Length(e) : e.p[j] = Start(e) + j - 1
    BY <1>7, <1>8, <1>10
  <2> QED BY <2>1, <2>2 DEF Sane
<1> QED BY <1>1, <1>7, <1>8, <1>9, <1>11 DEF e

\* Joined to a, d is b with its last segment replaced by e.
ReplacesLast(a, b, d, e) ==
  /\ d \in Seq(Segment) /\ a \o d \in Seq(Segment) /\ Len(a \o d) = Len(a \o b)
  /\ (a \o d)[Len(a \o b)] = e
  /\ \A i \in 1 .. Len(a \o b) - 1 : (a \o d)[i] = (a \o b)[i]

LEMMA LastReplaced ==
  ASSUME NEW a \in Seq(Segment), NEW b \in Seq(Segment), b # <<>>, NEW e \in Segment,
         NEW d, d = Append(Front(b), e)
  PROVE  ReplacesLast(a, b, d, e)
<1> DEFINE f == Front(b)
           all == a \o b
           c == a \o d
           k == Len(b)
           n == Len(all)
           m == Len(a)
<1>1. k \in Nat /\ k >= 1 /\ m \in Nat
  OBVIOUS
<1>2. f \in Seq(Segment) /\ Len(f) = k - 1 /\ \A i \in 1 .. k - 1 : f[i] = b[i]
  <2>1. 1 \in 1 .. Len(b) + 1 /\ k - 1 \in 0 .. Len(b) /\ 1 <= (k - 1) + 1
    BY <1>1
  <2> DEFINE g == SubSeq(b, 1, k - 1)
  <2>2. g \in Seq(Segment) /\ Len(g) = (k - 1) - 1 + 1 /\ \A i \in 1 .. (k - 1) - 1 + 1 : g[i] = b[1 + i - 1]
    BY <2>1, Part
  <2> HIDE DEF g, k
  <2>3. (k - 1) - 1 + 1 = k - 1 /\ \A i \in 1 .. k - 1 : 1 + i - 1 = i
    BY <1>1
  <2>4. g \in Seq(Segment) /\ Len(g) = k - 1 /\ \A i \in 1 .. k - 1 : g[i] = b[i]
    BY <2>2, <2>3
  <2>5. f = g
    BY DEF Front, g, k
  <2> HIDE DEF f
  <2> QED BY <2>4, <2>5
<1>0. d = Append(f, e)
  BY DEF f
<1> HIDE DEF f, k
<1>3. d \in Seq(Segment) /\ Len(d) = k /\ d[k] = e /\ \A i \in 1 .. k - 1 : d[i] = b[i]
  <2>1. /\ d \in Seq(Segment) /\ Len(d) = Len(f) + 1 /\ (\A i \in 1 .. Len(f) : d[i] = f[i])
        /\ d[Len(f) + 1] = e
    BY <1>0, <1>2, AppendProperties
  <2>2. (k - 1) + 1 = k
    BY <1>1
  <2> QED BY <1>2, <2>1, <2>2
<1>4. /\ c \in Seq(Segment) /\ Len(c) = m + k
      /\ (\A i \in 1 .. m : c[i] = a[i])
      /\ \A i \in 1 .. k : c[m + i] = d[i]
  <2>1. d \in Seq(Segment)
    BY <1>3
  <2>2. /\ c \in Seq(Segment) /\ Len(c) = m + Len(d)
        /\ (\A i \in 1 .. m : c[i] = a[i])
        /\ \A i \in 1 .. Len(d) : c[m + i] = d[i]
    BY <2>1, Joined
  <2> HIDE DEF c
  <2> QED BY <1>3, <2>2
<1>5. /\ all \in Seq(Segment) /\ n = m + k
      /\ (\A i \in 1 .. m : all[i] = a[i])
      /\ \A i \in 1 .. k : all[m + i] = b[i]
  <2>1. /\ all \in Seq(Segment) /\ n = m + Len(b)
        /\ (\A i \in 1 .. m : all[i] = a[i])
        /\ \A i \in 1 .. Len(b) : all[m + i] = b[i]
    BY Joined
  <2> HIDE DEF all, n
  <2> QED BY <2>1 DEF k
<1> HIDE DEF c, all, n, m
<1>6. n \in Nat /\ n >= 1 /\ Len(c) = n /\ k \in 1 .. k /\ all # <<>>
  <2>1. n \in Nat /\ n >= 1 /\ Len(c) = n /\ k \in 1 .. k
    BY <1>1, <1>4, <1>5
  <2> QED BY <1>5, <2>1 DEF n
<1>7. c[n] = e /\ all[n] = b[k]
  BY <1>3, <1>4, <1>5, <1>6
<1>8. ASSUME NEW i \in 1 .. n - 1 PROVE c[i] = all[i]
  <2>1. CASE i \in 1 .. m
    BY <1>4, <1>5, <2>1
  <2>2. CASE i - m \in 1 .. k - 1
    <3>1. i - m \in 1 .. k /\ m + (i - m) = i
      BY <1>1, <2>2
    <3>2. c[m + (i - m)] = d[i - m] /\ all[m + (i - m)] = b[i - m]
      BY <1>4, <1>5, <3>1
    <3> QED BY <1>3, <2>2, <3>1, <3>2
  <2>3. i \in 1 .. m \/ i - m \in 1 .. k - 1
    BY <1>1, <1>5
  <2> QED BY <2>1, <2>2, <2>3
<1> QED BY <1>3, <1>4, <1>6, <1>7, <1>8 DEF ReplacesLast, c, all, n

\* What tcp_write keeps, with the bytes that the last segment takes.
LEMMA KeptFacts ==
  ASSUME NEW q, NEW w, NEW pr, NEW split, Ready(q, w, pr, split), ~q.finQueued,
         NEW len \in Nat, Offset(q.snd_lbb) + len <= StreamLen
  PROVE  LET space == Space(q, len)
             kept  == IF space > 0 THEN Append(Front(q.unsent), Extend(Last(q.unsent), space)) ELSE q.unsent
             all   == Queued(q)
             c     == q.unacked \o kept
         IN /\ space \in Nat /\ space <= len /\ (all = <<>> => space = 0)
            /\ kept \in Seq(Segment) /\ c \in Seq(Segment) /\ Len(c) = Len(all)
            /\ Linked(c, Offset(q.lastack), Offset(q.snd_lbb) + space, MssLocal(q))
            /\ \A i \in 1 .. Len(c) : c[i].fin = FALSE /\ Length(c[i]) >= 1
            /\ all # <<>> => Start(c[1]) = Start(all[1]) /\ Stop(c[1]) >= Stop(all[1])
<1> DEFINE a == q.unacked
           b == q.unsent
           all == Queued(q)
           n == Len(all)
           l == Last(b)
           space == Space(q, len)
           kept == IF space > 0 THEN Append(Front(b), Extend(l, space)) ELSE b
           c == a \o kept
           la == Offset(q.lastack)
           lbb == Offset(q.snd_lbb)
           m == MssLocal(q)
           S == Range(all) \cup w
<1>1. /\ q \in Send /\ Numbers(q)
      /\ \A s \in S : s \in Segment /\ Sane(s) /\ s.fin = FALSE /\ Length(s) >= 1 /\ Stop(s) <= lbb
      /\ la <= lbb /\ lbb <= StreamLen /\ la \in Nat /\ lbb \in Nat
      /\ Linked(all, la, lbb, m) /\ Chain(all)
      /\ a \in Seq(Segment) /\ b \in Seq(Segment) /\ all \in Seq(Segment)
      /\ all # <<>> => Stop(all[n]) = lbb /\ Length(all[n]) >= 1
  BY BeforeFin
<1>2. m \in Nat
  BY <1>1, SendFacts
<1>3. all = a \o b
  BY DEF Queued
<1> HIDE DEF a, all, m
<1>4. n \in Nat /\ DOMAIN all = 1 .. n /\ \A i \in 1 .. n : all[i].fin = FALSE /\ Length(all[i]) >= 1
  <2>1. n \in Nat /\ DOMAIN all = 1 .. n
    BY <1>1
  <2> QED BY <1>1, <2>1 DEF Range
<1>5. CASE b = <<>>
  <2>1. space = 0
    BY <1>5 DEF Space
  <2>2. kept = b /\ c = all
    BY <1>3, <2>1
  <2> HIDE DEF space, c, kept, b
  <2>3. lbb + space = lbb
    BY <1>1, <2>1
  <2>4. all # <<>> => Stop(c[1]) >= Stop(all[1])
    <3> SUFFICES ASSUME all # <<>> PROVE Stop(all[1]) >= Stop(all[1])
      BY <2>2
    <3>1. all[1] \in Segment
      BY <1>1
    <3> QED BY <3>1, SegmentFacts
  <2>5. Linked(c, la, lbb + space, m)
    BY <1>1, <2>2, <2>3
  <2>6. \A i \in 1 .. Len(c) : c[i].fin = FALSE /\ Length(c[i]) >= 1
    BY <1>4, <2>2
  <2>7. space \in Nat /\ space <= len
    BY <2>1
  <2> QED BY <1>1, <2>1, <2>2, <2>4, <2>5, <2>6, <2>7 DEF space, c, kept, a, b, all, m
<1>6. CASE b # <<>>
  <2>1. space = MinOf(len, m - Length(l)) /\ l = b[Len(b)] /\ l \in Segment
    <3>1. l = b[Len(b)] /\ Len(b) \in 1 .. Len(b)
      BY <1>1, <1>6 DEF Last
    <3>2. l \in Segment
      BY <1>1, <3>1
    <3>3. space = MinOf(len, m - Length(l))
      BY <1>6 DEF Space, m
    <3> QED BY <3>1, <3>2, <3>3
  <2> HIDE DEF space, b
  <2>2. /\ n >= 1 /\ all[n] = l /\ all # <<>>
    <3>1. a \in Seq(Segment) /\ b \in Seq(Segment) /\ b # <<>>
      BY <1>1, <1>6
    <3>2. Len(a \o b) >= 1 /\ (a \o b)[Len(a \o b)] = b[Len(b)] /\ a \o b # <<>>
      <4>1. Len(a) \in Nat /\ Len(b) \in Nat /\ Len(b) >= 1
        BY <3>1
      <4>2. /\ Len(a \o b) = Len(a) + Len(b)
            /\ \A i \in 1 .. Len(b) : (a \o b)[Len(a) + i] = b[i]
        BY <3>1, Joined
      <4>3. Len(b) \in 1 .. Len(b)
        BY <4>1
      <4>4. (a \o b)[Len(a \o b)] = b[Len(b)]
        BY <4>2, <4>3
      <4> QED BY <4>1, <4>2, <4>4
    <3> QED BY <1>3, <2>1, <3>2
  <2>3. /\ Sane(l) /\ l.fin = FALSE /\ Length(l) >= 1 /\ Stop(l) = lbb /\ Length(l) \in Nat /\ Length(l) <= m
    <3>1. n \in 1 .. n
      BY <1>4, <2>2
    <3>2. all[n] \in S
      BY <1>4, <3>1 DEF Range
    <3>3. Length(all[n]) <= m
      BY <1>1, <3>1 DEF Linked
    <3> QED BY <1>1, <2>1, <2>2, <3>2, <3>3, SegmentFacts
  <2>4. space \in Nat /\ space <= len /\ space <= m - Length(l)
    <3>1. m - Length(l) \in Int /\ m - Length(l) >= 0
      BY <1>2, <2>3
    <3>2. space = IF len <= m - Length(l) THEN len ELSE m - Length(l)
      BY <2>1, <3>1, MinMax
    <3> QED BY <3>1, <3>2
  <2>5. CASE ~(space > 0)
    <3>1. space = 0 /\ kept = b /\ c = all
      BY <1>3, <2>4, <2>5
    <3> HIDE DEF c, kept
    <3>2. lbb + space = lbb
      BY <1>1, <3>1
    <3>3. Stop(c[1]) >= Stop(all[1])
      <4>1. all[1] \in Segment
        BY <1>1, <2>2
      <4> QED BY <3>1, <4>1, SegmentFacts
    <3>4. Linked(c, la, lbb + space, m)
      BY <1>1, <3>1, <3>2
    <3>5. \A i \in 1 .. Len(c) : c[i].fin = FALSE /\ Length(c[i]) >= 1
      BY <1>4, <3>1
    <3> QED BY <1>1, <2>2, <2>4, <3>1, <3>3, <3>4, <3>5 DEF space, c, kept, a, b, all, m
  <2>6. CASE space > 0
    <3> DEFINE e == Extend(l, space)
    <3>1. Stop(l) + space <= StreamLen
      <4>1. StreamLen \in Nat /\ lbb + len <= StreamLen
        BY Bounds
      <4> HIDE DEF lbb
      <4> QED BY <1>1, <2>3, <2>4, <4>1
    <3>2. /\ e \in Segment /\ Sane(e) /\ e.fin = FALSE /\ Start(e) = Start(l)
          /\ Length(e) = Length(l) + space /\ Stop(e) = Stop(l) + space
      BY <2>1, <2>3, <2>4, <3>1, ExtendFacts
    <3>3. kept = Append(Front(b), e)
      BY <2>6
    <3> HIDE DEF e, kept, l
    <3>4. /\ kept \in Seq(Segment) /\ c \in Seq(Segment) /\ Len(c) = n
          /\ c[n] = e /\ \A i \in 1 .. n - 1 : c[i] = all[i]
      <4>1. a \in Seq(Segment) /\ b \in Seq(Segment) /\ b # <<>>
        BY <1>1, <1>6
      <4>2. e \in Segment
        BY <3>2
      <4>3. ReplacesLast(a, b, kept, e)
        BY <3>3, <4>1, <4>2, LastReplaced, Zenon
      <4> QED BY <1>3, <4>3 DEF ReplacesLast
    <3> HIDE DEF c
    <3>5. Top(e) = lbb + space /\ Length(e) <= m /\ Length(e) >= 1
      <4>1. Length(e) <= m /\ Length(e) >= 1
        BY <1>2, <2>3, <2>4, <3>2
      <4>2. Top(e) = Stop(e)
        BY <3>2, <4>1, TopFacts
      <4> QED BY <2>3, <3>2, <4>1, <4>2
    <3>6. Linked(c, la, lbb + space, m)
      <4>1. Linked(c, la, Top(c[n]), m)
        <5>1. Start(c[n]) = Start(all[n]) /\ Sane(c[n]) /\ Length(c[n]) <= m /\ Len(all) = n
          BY <2>2, <3>2, <3>4, <3>5
        <5> HIDE DEF n, la, lbb
        <5> QED BY <1>1, <1>4, <2>2, <3>4, <5>1, LinkedLast
      <4> QED BY <3>4, <3>5, <4>1
    <3>7. \A i \in 1 .. Len(c) : c[i].fin = FALSE /\ Length(c[i]) >= 1
      <4> SUFFICES ASSUME NEW i \in 1 .. n PROVE c[i].fin = FALSE /\ Length(c[i]) >= 1
        BY <3>4
      <4>1. CASE i = n
        BY <3>2, <3>4, <3>5, <4>1
      <4>2. CASE i # n
        <5>1. i \in 1 .. n - 1
          <6>1. n \in Nat
            BY <1>4
          <6> HIDE DEF n
          <6> QED BY <4>2, <6>1
        <5> QED BY <1>4, <3>4, <5>1
      <4> QED BY <4>1, <4>2
    <3>8. Start(c[1]) = Start(all[1]) /\ Stop(c[1]) >= Stop(all[1])
      <4>1. CASE n = 1
        <5>1. c[1] = e /\ all[1] = l
          BY <2>2, <3>4, <4>1
        <5>2. Stop(e) >= Stop(l)
          <6>1. Stop(e) = lbb + space /\ Stop(l) = lbb /\ lbb \in Nat /\ space \in Nat
            BY <1>1, <2>3, <2>4, <3>2
          <6> HIDE DEF lbb
          <6> QED BY <6>1
        <5> QED BY <3>2, <5>1, <5>2
      <4>2. CASE n # 1
        <5>1. 1 \in 1 .. n - 1
          BY <1>4, <2>2, <4>2
        <5>2. c[1] = all[1] /\ all[1] \in Segment
          BY <1>1, <2>2, <3>4, <5>1
        <5> QED BY <5>2, SegmentFacts
      <4> QED BY <4>1, <4>2
    <3> QED BY <2>2, <2>4, <3>4, <3>6, <3>7, <3>8 DEF space, c, kept, a, b, all, m, l
  <2> QED BY <2>5, <2>6
<1> QED BY <1>5, <1>6

\* A tcp_write that succeeds.
LEMMA WriteIsReady ==
  ASSUME NEW q, NEW w, NEW pr, NEW split, Ready(q, w, pr, split), ~q.finQueued,
         NEW len \in Nat, len >= 1, Offset(q.snd_lbb) + len <= StreamLen, len <= q.snd_buf
  PROVE  LET space == Space(q, len)
             kept  == IF space > 0 THEN Append(Front(q.unsent), Extend(Last(q.unsent), space)) ELSE q.unsent
             r     == [q EXCEPT !.unsent = kept \o NewSegments(q, space, len),
                                !.snd_lbb = Add(q.snd_lbb, len), !.snd_buf = q.snd_buf - len]
         IN Ready(r, w, pr, split) /\ r.snd_lbb # q.snd_lbb
<1> DEFINE space == Space(q, len)
           kept == IF space > 0 THEN Append(Front(q.unsent), Extend(Last(q.unsent), space)) ELSE q.unsent
           new == NewSegments(q, space, len)
           a == q.unacked
           b == kept \o new
           all == Queued(q)
           c == a \o kept
           d == c \o new
           y == Add(q.snd_lbb, len)
           bf == q.snd_buf - len
           r == [q EXCEPT !.unsent = b, !.snd_lbb = y, !.snd_buf = bf]
           Q == Range(all)
           S == Q \cup w
           la == Offset(q.lastack)
           nx == Offset(q.snd_nxt)
           lbb == Offset(q.snd_lbb)
           m == MssLocal(q)
<1>1. /\ q \in Send /\ Numbers(q) /\ Flight(q) /\ FirstIsNew(q) /\ pr \in Peers /\ split \in BOOLEAN
      /\ q.alive /\ WireInv(w, nx, pr)
      /\ PeerInv(Q, S, pr, la, nx, q.snd_wnd, q.finQueued, split)
      /\ q.snd_buf + Bytes(all) = TCP_SND_BUF
      /\ \A s \in S : s \in Segment /\ Sane(s) /\ s.fin = FALSE /\ Length(s) >= 1 /\ Stop(s) <= lbb
      /\ ~pr.fin /\ la <= lbb /\ lbb <= StreamLen /\ nx <= lbb
      /\ la \in Nat /\ nx \in Nat /\ lbb \in Nat /\ q.snd_lbb \in SeqNos
      /\ Linked(all, la, lbb, m) /\ Chain(all)
      /\ a \in Seq(Segment) /\ all \in Seq(Segment)
      /\ all # <<>> => Stop(all[Len(all)]) = lbb
  BY BeforeFin
<1>2. m \in Nat /\ m >= 1 /\ q.snd_buf \in 0 .. TCP_SND_BUF /\ TCP_SND_BUF \in Nat /\ StreamLen \in Nat
  BY <1>1, SendFacts, Bounds, OutputAssumption DEF Send
<1>3. /\ space \in Nat /\ space <= len /\ (all = <<>> => space = 0)
      /\ kept \in Seq(Segment) /\ c \in Seq(Segment) /\ Len(c) = Len(all)
      /\ Linked(c, la, lbb + space, m)
      /\ \A i \in 1 .. Len(c) : c[i].fin = FALSE /\ Length(c[i]) >= 1
      /\ all # <<>> => Start(c[1]) = Start(all[1]) /\ Stop(c[1]) >= Stop(all[1])
  BY KeptFacts
<1> HIDE DEF space, kept
<1>4. /\ new \in Seq(Segment) /\ Chain(new)
      /\ \A i \in 1 .. Len(new) : Length(new[i]) >= 1 /\ Length(new[i]) <= m /\ new[i].fin = FALSE
      /\ new # <<>> => Start(new[1]) = lbb + space /\ Stop(new[Len(new)]) = lbb + len
      /\ new = <<>> => space = len
  BY <1>1, <1>2, <1>3, NewChain, ZenonT(60)
<1>5. b \in Seq(Segment) /\ a \o b = d
  <2> HIDE DEF new
  <2>1. a \in Seq(Segment) /\ kept \in Seq(Segment) /\ new \in Seq(Segment)
    BY <1>1, <1>3, <1>4
  <2> HIDE DEF a
  <2>2. b \in Seq(Segment)
    BY <2>1
  <2>3. (a \o kept) \o new = a \o (kept \o new)
    BY <2>1, ConcatAssociative, SMTT(30)
  <2> QED BY <2>2, <2>3
<1> HIDE DEF new, c, all, a, m
<1>6. /\ d \in Seq(Segment) /\ Len(d) = Len(c) + Len(new) /\ Len(c) \in Nat /\ Len(new) \in Nat
      /\ \A i \in 1 .. Len(c) : d[i] = c[i]
      /\ \A i \in 1 .. Len(new) : d[Len(c) + i] = new[i]
  <2>1. c \in Seq(Segment) /\ new \in Seq(Segment)
    BY <1>3, <1>4
  <2> QED BY <2>1, Joined
<1> HIDE DEF d, b
<1>7. \A i \in 1 .. Len(d) : d[i].fin = FALSE /\ Length(d[i]) >= 1
  <2> SUFFICES ASSUME NEW i \in 1 .. Len(c) + Len(new) PROVE d[i].fin = FALSE /\ Length(d[i]) >= 1
    BY <1>6
  <2>1. CASE i \in 1 .. Len(c)
    BY <1>3, <1>6, <2>1
  <2>2. CASE i - Len(c) \in 1 .. Len(new)
    <3>1. Len(c) + (i - Len(c)) = i
      BY <1>6
    <3>2. d[Len(c) + (i - Len(c))] = new[i - Len(c)]
      BY <1>6, <2>2
    <3> QED BY <1>4, <2>2, <3>1, <3>2
  <2>3. i \in 1 .. Len(c) \/ i - Len(c) \in 1 .. Len(new)
    BY <1>6
  <2> QED BY <2>1, <2>2, <2>3
<1> DEFINE top == lbb + len
           mid == lbb + space
<1>8. top \in Nat /\ mid \in Nat /\ la <= mid /\ mid <= top /\ top <= StreamLen /\ la <= top /\ top > lbb /\ nx <= top
  <2>1. lbb + len <= StreamLen
    OBVIOUS
  <2> HIDE DEF lbb, la, nx
  <2> QED BY <1>1, <1>2, <1>3, <2>1
<1>9. Linked(d, la, top, m)
  <2>1. c # <<>> => Length(c[Len(c)]) >= 1
    BY <1>3
  <2>2. /\ \A i \in 1 .. Len(new) : Length(new[i]) <= m
        /\ new # <<>> => Start(new[1]) = mid /\ Top(new[Len(new)]) = top
        /\ new = <<>> => top = mid
    <3>1. ASSUME new # <<>> PROVE Start(new[1]) = mid /\ Top(new[Len(new)]) = top
      <4>1. Len(new) \in 1 .. Len(new)
        BY <1>4, <3>1
      <4> DEFINE s == new[Len(new)]
      <4>2. s \in Segment /\ Sane(s) /\ Length(s) >= 1
        BY <1>4, <4>1 DEF Chain
      <4> HIDE DEF s
      <4>3. Top(s) = Stop(s)
        BY <4>2, TopFacts
      <4> QED BY <1>4, <3>1, <4>3 DEF s
    <3>2. new = <<>> => top = mid
      BY <1>4
    <3> QED BY <1>4, <3>1, <3>2
  <2>3. Linked(c, la, mid, m) /\ c \in Seq(Segment) /\ new \in Seq(Segment) /\ Chain(new)
    BY <1>3, <1>4
  <2> HIDE DEF top, mid, la
  <2>4. la \in Nat /\ m \in Nat
    BY <1>1, <1>2
  <2>5. Linked(c \o new, la, top, m)
    BY <1>8, <2>1, <2>2, <2>3, <2>4, LinkedAppend
  <2> QED BY <2>5 DEF d
<1>10. d # <<>> /\ Chain(d) /\ Len(d) \in Nat /\ Len(d) >= 1 /\ DOMAIN d = 1 .. Len(d) /\ Len(d) \in 1 .. Len(d)
  <2>1. d # <<>>
    <3>1. Linked(d, la, top, m) /\ ~(la >= top)
      <4>1. CASE la >= top
        <5> HIDE DEF la, top, lbb
        <5> QED BY <1>1, <1>8, <4>1
      <4> QED BY <1>9, <4>1
    <3> QED BY <3>1 DEF Linked
  <2> QED BY <1>6, <1>9, <2>1 DEF Linked
<1>11. Stop(d[Len(d)]) = top
  <2> DEFINE s == d[Len(d)]
  <2>1. s \in Segment /\ Sane(s) /\ Length(s) >= 1 /\ Top(s) = top
    BY <1>6, <1>7, <1>9, <1>10 DEF Chain, Linked
  <2> HIDE DEF s, top
  <2>2. Top(s) = Stop(s)
    BY <2>1, TopFacts
  <2> QED BY <2>1, <2>2 DEF s
<1>12. /\ all = <<>> => Start(d[1]) = lbb
       /\ all # <<>> => Start(d[1]) = Start(all[1]) /\ Stop(d[1]) >= Stop(all[1])
  <2>1. ASSUME all = <<>> PROVE Start(d[1]) = lbb
    <3>1. Len(c) = 0 /\ space = 0
      BY <1>3, <2>1
    <3>2. new # <<>>
      BY <1>4, <3>1
    <3>3. d[1] = new[1]
      <4>1. 1 \in 1 .. Len(new)
        BY <1>4, <3>2
      <4>2. d[0 + 1] = new[1]
        BY <1>6, <3>1, <4>1
      <4> QED BY <4>2
    <3>4. lbb + space = lbb
      BY <1>1, <3>1
    <3> QED BY <1>4, <3>2, <3>3, <3>4
  <2>2. ASSUME all # <<>> PROVE Start(d[1]) = Start(all[1]) /\ Stop(d[1]) >= Stop(all[1])
    <3>1. 1 \in 1 .. Len(c)
      BY <1>1, <1>3, <2>2
    <3> QED BY <1>3, <1>6, <2>2, <3>1
  <2> QED BY <2>1, <2>2
<1>13. Bytes(d) = Bytes(all) + len
  <2>1. Bytes(d) = top - Start(d[1])
    <3>1. Bytes(d) = Stop(Last(d)) - Start(d[1]) /\ Last(d) = d[Len(d)]
      BY <1>6, <1>10, ChainBytes DEF Last
    <3> QED BY <1>11, <3>1
  <2>2. CASE all = <<>>
    <3>1. Bytes(all) = 0
      BY <1>1, <2>2, ChainBytes
    <3>2. Bytes(d) = (lbb + len) - lbb
      BY <1>12, <2>1, <2>2
    <3> HIDE DEF lbb
    <3> QED BY <1>1, <3>1, <3>2
  <2>3. CASE all # <<>>
    <3>1. Bytes(all) = lbb - Start(all[1])
      <4>1. Bytes(all) = Stop(Last(all)) - Start(all[1]) /\ Last(all) = all[Len(all)]
        BY <1>1, <2>3, ChainBytes DEF Last
      <4> QED BY <1>1, <2>3, <4>1
    <3>2. Bytes(d) = (lbb + len) - Start(all[1])
      BY <1>12, <2>1, <2>3
    <3>3. Start(all[1]) \in Nat
      <4>1. all[1] \in Segment
        BY <1>1, <2>3
      <4> QED BY <4>1, SegmentFacts
    <3> HIDE DEF lbb
    <3> QED BY <1>1, <3>1, <3>2, <3>3
  <2> QED BY <2>2, <2>3
<1>14. y \in SeqNos /\ Offset(y) = top
  <2>1. SEQ \in Nat /\ StreamLen < SEQ
    BY Bounds
  <2>2. Offset(q.snd_lbb) + len < SEQ
    <3>1. top < SEQ
      <4> HIDE DEF top
      <4> QED BY <1>2, <1>8, <2>1
    <3> QED BY <3>1
  <2> QED BY <1>1, <2>2, OffsetAdd
<1>15. bf \in 0 .. TCP_SND_BUF /\ bf + Bytes(d) = TCP_SND_BUF
  <2>1. Bytes(all) \in Int
    <3>1. Bytes(all) = IF all = <<>> THEN 0 ELSE Stop(Last(all)) - Start(all[1])
      BY <1>1, ChainBytes
    <3>2. ASSUME all # <<>> PROVE Stop(Last(all)) \in Int /\ Start(all[1]) \in Int
      <4>1. Last(all) \in Segment /\ all[1] \in Segment
        BY <1>1, <3>2 DEF Last
      <4> QED BY <4>1, SegmentFacts
    <3> QED BY <3>1, <3>2
  <2> DEFINE x == Bytes(all)
  <2>2. x \in Int /\ q.snd_buf + x = TCP_SND_BUF /\ Bytes(d) = x + len
    BY <1>1, <1>13, <2>1
  <2> HIDE DEF x
  <2> QED BY <1>2, <2>2
<1> HIDE DEF y, bf
<1>16. /\ r \in Send /\ r.unsent = b /\ r.unacked = a /\ r.persist = q.persist /\ r.snd_nxt = q.snd_nxt
       /\ r.lastack = q.lastack /\ r.snd_lbb = y /\ r.rtxTimer = q.rtxTimer
       /\ r.snd_buf = bf /\ r.snd_wnd = q.snd_wnd /\ r.snd_wnd_max = q.snd_wnd_max
       /\ r.snd_wl2 = q.snd_wl2 /\ r.finQueued = q.finQueued /\ r.cwnd = q.cwnd /\ r.alive = q.alive
  BY <1>1, <1>5, <1>14, <1>15 DEF Send, a
<1> HIDE DEF r
<1>17. Queued(r) = d /\ Offset(r.snd_lbb) = top
  BY <1>5, <1>14, <1>16 DEF Queued
<1>18. Flight(r)
  BY <1>1, <1>16 DEF Flight, a
<1>19. FirstIsNew(r)
  <2>1. CASE all = <<>>
    <3>1. d[1] \in Segment /\ Start(d[1]) = lbb
      BY <1>6, <1>10, <1>12, <2>1
    <3>2. Start(d[1]) <= Stop(d[1]) /\ Stop(d[1]) \in Nat
      BY <3>1, SegmentFacts
    <3>3. la <= Stop(d[1])
      BY <1>1, <3>1, <3>2
    <3> QED BY <1>16, <1>17, <3>3 DEF FirstIsNew
  <2>2. CASE all # <<>>
    <3>1. d[1] \in Segment /\ all[1] \in Segment /\ Stop(d[1]) >= Stop(all[1])
      BY <1>1, <1>6, <1>10, <1>12, <2>2
    <3>2. Stop(d[1]) \in Nat /\ Stop(all[1]) \in Nat
      BY <3>1, SegmentFacts
    <3>3. q.persist \/ la <= Stop(all[1])
      BY <1>1, <2>2 DEF FirstIsNew, all
    <3>4. q.persist \/ la <= Stop(d[1])
      BY <1>1, <3>1, <3>2, <3>3
    <3> QED BY <1>16, <1>17, <3>4 DEF FirstIsNew
  <2> QED BY <2>1, <2>2
<1>20. QueueInv(r)
  <2>1. MssLocal(r) = m
    BY <1>16 DEF MssLocal, m
  <2> QED BY <1>9, <1>15, <1>16, <1>17, <1>19, <2>1 DEF QueueInv
<1>21. Numbers(r)
  <2>1. la <= nx /\ q.snd_wl2 = q.lastack /\ q.cwnd >= mss /\ q.snd_wnd <= q.snd_wnd_max /\ q.snd_wnd_max >= 2
    BY <1>1 DEF Numbers
  <2>2. One(r.finQueued) = 0
    BY <1>16 DEF One
  <2>3. nx <= top + 0 /\ top <= StreamLen + 0
    <3> HIDE DEF nx, top
    <3> QED BY <1>2, <1>8
  <2> QED BY <1>16, <1>17, <2>1, <2>2, <2>3 DEF Numbers
<1>22. FinInv(Range(d), Range(d) \cup w, top, FALSE, split)
  <2>1. ASSUME NEW s \in Range(d) \cup w PROVE Stop(s) <= top /\ s.fin = FALSE
    <3>1. CASE s \in w
      <4>1. s \in Segment /\ s.fin = FALSE /\ Stop(s) <= lbb
        BY <1>1, <3>1
      <4>2. Stop(s) \in Nat
        BY <4>1, SegmentFacts
      <4>3. Stop(s) <= top
        <5> HIDE DEF top, lbb
        <5> QED BY <1>1, <1>8, <4>1, <4>2
      <4> QED BY <4>1, <4>3
    <3>2. CASE s \in Range(d)
      <4>1. PICK i \in 1 .. Len(d) : s = d[i]
        BY <1>10, <3>2 DEF Range
      <4>2. i <= Len(d)
        BY <1>10
      <4>3. Stop(d[i]) <= Stop(d[Len(d)])
        BY <1>6, <1>10, <4>2, ChainEnds
      <4> QED BY <1>7, <1>11, <4>1, <4>3
    <3> QED BY <3>1, <3>2
  <2> QED BY <2>1 DEF FinInv
<1>23. FinInv(Range(Queued(r)), Range(Queued(r)) \cup w, Offset(r.snd_lbb), r.finQueued, split)
  <2>1. r.finQueued = FALSE
    BY <1>1, <1>16 DEF Send
  <2> QED BY <1>17, <1>22, <2>1
<1>24. r.alive
  BY <1>1, <1>16
<1>25. Ready(r, w, pr, split)
  <2> HIDE DEF Q, S
  <2> QED BY <1>1, <1>16, <1>18, <1>20, <1>21, <1>23, <1>24, Assembled
<1>26. r.snd_lbb # q.snd_lbb
  <2>1. top # lbb
    <3> HIDE DEF top, lbb
    <3> QED BY <1>1, <1>8
  <2> QED BY <1>14, <1>16, <2>1
<1> QED BY <1>25, <1>26 DEF r, b, y, bf, new, kept, space

\* writeBytes.
LEMMA WriteKeeps ==
  ASSUME OutInv, NEW len \in WriteSizes, NEW nomem \in BOOLEAN, Write(len, nomem)
  PROVE  OutInv'
<1> DEFINE q == tcp_write(snd, len, nomem)
           space == Space(snd, len)
           kept == IF space > 0 THEN Append(Front(snd.unsent), Extend(Last(snd.unsent), space)) ELSE snd.unsent
           r == [snd EXCEPT !.unsent = kept \o NewSegments(snd, space, len),
                            !.snd_lbb = Add(snd.snd_lbb, len), !.snd_buf = snd.snd_buf - len]
           x == [snd EXCEPT !.naglememerr = TRUE]
<1>1. /\ snd.alive /\ ~snd.finQueued /\ Offset(snd.snd_lbb) + len <= StreamLen
      /\ Failed(nomem) /\ peer' = peer /\ finSplit' = finSplit
      /\ IF q.snd_lbb = snd.snd_lbb THEN snd' = q /\ wire' = wire ELSE Output(q)
  BY DEF Write
<1>2. Ready(snd, wire, peer, finSplit) /\ Busy(snd) /\ fails \in 0 .. MaxFail /\ fails' \in 0 .. MaxFail
  BY <1>1, AliveIsReady, FailCounted
<1>3. snd \in Send /\ len \in Nat /\ len >= 1 /\ snd.snd_buf \in Nat
  <2>1. snd \in Send
    BY <1>2 DEF Ready, Common
  <2>2. len \in Nat \ {0}
    BY OutputAssumption
  <2> QED BY <2>1, <2>2, Bounds DEF Send
<1>4. q = x \/ (q = r /\ len <= snd.snd_buf)
  <2>1. q = IF nomem \/ len > snd.snd_buf
               \/ snd_queuelen(snd) >= TCP_SND_QUEUELEN
               \/ Len(snd.unacked) + Len(kept \o NewSegments(snd, space, len)) > TCP_SND_QUEUELEN
              THEN x ELSE r
    BY <1>3 DEF tcp_write, Send
  <2> HIDE DEF q, x, r, kept, space
  <2>2. ~(len > snd.snd_buf) => len <= snd.snd_buf
    BY <1>3
  <2> QED BY <2>1, <2>2
<1>5. CASE q = x
  <2>1. q.snd_lbb = snd.snd_lbb
    <3> HIDE DEF q
    <3> QED BY <1>3, <1>5 DEF Send
  <2>2. snd' = x /\ wire' = wire
    BY <1>1, <1>5, <2>1
  <2> HIDE DEF q
  <2> QED BY <1>1, <1>2, <2>2, NagleIsReady, QuietKeeps
<1>6. CASE q = r /\ len <= snd.snd_buf
  <2>1. Ready(r, wire, peer, finSplit) /\ r.snd_lbb # snd.snd_lbb
    BY <1>1, <1>2, <1>3, <1>6, WriteIsReady
  <2> HIDE DEF q, r
  <2>2. Output(q) /\ Ready(q, wire, peer, finSplit')
    BY <1>1, <1>6, <2>1
  <2> QED BY <1>1, <1>2, <2>2, OutputKeeps
<1> QED BY <1>4, <1>5, <1>6

-----------------------------------------------------------------------------
(* ACKs.                                                                   *)

\* A larger limit on the length of the segments.
LEMMA LinkedWider ==
  ASSUME NEW all \in Seq(Segment), NEW la, NEW lbb, NEW m \in Nat, NEW m2 \in Nat, m <= m2,
         Linked(all, la, lbb, m)
  PROVE  Linked(all, la, lbb, m2)
<1>1. \A i \in 1 .. Len(all) : Length(all[i]) <= m2
  <2> TAKE i \in 1 .. Len(all)
  <2>1. all[i] \in Segment /\ Length(all[i]) <= m
    BY DEF Linked
  <2>2. Length(all[i]) \in Nat
    BY <2>1, SegmentFacts
  <2> QED BY <2>1, <2>2
<1> QED BY <1>1 DEF Linked

\* The window grows, and nothing else changes but the counters.
LEMMA WindowIsReady ==
  ASSUME NEW q, NEW w, NEW pr, NEW split, NEW r, Ready(q, w, pr, split),
         r \in Send, r.unacked = q.unacked, r.unsent = q.unsent,
         r.lastack = q.lastack, r.snd_nxt = q.snd_nxt, r.snd_lbb = q.snd_lbb, r.snd_buf = q.snd_buf,
         r.snd_wl2 = q.snd_wl2, r.finQueued = q.finQueued, r.alive = q.alive, r.cwnd = q.cwnd,
         r.persist = q.persist, r.rtxTimer = q.rtxTimer,
         q.snd_wnd <= r.snd_wnd, q.snd_wnd_max <= r.snd_wnd_max, r.snd_wnd <= r.snd_wnd_max,
         r.snd_wnd = q.snd_wnd \/ Offset(q.lastack) + r.snd_wnd <= pr.edge
  PROVE  Ready(r, w, pr, split)
<1> DEFINE all == Queued(q)
           Q == Range(all)
           S == Q \cup w
           la == Offset(q.lastack)
           nx == Offset(q.snd_nxt)
           lbb == Offset(q.snd_lbb)
<1>1. /\ q \in Send /\ Numbers(q) /\ Flight(q) /\ FirstIsNew(q) /\ pr \in Peers /\ split \in BOOLEAN
      /\ q.alive /\ WireInv(w, nx, pr)
      /\ FinInv(Q, S, lbb, q.finQueued, split)
      /\ PeerInv(Q, S, pr, la, nx, q.snd_wnd, q.finQueued, split)
      /\ q.snd_buf + Bytes(all) = TCP_SND_BUF
      /\ Linked(all, la, lbb, MssLocal(q))
  BY DEF Ready, Common, QueueInv
<1>2. Queued(r) = all
  BY DEF Queued
<1>3. /\ q.snd_wnd \in Nat /\ q.snd_wnd_max \in Nat /\ q.snd_wnd_max >= 2 /\ all \in Seq(Segment) /\ la \in Nat
      /\ q.unacked \in Seq(Segment)
      /\ r.snd_wnd \in Nat /\ r.snd_wnd_max \in Nat
  <2>1. r.snd_wnd \in Nat /\ r.snd_wnd_max \in Nat
    BY Bounds DEF Send
  <2>2. q.snd_wnd_max >= 2
    BY <1>1 DEF Numbers
  <2> QED BY <1>1, <2>1, <2>2, SendFacts
<1>4. r.snd_wnd_max >= 2
  BY <1>3
<1>5. Numbers(r)
  BY <1>1, <1>4 DEF Numbers
<1>6. Flight(r)
  <2>1. q.unacked # <<>> => q.rtxTimer /\ ~q.persist
    BY <1>1 DEF Flight
  <2>2. ASSUME NEW i \in 1 .. Len(q.unacked) PROVE Stop(q.unacked[i]) <= la + r.snd_wnd
    <3>1. q.unacked[i] \in Segment
      BY <1>3
    <3>2. Stop(q.unacked[i]) \in Nat
      BY <3>1, SegmentFacts
    <3>3. Stop(q.unacked[i]) <= la + q.snd_wnd
      BY <1>1 DEF Flight
    <3> HIDE DEF la
    <3> QED BY <1>3, <3>2, <3>3
  <2> QED BY <2>1, <2>2 DEF Flight
<1>7. FirstIsNew(r)
  BY <1>1, <1>2 DEF FirstIsNew
<1>8. QueueInv(r)
  <2>1. MssLocal(q) \in Nat /\ MssLocal(r) \in Nat /\ MssLocal(q) <= MssLocal(r)
    BY <1>3, <1>4, MssFacts
  <2>2. Linked(all, la, lbb, MssLocal(r))
    <3> HIDE DEF all, la, lbb
    <3> QED BY <1>1, <1>3, <2>1, LinkedWider
  <2> QED BY <1>1, <1>2, <1>7, <2>2 DEF QueueInv
<1>9. PeerInv(Q, S, pr, la, nx, r.snd_wnd, q.finQueued, split)
  <2>1. r.snd_wnd = 0 \/ la + r.snd_wnd <= pr.edge
    BY <1>1 DEF PeerInv
  <2> HIDE DEF Q, S, la, nx
  <2> QED BY <1>1, <2>1 DEF PeerInv
<1>10. Common(r, w, pr, split)
  BY <1>1, <1>2, <1>5, <1>6, <1>9 DEF Common
<1> QED BY <1>8, <1>10 DEF Ready

\* Retransmission of the first segment in flight, and tcp_output.
LEMMA FastKeeps ==
  ASSUME NEW q, Ready(q, wire, peer, finSplit'), q.unacked # <<>>, Output(Fast(q)),
         peer' = peer, fails' \in 0 .. MaxFail
  PROVE  OutInv'
<1> DEFINE x == Fast(q)
           r == tcp_output(x)
           w == News(wire \cup Leaving(x), peer)
           sp == finSplit'
<1>1. Sends(q, r, Leaving(x))
  BY FastSends
<1> HIDE DEF x
<1>2. Common(r, w, peer, sp) /\ QueueInv(r) /\ Busy(r) /\ r.alive
  BY <1>1, Posted
<1>3. snd' = r /\ wire' = w
  BY DEF Output, x
<1> HIDE DEF r, w
<1>4. Common(snd', wire', peer', finSplit') /\ QueueInv(snd') /\ Busy(snd') /\ snd'.alive
  BY <1>2, <1>3
<1> QED BY <1>4 DEF OutInv

\* What tcp_free_acked_segments leaves of a queue.
LEMMA UnfreedFacts ==
  ASSUME NEW segs \in Seq(Segment), \A i \in 1 .. Len(segs) : Sane(segs[i]),
         NEW x \in SeqNos, Offset(x) <= StreamLen + 2
  PROVE  \E k \in 0 .. Len(segs) :
           /\ Unfreed(segs, x) = SubSeq(segs, k + 1, Len(segs))
           /\ \A i \in 1 .. k : End(segs[i]) <= Offset(x)
           /\ k < Len(segs) => End(segs[k + 1]) > Offset(x)
<1> DEFINE n == Len(segs)
           P(i) == TCP_SEQ_LEQ(EndOf(segs[i], TRUE), x)
           T == {i \in 1 .. n : P(i)}
           A == {j \in 0 .. n : \A i \in 1 .. j : i \in T}
           B == {j \in 0 .. n : \A i \in 1 .. j : P(i)}
           k == Max(A)
<1>1. n \in Nat
  OBVIOUS
<1>2. A = B
  <2>1. \A j \in 0 .. n : \A i \in 1 .. j : i \in 1 .. n
    BY <1>1
  <2> HIDE DEF n, P
  <2> QED BY <2>1
<1>3. Unfreed(segs, x) = SubSeq(segs, Max(B) + 1, n)
  BY DEF Unfreed, Leading
<1>4. Unfreed(segs, x) = SubSeq(segs, k + 1, n)
  BY <1>2, <1>3
<1>5. k \in 0 .. n /\ (\A i \in 1 .. k : i \in T) /\ (k < n => (k + 1) \notin T)
  <2> HIDE DEF n, T
  <2> QED BY <1>1, LeadingSet
<1>6. ASSUME NEW i \in 1 .. n PROVE /\ P(i) <=> End(segs[i]) <= Offset(x)
                                    /\ End(segs[i]) \in Nat
  <2> DEFINE s == segs[i]
             e == EndOf(s, TRUE)
  <2>1. s \in Segment /\ Sane(s) /\ Stop(s) <= StreamLen
    BY DEF Sane
  <2>2. e \in SeqNos /\ Offset(e) = End(s) /\ End(s) \in Nat /\ End(s) <= Stop(s) + 1 /\ Stop(s) \in Nat
    BY <2>1, EndOffset, SegmentFacts
  <2>3. StreamLen \in Nat /\ StreamLen + 2 < SEQ \div 2 /\ SEQ \div 2 \in Nat
    <3>1. StreamLen \in Nat /\ PeerWnd \in Nat /\ 2 <= PeerWnd /\ StreamLen + PeerWnd + 1 < SEQ \div 2 /\ SEQ \div 2 \in Nat
      BY Bounds
    <3> QED BY <3>1
  <2>4. Offset(x) \in Nat
    BY OffsetType
  <2> HIDE DEF s, e
  <2>5. Offset(e) < SEQ \div 2 /\ Offset(x) < SEQ \div 2
    BY <2>1, <2>2, <2>3, <2>4
  <2>6. TCP_SEQ_LT(x, e) <=> Offset(x) < Offset(e)
    BY <2>2, <2>5, LessThan
  <2>7. TCP_SEQ_LEQ(e, x) <=> End(s) <= Offset(x)
    BY <2>2, <2>4, <2>6 DEF TCP_SEQ_LEQ
  <2> QED BY <2>2, <2>7 DEF s, e
<1> HIDE DEF k, P
<1>7. \A i \in 1 .. k : End(segs[i]) <= Offset(x)
  BY <1>5, <1>6
<1>8. ASSUME k < n PROVE End(segs[k + 1]) > Offset(x)
  <2>1. k + 1 \in 1 .. n
    BY <1>1, <1>5, <1>8
  <2>2. ~P(k + 1)
    BY <1>5, <1>8, <2>1
  <2>3. Offset(x) \in Nat
    BY OffsetType
  <2> QED BY <1>6, <2>1, <2>2, <2>3
<1> QED BY <1>4, <1>5, <1>7, <1>8

\* The end of two queues, when all of the first or none of the second is cut.
LEMMA CutQueues ==
  ASSUME NEW a \in Seq(Segment), NEW b \in Seq(Segment), NEW i \in 0 .. Len(a), NEW j \in 0 .. Len(b),
         i = Len(a) \/ j = 0
  PROVE  /\ i + j \in 0 .. Len(a \o b)
         /\ SubSeq(a, i + 1, Len(a)) \o SubSeq(b, j + 1, Len(b)) = SubSeq(a \o b, i + j + 1, Len(a \o b))
<1> DEFINE c == a \o b
           d == SubSeq(a, i + 1, Len(a))
           e == SubSeq(b, j + 1, Len(b))
           f == SubSeq(c, i + j + 1, Len(c))
           g == d \o e
           n == Len(a)
           m == Len(b)
<1>1. /\ c \in Seq(Segment) /\ Len(c) = n + m /\ n \in Nat /\ m \in Nat
      /\ \A l \in 1 .. n : c[l] = a[l]
      /\ \A l \in 1 .. m : c[n + l] = b[l]
  BY Joined
<1>2. i \in Nat /\ j \in Nat /\ i <= n /\ j <= m /\ (i = n \/ j = 0)
  OBVIOUS
<1>3. d \in Seq(Segment) /\ Len(d) = n - i /\ \A l \in 1 .. n - i : d[l] = a[i + l]
  <2>1. i + 1 \in 1 .. n + 1 /\ n \in 0 .. n /\ i + 1 <= n + 1
    BY <1>1, <1>2
  <2>2. d \in Seq(Segment) /\ Len(d) = n - (i + 1) + 1 /\ \A l \in 1 .. n - (i + 1) + 1 : d[l] = a[(i + 1) + l - 1]
    BY <2>1, Part
  <2> HIDE DEF d, n
  <2>3. n - (i + 1) + 1 = n - i /\ \A l \in 1 .. n - i : (i + 1) + l - 1 = i + l
    BY <1>1, <1>2
  <2> QED BY <2>2, <2>3
<1>4. e \in Seq(Segment) /\ Len(e) = m - j /\ \A l \in 1 .. m - j : e[l] = b[j + l]
  <2>1. j + 1 \in 1 .. m + 1 /\ m \in 0 .. m /\ j + 1 <= m + 1
    BY <1>1, <1>2
  <2>2. e \in Seq(Segment) /\ Len(e) = m - (j + 1) + 1 /\ \A l \in 1 .. m - (j + 1) + 1 : e[l] = b[(j + 1) + l - 1]
    BY <2>1, Part
  <2> HIDE DEF e, m
  <2>3. m - (j + 1) + 1 = m - j /\ \A l \in 1 .. m - j : (j + 1) + l - 1 = j + l
    BY <1>1, <1>2
  <2> QED BY <2>2, <2>3
<1> HIDE DEF c, d, e, n, m
<1>5. f \in Seq(Segment) /\ Len(f) = n + m - i - j /\ \A l \in 1 .. n + m - i - j : f[l] = c[i + j + l]
  <2> DEFINE k == i + j
  <2>1. k + 1 \in 1 .. Len(c) + 1 /\ Len(c) \in 0 .. Len(c) /\ k + 1 <= Len(c) + 1 /\ k \in Nat
    BY <1>1, <1>2
  <2>2. f \in Seq(Segment) /\ Len(f) = Len(c) - (k + 1) + 1 /\ \A l \in 1 .. Len(c) - (k + 1) + 1 : f[l] = c[(k + 1) + l - 1]
    BY <1>1, <2>1, Part
  <2> HIDE DEF f
  <2>3. Len(c) - (k + 1) + 1 = n + m - i - j /\ \A l \in 1 .. n + m - i - j : (k + 1) + l - 1 = i + j + l
    BY <1>1, <1>2
  <2> HIDE DEF k
  <2> QED BY <2>2, <2>3
<1>6. /\ g \in Seq(Segment) /\ Len(g) = n - i + (m - j)
      /\ \A l \in 1 .. n - i : g[l] = d[l]
      /\ \A l \in n - i + 1 .. n - i + (m - j) : g[l] = e[l - (n - i)]
  <2>1. d \in Seq(Segment) /\ e \in Seq(Segment)
    BY <1>3, <1>4
  <2>2. /\ g \in Seq(Segment) /\ Len(g) = Len(d) + Len(e)
        /\ \A l \in 1 .. Len(d) : g[l] = d[l]
        /\ \A l \in Len(d) + 1 .. Len(d) + Len(e) : g[l] = e[l - Len(d)]
    BY <2>1, Joined
  <2>3. Len(d) = n - i /\ Len(e) = m - j
    BY <1>3, <1>4
  <2> HIDE DEF g
  <2> QED BY <2>2, <2>3
<1> HIDE DEF f, g
<1>7. Len(g) = Len(f) /\ Len(g) \in Nat
  BY <1>1, <1>2, <1>5, <1>6
<1>8. ASSUME NEW l \in 1 .. Len(g) PROVE g[l] = f[l]
  <2>0. l \in 1 .. n + m - i - j
    BY <1>5, <1>7
  <2>1. f[l] = c[i + j + l]
    BY <1>5, <2>0
  <2>2. CASE l <= n - i
    <3>1. l \in 1 .. n - i /\ i + l \in 1 .. n
      BY <1>1, <1>2, <2>2, <2>0
    <3>2. j = 0
      BY <1>1, <1>2, <2>0, <2>2
    <3>3. g[l] = a[i + l] /\ c[i + l] = a[i + l]
      BY <1>1, <1>3, <1>6, <3>1
    <3>4. i + j + l = i + l
      BY <1>2, <2>0, <3>2
    <3> QED BY <2>1, <3>3, <3>4
  <2>3. CASE l > n - i
    <3> DEFINE o == l - (n - i)
    <3>1. l \in n - i + 1 .. n - i + (m - j) /\ o \in 1 .. m - j /\ j + o \in 1 .. m
      BY <1>1, <1>2, <2>0, <2>3
    <3>2. g[l] = e[o] /\ e[o] = b[j + o] /\ c[n + (j + o)] = b[j + o]
      BY <1>1, <1>4, <1>6, <3>1
    <3>3. n + (j + o) = i + j + l
      BY <1>1, <1>2, <2>0
    <3> QED BY <2>1, <3>2, <3>3
  <2> QED BY <1>1, <1>2, <2>0, <2>2, <2>3
<1>9. g = f
  BY <1>5, <1>6, <1>7, <1>8, Same
<1>10. i + j \in 0 .. Len(c)
  BY <1>1, <1>2
<1> QED BY <1>9, <1>10 DEF c, d, e, f, g, n, m

\* What an ACK leaves of the two queues.
LEMMA FreedQueues ==
  ASSUME NEW q, q.unacked \in Seq(Segment), q.unsent \in Seq(Segment), Chain(Queued(q)),
         NEW x \in SeqNos, Offset(x) <= StreamLen + 2
  PROVE  LET u   == Unfreed(q.unacked, x)
             v   == Unfreed(q.unsent, x)
             all == Queued(q)
         IN /\ u \in Seq(Segment) /\ v \in Seq(Segment)
            /\ \A i \in 1 .. Len(u) : \E j \in 1 .. Len(q.unacked) : u[i] = q.unacked[j]
            /\ \E k \in 0 .. Len(all) :
                 /\ u \o v = SubSeq(all, k + 1, Len(all))
                 /\ \A i \in 1 .. k : End(all[i]) <= Offset(x)
                 /\ k < Len(all) => End(all[k + 1]) > Offset(x)
<1> DEFINE a == q.unacked
           b == q.unsent
           all == Queued(q)
           n == Len(a)
           m == Len(b)
           u == Unfreed(a, x)
           v == Unfreed(b, x)
           y == Offset(x)
<1>1. /\ all \in Seq(Segment) /\ Len(all) = n + m /\ n \in Nat /\ m \in Nat
      /\ \A i \in 1 .. n : all[i] = a[i] /\ a[i] \in Segment /\ Sane(a[i])
      /\ \A i \in 1 .. m : all[n + i] = b[i] /\ b[i] \in Segment /\ Sane(b[i])
      /\ \A i \in 1 .. n, j \in 1 .. m : End(a[i]) <= End(b[j])
  BY QueueFacts
<1>2. a \in Seq(Segment) /\ b \in Seq(Segment) /\ all = a \o b
  BY DEF Queued
<1> HIDE DEF a, b, all
<1>3. PICK i \in 0 .. n :
        /\ u = SubSeq(a, i + 1, n)
        /\ \A l \in 1 .. i : End(a[l]) <= y
        /\ i < n => End(a[i + 1]) > y
  BY <1>1, <1>2, UnfreedFacts
<1>4. PICK j \in 0 .. m :
        /\ v = SubSeq(b, j + 1, m)
        /\ \A l \in 1 .. j : End(b[l]) <= y
        /\ j < m => End(b[j + 1]) > y
  BY <1>1, <1>2, UnfreedFacts
<1>5. i \in Nat /\ i <= n /\ j \in Nat /\ j <= m /\ y \in Nat
  BY <1>1, OffsetType
<1>6. i = n \/ j = 0
  <2> SUFFICES ASSUME i # n, j # 0 PROVE FALSE
    OBVIOUS
  <2>1. i < n /\ i + 1 \in 1 .. n /\ 1 \in 1 .. j /\ 1 \in 1 .. m
    BY <1>1, <1>5
  <2>2. End(a[i + 1]) > y /\ End(b[1]) <= y /\ End(a[i + 1]) <= End(b[1])
    BY <1>1, <1>3, <1>4, <2>1
  <2>3. a[i + 1] \in Segment /\ b[1] \in Segment
    BY <1>1, <2>1
  <2>4. End(a[i + 1]) \in Nat /\ End(b[1]) \in Nat
    BY <2>3, SegmentFacts
  <2> QED BY <1>5, <2>2, <2>4
<1>7. u \in Seq(Segment) /\ Len(u) = n - i /\ \A l \in 1 .. n - i : u[l] = a[i + l]
  <2>1. i + 1 \in 1 .. n + 1 /\ n \in 0 .. n /\ i + 1 <= n + 1
    BY <1>1, <1>5
  <2> DEFINE d == SubSeq(a, i + 1, n)
  <2>2. d \in Seq(Segment) /\ Len(d) = n - (i + 1) + 1 /\ \A l \in 1 .. n - (i + 1) + 1 : d[l] = a[(i + 1) + l - 1]
    BY <1>2, <2>1, Part
  <2> HIDE DEF d, n
  <2>3. n - (i + 1) + 1 = n - i /\ \A l \in 1 .. n - i : (i + 1) + l - 1 = i + l
    BY <1>1, <1>5
  <2> QED BY <1>3, <2>2, <2>3 DEF d
<1>8. v \in Seq(Segment)
  <2>1. j + 1 \in 1 .. m + 1 /\ m \in 0 .. m /\ j + 1 <= m + 1
    BY <1>1, <1>5
  <2> QED BY <1>2, <1>4, <2>1, Part
<1>9. \A l \in 1 .. Len(u) : \E o \in 1 .. n : u[l] = a[o]
  <2> TAKE l \in 1 .. Len(u)
  <2>1. l \in 1 .. n - i /\ i + l \in 1 .. n
    BY <1>1, <1>5, <1>7
  <2> QED BY <1>7, <2>1
<1> DEFINE k == i + j
<1>10. k \in 0 .. Len(all) /\ u \o v = SubSeq(all, k + 1, Len(all))
  BY <1>2, <1>3, <1>4, <1>6, CutQueues, ZenonT(60)
<1>11. \A l \in 1 .. k : End(all[l]) <= y
  <2> TAKE l \in 1 .. k
  <2>1. CASE l <= i
    <3>1. l \in 1 .. i /\ l \in 1 .. n
      BY <1>1, <1>5, <2>1
    <3> QED BY <1>1, <1>3, <3>1
  <2>2. CASE l > i
    <3>1. i = n /\ l - n \in 1 .. j /\ l - n \in 1 .. m /\ n + (l - n) = l
      BY <1>1, <1>5, <1>6, <2>2
    <3>2. all[n + (l - n)] = b[l - n] /\ End(b[l - n]) <= y
      BY <1>1, <1>4, <3>1
    <3> QED BY <3>1, <3>2
  <2> QED BY <1>5, <2>1, <2>2
<1>12. ASSUME k < Len(all) PROVE End(all[k + 1]) > y
  <2>1. CASE i < n
    <3>1. j = 0 /\ k + 1 = i + 1 /\ i + 1 \in 1 .. n
      BY <1>1, <1>5, <1>6, <2>1
    <3> QED BY <1>1, <1>3, <2>1, <3>1
  <2>2. CASE i = n
    <3>1. j < m /\ j + 1 \in 1 .. m /\ k + 1 = n + (j + 1)
      BY <1>1, <1>5, <1>12, <2>2
    <3> QED BY <1>1, <1>4, <3>1, SMTT(30)
  <2> QED BY <1>1, <1>5, <2>1, <2>2
<1> HIDE DEF u, v, k, n, m
<1> QED BY <1>7, <1>8, <1>9, <1>10, <1>11, <1>12 DEF u, v, n, m, a, b, all

\* The peer's window after an ACK: nothing is taken back, so what is in flight
\* stays within it.
LEMMA AckIsReady ==
  ASSUME NEW q, NEW w, NEW pr, NEW split, Ready(q, w, pr, split),
         NEW x \in SeqNos, NEW wnd \in 0 .. PeerWnd, NEW c \in CWnds,
         Offset(x) > Offset(q.lastack), Offset(x) <= pr.nxt + One(pr.fin),
         wnd = 0 \/ Offset(x) + wnd <= pr.edge, Offset(x) + wnd >= Offset(q.lastack) + q.snd_wnd
  PROVE  Ready(AckNew([q EXCEPT !.snd_wnd = wnd, !.snd_wnd_max = MaxOf(q.snd_wnd_max, wnd),
                                !.snd_wl2 = x, !.persist_probe = 0], x, c), w, pr, split)
<1> DEFINE mx == MaxOf(q.snd_wnd_max, wnd)
           q1 == [q EXCEPT !.snd_wnd = wnd, !.snd_wnd_max = mx, !.snd_wl2 = x, !.persist_probe = 0]
           r == AckNew(q1, x, c)
           all == Queued(q)
           u == Unfreed(q.unacked, x)
           v == Unfreed(q.unsent, x)
           rest == u \o v
           bf == q.snd_buf + Bytes(all) - Bytes(rest)
           Q == Range(all)
           S == Q \cup w
           la == Offset(q.lastack)
           nx == Offset(q.snd_nxt)
           lbb == Offset(q.snd_lbb)
           y == Offset(x)
<1>1. /\ q \in Send /\ Numbers(q) /\ Flight(q) /\ pr \in Peers /\ split \in BOOLEAN
      /\ q.alive /\ WireInv(w, nx, pr)
      /\ FinInv(Q, S, lbb, q.finQueued, split)
      /\ PeerInv(Q, S, pr, la, nx, q.snd_wnd, q.finQueued, split)
      /\ q.snd_buf + Bytes(all) = TCP_SND_BUF
      /\ Linked(all, la, lbb, MssLocal(q))
  BY DEF Ready, Common, QueueInv
<1>2. /\ q.unacked \in Seq(Segment) /\ q.unsent \in Seq(Segment) /\ all \in Seq(Segment)
      /\ la \in Nat /\ nx \in Nat /\ lbb \in Nat /\ nx <= StreamLen + 2
      /\ q.snd_wnd \in Nat /\ q.snd_wnd_max \in Nat /\ q.snd_buf \in Nat /\ MssLocal(q) \in Nat
  BY <1>1, SendFacts
<1>3. y \in Nat /\ wnd \in Nat /\ wnd <= PeerWnd /\ PeerWnd \in Nat /\ StreamLen \in Nat /\ TCP_SND_BUF \in Nat
  BY OffsetType, Bounds
<1>4. y <= nx /\ y <= StreamLen + 2
  <2>1. pr.nxt + One(pr.fin) <= nx
    BY <1>1 DEF PeerInv
  <2>2. pr.nxt \in Nat /\ pr.fin \in BOOLEAN
    BY <1>1, Bounds DEF Peers
  <2>3. One(pr.fin) \in Int
    BY <2>2 DEF One
  <2>4. y <= pr.nxt + One(pr.fin)
    OBVIOUS
  <2> HIDE DEF y, nx
  <2> QED BY <1>2, <1>3, <2>1, <2>2, <2>3, <2>4, SMTT(30)
<1>5. q.snd_wnd_max \in 0 .. PeerWnd /\ q.snd_wnd_max >= 2
  BY <1>1 DEF Send, Numbers
<1>6. mx \in 0 .. PeerWnd /\ mx \in Nat /\ mx >= q.snd_wnd_max /\ mx >= wnd /\ mx >= 2
  <2>1. mx = IF q.snd_wnd_max <= wnd THEN wnd ELSE q.snd_wnd_max
    <3>1. q.snd_wnd_max \in Int /\ wnd \in Int
      BY <1>2, <1>3
    <3> QED BY <3>1, MinMax
  <2> HIDE DEF mx
  <2> QED BY <1>2, <1>3, <1>5, <2>1, SMTT(30)
<1>7. c \in Nat /\ c >= mss
  BY OutputAssumption
<1>8. /\ u \in Seq(Segment) /\ v \in Seq(Segment)
      /\ \A i \in 1 .. Len(u) : \E j \in 1 .. Len(q.unacked) : u[i] = q.unacked[j]
      /\ \E k \in 0 .. Len(all) :
           /\ rest = SubSeq(all, k + 1, Len(all))
           /\ \A i \in 1 .. k : End(all[i]) <= y
           /\ k < Len(all) => End(all[k + 1]) > y
  <2>1. Chain(all)
    BY <1>1 DEF Linked
  <2> QED BY <1>2, <1>4, <2>1, FreedQueues
<1>9. PICK k \in 0 .. Len(all) :
           /\ rest = SubSeq(all, k + 1, Len(all))
           /\ \A i \in 1 .. k : End(all[i]) <= y
           /\ k < Len(all) => End(all[k + 1]) > y
  BY <1>8
<1> HIDE DEF u, v, all, mx
<1>10. /\ rest \in Seq(Segment) /\ Linked(rest, y, lbb, MssLocal(q)) /\ Len(rest) = Len(all) - k
       /\ \A i \in 1 .. Len(all) - k : rest[i] = all[k + i]
       /\ Bytes(rest) \in Nat /\ Bytes(rest) <= Bytes(all)
  <2>1. y > la
    OBVIOUS
  <2> DEFINE m == MssLocal(q)
  <2>2. m \in Nat /\ Linked(all, la, lbb, m) /\ all \in Seq(Segment)
    BY <1>1, <1>2
  <2> HIDE DEF la, lbb, y, rest, m
  <2>3. la <= y
    BY <1>2, <1>3, <2>1
  <2>4. la \in Nat /\ lbb \in Nat /\ y \in Nat
    BY <1>2, <1>3
  <2>5. rest = SubSeq(all, k + 1, Len(all)) /\ \A i \in 1 .. k : End(all[i]) <= y
    BY <1>9
  <2>6. /\ rest \in Seq(Segment) /\ Linked(rest, y, lbb, m) /\ Len(rest) = Len(all) - k
        /\ \A i \in 1 .. Len(all) - k : rest[i] = all[k + i]
        /\ Bytes(rest) \in Nat /\ Bytes(rest) <= Bytes(all)
    <3> DEFINE d == SubSeq(all, k + 1, Len(all))
    <3>1. all \in Seq(Segment)
      BY <2>2
    <3>2. Linked(all, la, lbb, m)
      BY <2>2
    <3>3. la \in Nat
      BY <2>4
    <3>4. lbb \in Nat
      BY <2>4
    <3>5. m \in Nat
      BY <2>2
    <3>6. y \in Nat
      BY <2>4
    <3>7. \A i \in 1 .. k : End(all[i]) <= y
      BY <2>5
    <3>8. /\ d \in Seq(Segment) /\ Linked(d, y, lbb, m) /\ Len(d) = Len(all) - k
          /\ \A i \in 1 .. Len(all) - k : d[i] = all[k + i]
          /\ Bytes(d) \in Nat /\ Bytes(d) <= Bytes(all)
      BY <2>3, <3>1, <3>2, <3>3, <3>4, <3>5, <3>6, <3>7, LinkedDrop
    <3> QED BY <2>5, <3>8
  <2> QED BY <2>6 DEF m
<1>11. Bytes(all) \in Nat
  <2> DEFINE B == Bytes(all)
  <2>1. q.snd_buf + B = TCP_SND_BUF /\ Chain(all)
    BY <1>1 DEF Linked
  <2>2. B = IF all = <<>> THEN 0 ELSE Stop(Last(all)) - Start(all[1])
    BY <1>2, <2>1, ChainBytes
  <2>3. CASE all = <<>>
    BY <2>2, <2>3
  <2>4. CASE all # <<>>
    <3> DEFINE n == Len(all)
    <3>1. n \in 1 .. n /\ 1 \in 1 .. n /\ 1 <= n /\ Last(all) = all[n]
      BY <1>2, <2>4 DEF Last
    <3>2. all[1] \in Segment /\ all[n] \in Segment /\ Start(all[1]) <= Start(all[n])
      BY <1>2, <2>1, <3>1, ChainEnds, SMTT(30)
    <3>3. Start(all[1]) \in Nat /\ Start(all[n]) \in Nat /\ Stop(all[n]) \in Nat /\ Start(all[n]) <= Stop(all[n])
      BY <3>2, SegmentFacts
    <3>4. B = Stop(all[n]) - Start(all[1])
      BY <2>2, <2>4, <3>1
    <3> HIDE DEF B, n
    <3>5. B \in Nat
      BY <3>2, <3>3, <3>4
    <3> QED BY <3>5 DEF B
  <2> QED BY <2>3, <2>4
<1> HIDE DEF rest
<1>12. bf \in 0 .. TCP_SND_BUF /\ bf + Bytes(rest) = TCP_SND_BUF
  <2> DEFINE B == Bytes(all)
             R == Bytes(rest)
  <2>1. B \in Nat /\ R \in Nat /\ R <= B /\ q.snd_buf + B = TCP_SND_BUF
    BY <1>1, <1>10, <1>11
  <2> HIDE DEF B, R
  <2>2. q.snd_buf \in Nat /\ TCP_SND_BUF \in Nat
    BY <1>2, <1>3
  <2>3. q.snd_buf + B - R \in 0 .. TCP_SND_BUF /\ q.snd_buf + B - R + R = TCP_SND_BUF
    BY <2>1, <2>2, SMTT(30)
  <2> QED BY <2>3 DEF B, R
<1>13. /\ q1.unacked = q.unacked /\ q1.unsent = q.unsent /\ q1.snd_buf = q.snd_buf
       /\ q1 \in Send /\ Queued(q1) = all
       /\ q1.snd_nxt = q.snd_nxt /\ q1.snd_lbb = q.snd_lbb /\ q1.snd_wnd = wnd /\ q1.snd_wnd_max = mx
       /\ q1.snd_wl2 = x /\ q1.persist = q.persist /\ q1.finQueued = q.finQueued /\ q1.alive = q.alive
  <2>1. TCP_MAXRTX \in Nat /\ 0 \in 0 .. TCP_MAXRTX
    BY Bounds
  <2>2. /\ q1.unacked = q.unacked /\ q1.unsent = q.unsent /\ q1.snd_buf = q.snd_buf
        /\ q1 \in Send
        /\ q1.snd_nxt = q.snd_nxt /\ q1.snd_lbb = q.snd_lbb /\ q1.snd_wnd = wnd /\ q1.snd_wnd_max = mx
        /\ q1.snd_wl2 = x /\ q1.persist = q.persist /\ q1.finQueued = q.finQueued /\ q1.alive = q.alive
    BY <1>1, <1>6, <2>1, ZenonT(60) DEF Send
  <2> QED BY <2>2 DEF Queued, all
<1> HIDE DEF q1
<1>14. r = [q1 EXCEPT !.unacked = u, !.unsent = v, !.lastack = x, !.snd_buf = bf,
                      !.infr = FALSE, !.nrtx = 0, !.dupacks = 0, !.cwnd = c, !.rtxTimer = (u # <<>>)]
  <2>1. Unfreed(q1.unacked, x) = u /\ Unfreed(q1.unsent, x) = v
    BY <1>13 DEF u, v
  <2>2. Bytes(Queued(q1)) = Bytes(all) /\ Bytes(u \o v) = Bytes(rest)
    BY <1>13 DEF rest
  <2> QED BY <1>13, <2>1, <2>2 DEF AckNew
<1> HIDE DEF r, bf
<1>15. /\ r \in Send /\ r.unacked = u /\ r.unsent = v /\ r.lastack = x /\ r.snd_buf = bf /\ r.cwnd = c
       /\ r.rtxTimer = (u # <<>>) /\ r.persist = q.persist /\ r.snd_nxt = q.snd_nxt /\ r.snd_lbb = q.snd_lbb
       /\ r.snd_wnd = wnd /\ r.snd_wnd_max = mx /\ r.snd_wl2 = x /\ r.finQueued = q.finQueued
       /\ r.alive = q.alive
  <2>1. 0 \in 0 .. TCP_MAXRTX /\ 0 \in 0 .. 3 /\ (u # <<>>) \in BOOLEAN
    BY Bounds
  <2> QED BY <1>7, <1>8, <1>12, <1>13, <1>14, <2>1, ZenonT(60) DEF Send
<1>16. Queued(r) = rest
  BY <1>15 DEF Queued, rest
<1>17. Numbers(r)
  <2>1. nx <= lbb + One(q.finQueued) /\ lbb <= StreamLen + One(q.finQueued)
    BY <1>1 DEF Numbers
  <2>2. Offset(r.lastack) = y /\ Offset(r.snd_nxt) = nx /\ Offset(r.snd_lbb) = lbb
    BY <1>15
  <2> QED BY <1>4, <1>6, <1>7, <1>15, <2>1, <2>2 DEF Numbers
<1>18. Flight(r)
  <2>1. ASSUME u # <<>> PROVE ~q.persist
    <3>1. 1 \in 1 .. Len(u)
      BY <1>8, <2>1
    <3>2. PICK j \in 1 .. Len(q.unacked) : u[1] = q.unacked[j]
      BY <1>8, <3>1
    <3>3. q.unacked # <<>>
      BY <3>2
    <3> QED BY <1>1, <3>3 DEF Flight
  <2>2. ASSUME NEW i \in 1 .. Len(u) PROVE Stop(u[i]) <= y + wnd
    <3>1. PICK j \in 1 .. Len(q.unacked) : u[i] = q.unacked[j]
      BY <1>8
    <3>2. q.unacked[j] \in Segment
      BY <1>2, SMTT(30)
    <3>3. Stop(q.unacked[j]) \in Nat
      BY <3>2, SegmentFacts
    <3>4. Stop(q.unacked[j]) <= la + q.snd_wnd
      BY <1>1 DEF Flight
    <3>5. y + wnd >= la + q.snd_wnd
      OBVIOUS
    <3> HIDE DEF y, la
    <3>6. Stop(q.unacked[j]) <= y + wnd
      BY <1>2, <1>3, <3>3, <3>4, <3>5, SMTT(30)
    <3> QED BY <3>1, <3>6
  <2> QED BY <1>15, <2>1, <2>2 DEF Flight
<1>19. FirstIsNew(r)
  <2>1. ASSUME rest # <<>> PROVE y <= Stop(rest[1])
    <3>1. Len(rest) >= 1 /\ Len(all) \in Nat /\ Len(rest) \in Nat
      BY <1>2, <1>10, <2>1, SMTT(30)
    <3>2. k < Len(all) /\ 1 \in 1 .. Len(all) - k /\ k + 1 \in 1 .. Len(all)
      BY <1>10, <3>1
    <3>3. rest[1] = all[k + 1] /\ End(all[k + 1]) > y /\ all[k + 1] \in Segment
      BY <1>2, <1>9, <1>10, <3>2
    <3>4. End(all[k + 1]) \in Nat /\ Stop(all[k + 1]) \in Nat /\ End(all[k + 1]) <= Stop(all[k + 1]) + 1
      BY <3>3, SegmentFacts
    <3>5. y <= Stop(all[k + 1])
      <4> HIDE DEF y
      <4> QED BY <1>3, <3>3, <3>4
    <3> QED BY <3>3, <3>5
  <2> QED BY <1>15, <1>16, <2>1 DEF FirstIsNew
<1>20. QueueInv(r)
  <2>1. r.snd_wnd_max \in Nat /\ r.snd_wnd_max >= q.snd_wnd_max /\ r.snd_wnd_max >= 2
    BY <1>6, <1>15
  <2>2. MssLocal(r) \in Nat /\ MssLocal(q) <= MssLocal(r)
    BY <1>2, <1>5, <2>1, MssFacts
  <2>3. Linked(rest, y, lbb, MssLocal(r))
    <3> HIDE DEF y, lbb
    <3> QED BY <1>2, <1>10, <2>2, LinkedWider
  <2> QED BY <1>12, <1>15, <1>16, <1>19, <2>3 DEF QueueInv
<1> DEFINE Q2 == Range(rest)
           S2 == Q2 \cup w
<1>21. Q2 \subseteq Q /\ S2 \subseteq S
  <2>1. Len(all) \in Nat /\ DOMAIN rest = 1 .. Len(all) - k /\ DOMAIN all = 1 .. Len(all)
    BY <1>2, <1>10, SMTT(30)
  <2>2. \A i \in 1 .. Len(all) - k : k + i \in 1 .. Len(all)
    BY <2>1
  <2>3. Q2 \subseteq Q
    BY <1>10, <2>1, <2>2 DEF Range
  <2> QED BY <2>3
<1>22. FinInv(Q2, S2, lbb, q.finQueued, split)
  <2> HIDE DEF Q, S, Q2, S2, lbb
  <2> QED BY <1>1, <1>21, FinMonotone
<1>23. PeerInv(Q2, S2, pr, y, nx, wnd, q.finQueued, split)
  <2>1. PeerInv(Q2, S2, pr, la, nx, q.snd_wnd, q.finQueued, split)
    <3>1. nx <= nx
      BY <1>2
    <3> HIDE DEF Q, S, Q2, S2, la, nx
    <3> QED BY <1>1, <1>2, <1>21, <3>1, PeerMonotone
  <2>2. y <= pr.nxt + One(pr.fin) /\ (wnd = 0 \/ y + wnd <= pr.edge)
    OBVIOUS
  <2> HIDE DEF Q2, S2, la, nx, y
  <2> QED BY <2>1, <2>2 DEF PeerInv
<1>24. Common(r, w, pr, split)
  <2>1. Range(Queued(r)) = Q2 /\ Range(Queued(r)) \cup w = S2
    BY <1>16
  <2>2. Offset(r.lastack) = y /\ Offset(r.snd_nxt) = nx /\ Offset(r.snd_lbb) = lbb
    BY <1>15
  <2> HIDE DEF Q2, S2, y, nx, lbb
  <2> QED BY <1>1, <1>15, <1>17, <1>18, <1>22, <1>23, <2>1, <2>2 DEF Common
<1>25. Ready(r, w, pr, split)
  BY <1>1, <1>15, <1>20, <1>24 DEF Ready
<1> QED BY <1>25 DEF r, q1, mx

\* An ACK of nothing new: the window may grow, and the third one in a row makes
\* the first segment be sent again.
LEMMA OldAckKeeps ==
  ASSUME Ready(snd, wire, peer, finSplit), fails \in 0 .. MaxFail,
         NEW x \in SeqNos, NEW wnd \in 0 .. PeerWnd, NEW c, Ack(x, wnd, c),
         Offset(x) <= Offset(snd.lastack), wnd = 0 \/ Offset(x) + wnd <= peer.edge
  PROVE  OutInv'
<1> DEFINE q0 == UpdateWindow(snd, x, wnd)
           q == [q0 EXCEPT !.persist_probe = 0]
           mx == MaxOf(snd.snd_wnd_max, wnd)
           r == [q EXCEPT !.dupacks = MinOf(q.dupacks + 1, 3)]
           t == tcp_receive(snd, x, wnd, c)
           la == Offset(snd.lastack)
<1>1. /\ snd \in Send /\ Numbers(snd) /\ Flight(snd) /\ FirstIsNew(snd) /\ snd.snd_wl2 = snd.lastack
      /\ snd.cwnd >= mss
  BY DEF Ready, Common, QueueInv, Numbers
<1>2. /\ la \in Nat /\ la <= StreamLen + 2 /\ StreamLen + 2 < SEQ \div 2 /\ StreamLen \in Nat
      /\ snd.snd_wnd \in Nat /\ snd.snd_wnd_max \in Nat /\ snd.lastack \in SeqNos
  <2>1. snd.lastack \in SeqNos /\ StreamLen \in Nat
    BY <1>1, Bounds DEF Send
  <2> QED BY <1>1, <2>1, SendFacts
<1>3. Offset(x) \in Nat /\ wnd \in Nat /\ SEQ \div 2 \in Nat
  BY OffsetType, Bounds
<1>4. ~TCP_SEQ_LT(snd.lastack, x)
  <2>1. Offset(x) <= la
    OBVIOUS
  <2>2. Offset(snd.lastack) < SEQ \div 2 /\ Offset(x) < SEQ \div 2
    BY <1>2, <1>3, <2>1
  <2>3. TCP_SEQ_LT(snd.lastack, x) <=> la < Offset(x)
    BY <1>2, <2>2, LessThan
  <2> HIDE DEF la
  <2> QED BY <1>2, <1>3, <2>1, <2>3
<1>5. /\ q \in Send /\ q.unacked = snd.unacked /\ q.unsent = snd.unsent
      /\ q.lastack = snd.lastack /\ q.snd_nxt = snd.snd_nxt /\ q.snd_lbb = snd.snd_lbb /\ q.snd_buf = snd.snd_buf
      /\ q.snd_wl2 = snd.snd_wl2 /\ q.finQueued = snd.finQueued /\ q.alive = snd.alive /\ q.cwnd = snd.cwnd
      /\ q.persist = snd.persist /\ q.rtxTimer = snd.rtxTimer
      /\ snd.snd_wnd <= q.snd_wnd /\ snd.snd_wnd_max <= q.snd_wnd_max /\ q.snd_wnd <= q.snd_wnd_max
      /\ q.snd_wnd = snd.snd_wnd \/ la + q.snd_wnd <= peer.edge
  <2>0. 0 \in 0 .. TCP_MAXRTX
    BY Bounds
  <2>1. CASE snd.lastack = x /\ wnd > snd.snd_wnd
    <3>1. q0 = [snd EXCEPT !.snd_wnd = wnd, !.snd_wnd_max = mx, !.snd_wl2 = x]
      BY <1>1, <2>1 DEF UpdateWindow
    <3>2. mx \in 0 .. PeerWnd /\ mx >= wnd /\ mx >= snd.snd_wnd_max
      <4>1. mx = IF snd.snd_wnd_max <= wnd THEN wnd ELSE snd.snd_wnd_max
        <5>1. snd.snd_wnd_max \in Int /\ wnd \in Int
          BY <1>2, <1>3
        <5> QED BY <5>1, MinMax
      <4>2. snd.snd_wnd_max \in 0 .. PeerWnd
        BY <1>1 DEF Send
      <4> HIDE DEF mx
      <4> QED BY <1>2, <1>3, <4>1, <4>2
    <3> HIDE DEF q0, mx
    <3>3. /\ q \in Send /\ q.unacked = snd.unacked /\ q.unsent = snd.unsent
          /\ q.lastack = snd.lastack /\ q.snd_nxt = snd.snd_nxt /\ q.snd_lbb = snd.snd_lbb /\ q.snd_buf = snd.snd_buf
          /\ q.snd_wl2 = x /\ q.finQueued = snd.finQueued /\ q.alive = snd.alive /\ q.cwnd = snd.cwnd
          /\ q.persist = snd.persist /\ q.rtxTimer = snd.rtxTimer
          /\ q.snd_wnd = wnd /\ q.snd_wnd_max = mx
      BY <1>1, <2>0, <3>1, <3>2 DEF Send
    <3>4. wnd # 0 /\ snd.snd_wnd <= wnd
      BY <1>2, <1>3, <2>1
    <3>5. la + wnd <= peer.edge
      BY <2>1, <3>4
    <3> HIDE DEF q
    <3> QED BY <1>1, <2>1, <3>2, <3>3, <3>4, <3>5
  <2>2. CASE ~(snd.lastack = x /\ wnd > snd.snd_wnd)
    <3>1. q0 = snd
      BY <1>1, <1>4, <2>2 DEF UpdateWindow
    <3> HIDE DEF q0
    <3>2. /\ q \in Send /\ q.unacked = snd.unacked /\ q.unsent = snd.unsent
          /\ q.lastack = snd.lastack /\ q.snd_nxt = snd.snd_nxt /\ q.snd_lbb = snd.snd_lbb /\ q.snd_buf = snd.snd_buf
          /\ q.snd_wl2 = snd.snd_wl2 /\ q.finQueued = snd.finQueued /\ q.alive = snd.alive /\ q.cwnd = snd.cwnd
          /\ q.persist = snd.persist /\ q.rtxTimer = snd.rtxTimer
          /\ q.snd_wnd = snd.snd_wnd /\ q.snd_wnd_max = snd.snd_wnd_max
      BY <1>1, <2>0, <3>1 DEF Send
    <3>3. snd.snd_wnd <= snd.snd_wnd /\ snd.snd_wnd_max <= snd.snd_wnd_max /\ snd.snd_wnd <= snd.snd_wnd_max
      BY <1>1, <1>2 DEF Numbers
    <3> HIDE DEF q
    <3> QED BY <3>2, <3>3
  <2> QED BY <2>1, <2>2
<1>6. t = AckOld(q, snd, x)
  <2>1. TCP_SEQ_LEQ(x, q.lastack)
    <3> HIDE DEF q
    <3> QED BY <1>4, <1>5 DEF TCP_SEQ_LEQ
  <2> QED BY <2>1 DEF tcp_receive
<1> HIDE DEF q, q0
<1>7. Ready(q, wire, peer, finSplit)
  BY <1>5, WindowIsReady
<1>8. q \in Send /\ Flight(q) /\ FirstIsNew(q) /\ q.cwnd >= mss
  BY <1>7 DEF Ready, Common, QueueInv, Numbers
<1>9. q.dupacks \in 0 .. 3 /\ MinOf(q.dupacks + 1, 3) \in 0 .. 3
  <2>1. q.dupacks \in 0 .. 3
    BY <1>8 DEF Send
  <2>2. q.dupacks + 1 \in Int /\ 3 \in Int
    BY <2>1
  <2>3. MinOf(q.dupacks + 1, 3) = IF q.dupacks + 1 <= 3 THEN q.dupacks + 1 ELSE 3
    BY <2>2, MinMax
  <2> QED BY <2>1, <2>3
<1>10. /\ r \in Send /\ r.unacked = q.unacked /\ r.unsent = q.unsent
       /\ r.lastack = q.lastack /\ r.snd_nxt = q.snd_nxt /\ r.snd_lbb = q.snd_lbb /\ r.snd_buf = q.snd_buf
       /\ r.snd_wl2 = q.snd_wl2 /\ r.finQueued = q.finQueued /\ r.alive = q.alive /\ r.cwnd = q.cwnd
       /\ r.persist = q.persist /\ r.rtxTimer = q.rtxTimer
       /\ r.snd_wnd = q.snd_wnd /\ r.snd_wnd_max = q.snd_wnd_max
  BY <1>8, <1>9 DEF Send
<1>11. t = q \/ t = r \/ (t = Fast(r) /\ r.unacked # <<>>)
  <2>1. t = q \/ t = (IF r.dupacks = 3 THEN tcp_rexmit_fast(r) ELSE r)
    <3> HIDE DEF t
    <3> QED BY <1>6 DEF AckOld
  <2> HIDE DEF t, r
  <2>2. tcp_rexmit_fast(r) = r \/ (tcp_rexmit_fast(r) = Fast(r) /\ r.unacked # <<>>)
    BY DEF tcp_rexmit_fast, Fast
  <2> QED BY <2>1, <2>2
<1> HIDE DEF r, t
<1>12. Queued(r) = Queued(q) /\ Flight(r) /\ FirstIsNew(r)
  BY <1>8, <1>10 DEF Queued, Flight, FirstIsNew
<1>13. Ready(r, wire, peer, finSplit)
  BY <1>7, <1>8, <1>10, <1>12, Reset
<1>14. Output(t) /\ peer' = peer /\ finSplit' = finSplit /\ fails' \in 0 .. MaxFail
  BY DEF Ack, t
<1>15. CASE t = q
  <2>1. Ready(q, wire, peer, finSplit') /\ Output(q)
    BY <1>7, <1>14, <1>15
  <2> QED BY <1>14, <2>1, OutputKeeps
<1>16. CASE t = r
  <2>1. Ready(r, wire, peer, finSplit') /\ Output(r)
    BY <1>13, <1>14, <1>16
  <2> QED BY <1>14, <2>1, OutputKeeps
<1>17. CASE t = Fast(r) /\ r.unacked # <<>>
  <2>1. Ready(r, wire, peer, finSplit') /\ Output(Fast(r)) /\ r.unacked # <<>>
    BY <1>13, <1>14, <1>17
  <2> QED BY <1>14, <2>1, FastKeeps
<1> QED BY <1>11, <1>15, <1>16, <1>17

\* An ACK of new data.
LEMMA NewAckKeeps ==
  ASSUME Ready(snd, wire, peer, finSplit), fails \in 0 .. MaxFail,
         NEW x \in SeqNos, NEW wnd \in 0 .. PeerWnd, NEW c \in CWnds, Ack(x, wnd, c),
         Offset(x) > Offset(snd.lastack), Offset(x) <= peer.nxt + One(peer.fin),
         Offset(x) <= Offset(snd.snd_nxt),
         wnd = 0 \/ Offset(x) + wnd <= peer.edge,
         Offset(x) + wnd >= Offset(snd.lastack) + snd.snd_wnd
  PROVE  OutInv'
<1> DEFINE mx == MaxOf(snd.snd_wnd_max, wnd)
           q0 == [snd EXCEPT !.snd_wnd = wnd, !.snd_wnd_max = mx, !.snd_wl2 = x]
           q1 == [q0 EXCEPT !.persist_probe = 0]
           q == [snd EXCEPT !.snd_wnd = wnd, !.snd_wnd_max = mx, !.snd_wl2 = x, !.persist_probe = 0]
           r == AckNew(q, x, c)
           t == tcp_receive(snd, x, wnd, c)
           la == Offset(snd.lastack)
           nx == Offset(snd.snd_nxt)
           y == Offset(x)
<1>1. snd \in Send /\ Numbers(snd) /\ snd.snd_wl2 = snd.lastack
  BY DEF Ready, Common, Numbers
<1>2. /\ la \in Nat /\ la <= StreamLen + 2 /\ nx \in Nat /\ nx <= StreamLen + 2
      /\ StreamLen + 2 < SEQ \div 2 /\ StreamLen \in Nat
      /\ snd.lastack \in SeqNos /\ snd.snd_nxt \in SeqNos
  <2>1. snd.lastack \in SeqNos /\ snd.snd_nxt \in SeqNos /\ StreamLen \in Nat
    BY <1>1, Bounds DEF Send
  <2> QED BY <1>1, <2>1, SendFacts
<1>3. y \in Nat /\ SEQ \div 2 \in Nat /\ la < y /\ y <= nx
  BY <1>2, OffsetType, Bounds
<1>4. Offset(snd.lastack) < SEQ \div 2 /\ Offset(snd.snd_nxt) < SEQ \div 2 /\ Offset(x) < SEQ \div 2
  <2>1. la < SEQ \div 2 /\ nx < SEQ \div 2 /\ y < SEQ \div 2
    <3> HIDE DEF la, nx, y
    <3> QED BY <1>2, <1>3
  <2> QED BY <2>1
<1>5. TCP_SEQ_LT(snd.lastack, x)
  <2>1. TCP_SEQ_LT(snd.lastack, x) <=> la < y
    BY <1>2, <1>4, LessThan
  <2> QED BY <1>3, <2>1
<1>6. ~TCP_SEQ_LT(snd.snd_nxt, x)
  <2>1. TCP_SEQ_LT(snd.snd_nxt, x) <=> nx < y
    BY <1>2, <1>4, LessThan
  <2> HIDE DEF nx, y
  <2> QED BY <1>2, <1>3, <2>1
<1>7. UpdateWindow(snd, x, wnd) = q0
  BY <1>1, <1>5 DEF UpdateWindow
<1>8. q1 = q /\ q.lastack = snd.lastack /\ q.snd_nxt = snd.snd_nxt
  <2> HIDE DEF mx
  <2> QED BY <1>1 DEF Send
<1>9. t = r
  <2>1. [UpdateWindow(snd, x, wnd) EXCEPT !.persist_probe = 0] = q
    BY <1>7, <1>8
  <2>2. ~TCP_SEQ_LEQ(x, q.lastack) /\ TCP_SEQ_LEQ(x, q.snd_nxt)
    <3> HIDE DEF q
    <3> QED BY <1>5, <1>6, <1>8 DEF TCP_SEQ_LEQ
  <2> HIDE DEF q
  <2> QED BY <2>1, <2>2 DEF tcp_receive
<1>10. Ready(r, wire, peer, finSplit)
  BY AckIsReady
<1> HIDE DEF r, t
<1>11. Output(t) /\ peer' = peer /\ finSplit' = finSplit /\ fails' \in 0 .. MaxFail
  BY DEF Ack, t
<1>12. Ready(r, wire, peer, finSplit') /\ Output(r)
  BY <1>9, <1>10, <1>11
<1> QED BY <1>11, <1>12, OutputKeeps

\* An ACK, new or old, that the peer may have sent.
LEMMA AckArrivesKeeps ==
  ASSUME OutInv, AckArrives
  PROVE  OutInv'
<1>1. PICK a \in 0 .. PeerAck, wnd \in 0 .. PeerWnd, c \in CWnds :
        /\ a + wnd <= MaxOf(a, peer.edge)
        /\ a > Offset(snd.snd_wl2) => a + wnd >= Offset(snd.snd_wl2) + snd.snd_wnd
        /\ Ack(Add(ISS, a), wnd, c)
  BY DEF AckArrives
<1> DEFINE x == Add(ISS, a)
           la == Offset(snd.lastack)
           nx == Offset(snd.snd_nxt)
           pa == PeerAck
<1>2. snd.alive
  BY <1>1 DEF Ack
<1>3. Ready(snd, wire, peer, finSplit) /\ fails \in 0 .. MaxFail
  BY <1>2, AliveIsReady
<1>4. /\ snd \in Send /\ Numbers(snd) /\ snd.snd_wl2 = snd.lastack /\ peer \in Peers
      /\ peer.nxt + One(peer.fin) <= nx
  BY <1>3 DEF Ready, Common, Numbers, PeerInv
<1>5. nx \in Nat /\ nx <= StreamLen + 2 /\ la \in Nat /\ StreamLen + 2 < SEQ \div 2
  BY <1>4, SendFacts
<1>6. peer.edge \in Nat /\ peer.nxt \in Nat /\ peer.fin \in BOOLEAN
  BY <1>4, Bounds DEF Peers
<1>7. pa \in Nat /\ pa <= nx /\ pa = peer.nxt + One(peer.fin)
  <2>1. One(peer.fin) \in Nat
    BY <1>6 DEF One
  <2>2. pa = peer.nxt + One(peer.fin)
    BY DEF PeerAck
  <2> HIDE DEF pa, nx
  <2> QED BY <1>4, <1>6, <2>1, <2>2
<1>8. a \in Nat /\ a <= pa /\ a <= nx /\ wnd \in Nat /\ a < SEQ
  <2>1. a \in 0 .. pa /\ wnd \in 0 .. PeerWnd /\ PeerWnd \in Nat /\ StreamLen \in Nat
        /\ SEQ \in Nat /\ SEQ \div 2 \in Nat /\ 2 * (SEQ \div 2) = SEQ
    BY Bounds
  <2> HIDE DEF pa, nx
  <2> QED BY <1>5, <1>7, <2>1
<1>9. x \in SeqNos /\ Offset(x) = a
  BY <1>8, OffsetISS
<1>10. wnd = 0 \/ a + wnd <= peer.edge
  <2>1. MaxOf(a, peer.edge) = IF a <= peer.edge THEN peer.edge ELSE a
    <3>1. a \in Int /\ peer.edge \in Int
      BY <1>6, <1>8
    <3> QED BY <3>1, MinMax
  <2>2. a + wnd <= MaxOf(a, peer.edge)
    BY <1>1
  <2> QED BY <1>6, <1>8, <2>1, <2>2
<1>11. Ack(x, wnd, c)
  BY <1>1
<1> HIDE DEF x
<1>12. CASE a <= la
  <2>1. Offset(x) <= Offset(snd.lastack) /\ (wnd = 0 \/ Offset(x) + wnd <= peer.edge)
    BY <1>9, <1>10, <1>12
  <2> QED BY <1>3, <1>9, <1>11, <2>1, OldAckKeeps
<1>13. CASE a > la
  <2>1. a + wnd >= la + snd.snd_wnd
    BY <1>1, <1>4, <1>13
  <2>2. /\ Offset(x) > Offset(snd.lastack) /\ Offset(x) <= peer.nxt + One(peer.fin)
        /\ Offset(x) <= Offset(snd.snd_nxt)
        /\ wnd = 0 \/ Offset(x) + wnd <= peer.edge
        /\ Offset(x) + wnd >= Offset(snd.lastack) + snd.snd_wnd
    <3>1. a <= peer.nxt + One(peer.fin)
      BY <1>7, <1>8
    <3> QED BY <1>8, <1>9, <1>10, <1>13, <2>1, <3>1
  <2> QED BY <1>3, <1>9, <1>11, <2>2, NewAckKeeps
<1> QED BY <1>5, <1>8, <1>12, <1>13

-----------------------------------------------------------------------------
(* The theorems.                                                           *)

\* The connection as the handshake leaves it.
LEMMA InitKeeps ==
  ASSUME Init
  PROVE  OutInv
<1>1. PICK c \in CWnds : snd = [InitialSnd EXCEPT !.cwnd = c]
  BY DEF Init
<1>2. /\ wire = {} /\ peer = [nxt |-> 0, edge |-> FirstWnd, fin |-> FALSE] /\ fails = 0 /\ finSplit = FALSE
  BY DEF Init
<1>3. c \in Nat /\ c >= mss
  BY OutputAssumption
<1>0. <<>> \in Seq(Segment) /\ Len(<<>>) = 0
  OBVIOUS
<1>4. /\ snd.unsent = <<>> /\ snd.unacked = <<>> /\ snd.snd_nxt = ISS /\ snd.lastack = ISS /\ snd.snd_lbb = ISS
      /\ snd.snd_buf = TCP_SND_BUF /\ snd.snd_wnd = FirstWnd /\ snd.snd_wnd_max = FirstWnd /\ snd.snd_wl2 = ISS
      /\ snd.cwnd = c /\ snd.finQueued = FALSE /\ snd.alive
  BY <1>1 DEF InitialSnd
<1>5. snd \in Send
  <2>1. /\ ISS \in SeqNos /\ TCP_SND_BUF \in 0 .. TCP_SND_BUF /\ FirstWnd \in 0 .. PeerWnd
        /\ 0 \in 0 .. TCP_MAXRTX /\ 0 \in 0 .. 3 /\ mss \in Nat
    BY Bounds
  <2> QED BY <1>0, <1>1, <1>3, <2>1 DEF InitialSnd, Send
<1>6. Queued(snd) = <<>> /\ Range(Queued(snd)) = {}
  <2>1. Queued(snd) = <<>>
    BY <1>0, <1>4, ConcatEmptySeq DEF Queued
  <2>2. DOMAIN <<>> = {}
    OBVIOUS
  <2> QED BY <2>1, <2>2 DEF Range
<1>7. Offset(snd.lastack) = 0 /\ Offset(snd.snd_nxt) = 0 /\ Offset(snd.snd_lbb) = 0
  BY <1>4, OffsetISS
<1>8. One(FALSE) = 0
  BY DEF One
<1>9. FirstWnd \in Nat /\ FirstWnd >= 2 /\ StreamLen \in Nat /\ PeerWnd \in Nat /\ FirstWnd <= PeerWnd
  BY Bounds
<1>10. Numbers(snd)
  <2>1. 0 <= 0 + 0 /\ 0 <= StreamLen + 0 /\ FirstWnd <= FirstWnd
    BY <1>9
  <2>2. One(snd.finQueued) = 0 /\ snd.snd_wl2 = snd.lastack /\ snd.cwnd >= mss
    BY <1>3, <1>4, <1>8
  <2>3. snd.snd_wnd <= snd.snd_wnd_max /\ snd.snd_wnd_max >= 2
    BY <1>4, <1>9
  <2> QED BY <1>7, <2>1, <2>2, <2>3 DEF Numbers
<1>11. Flight(snd) /\ FirstIsNew(snd) /\ Busy(snd)
  BY <1>0, <1>4, <1>6 DEF Flight, FirstIsNew, Busy
<1>12. QueueInv(snd)
  <2> DEFINE e == Queued(snd)
  <2>1. e = <<>> /\ e \in Seq(Segment) /\ Len(e) = 0
    BY <1>0, <1>6
  <2> HIDE DEF e
  <2>2. Chain(e)
    BY <2>1 DEF Chain
  <2>3. Bytes(e) = 0
    BY <2>1, <2>2, ChainBytes
  <2>4. Linked(e, 0, 0, MssLocal(snd))
    BY <2>1, <2>2 DEF Linked
  <2>5. TCP_SND_BUF + 0 = TCP_SND_BUF
    BY Bounds
  <2> QED BY <1>4, <1>7, <1>11, <2>3, <2>4, <2>5 DEF QueueInv, e
<1>13. peer \in Peers /\ peer.nxt = 0 /\ peer.edge = FirstWnd /\ peer.fin = FALSE
  <2>1. 0 \in 0 .. StreamLen /\ FirstWnd \in FirstWnd .. StreamLen + PeerWnd
    BY <1>9
  <2> QED BY <1>2, <2>1 DEF Peers
<1>14. FinInv({}, {}, 0, FALSE, FALSE)
  BY DEF FinInv
<1>15. PeerInv({}, {}, peer, 0, 0, FirstWnd, FALSE, FALSE)
  <2>1. 0 <= FirstWnd /\ 0 + 0 <= 0 /\ 0 <= 0 + 0 /\ 0 + FirstWnd <= FirstWnd
    BY <1>9
  <2> QED BY <1>8, <1>13, <2>1 DEF PeerInv
<1>16. Common(snd, wire, peer, finSplit)
  <2>1. WireInv({}, 0, peer)
    BY DEF WireInv
  <2>2. Range(Queued(snd)) \cup wire = {}
    BY <1>2, <1>6
  <2> QED BY <1>2, <1>4, <1>5, <1>6, <1>7, <1>10, <1>11, <1>13, <1>14, <1>15, <2>1, <2>2 DEF Common
<1>17. fails \in 0 .. MaxFail
  <2>1. MaxFail \in Nat
    BY OutputAssumption
  <2> QED BY <1>2, <2>1
<1> QED BY <1>4, <1>11, <1>12, <1>16, <1>17 DEF OutInv

\* Every step keeps the invariant.
LEMMA NextKeeps ==
  ASSUME OutInv, [Next]_vars
  PROVE  OutInv'
<1>0. \A nomem \in NoMem : nomem \in BOOLEAN
  BY DEF NoMem
<1>1. CASE Application
  <2>1. PICK nomem \in NoMem : Shutdown(nomem) \/ \E len \in WriteSizes : Write(len, nomem)
    BY <1>1 DEF Application
  <2>2. nomem \in BOOLEAN
    BY <1>0
  <2>3. CASE Shutdown(nomem)
    BY <2>2, <2>3, ShutdownKeeps
  <2>4. ASSUME NEW len \in WriteSizes, Write(len, nomem) PROVE OutInv'
    BY <2>2, <2>4, WriteKeeps
  <2> QED BY <2>1, <2>3, <2>4
<1>2. CASE AckArrives
  BY <1>2, AckArrivesKeeps
<1>3. CASE SlowTimer
  <2>1. CASE GiveUp
    BY <2>1, GiveUpKeeps
  <2>2. CASE Rto
    BY <2>2, RtoKeeps
  <2>3. ASSUME NEW nomem \in NoMem, ZeroWindowProbe(nomem) PROVE OutInv'
    BY <1>0, <2>3, ZeroWindowProbeKeeps
  <2>4. ASSUME NEW nomem \in NoMem, SplitForWindow(nomem) PROVE OutInv'
    BY <1>0, <2>4, SplitForWindowKeeps
  <2> QED BY <1>3, <2>1, <2>2, <2>3, <2>4 DEF SlowTimer
<1>4. CASE Peer
  <2>1. CASE PeerRead
    BY <2>1, PeerReadKeeps
  <2>2. ASSUME NEW s \in wire, Take(s) PROVE OutInv'
    BY <2>2, TakeKeeps
  <2> QED BY <1>4, <2>1, <2>2 DEF Peer
<1>5. CASE UNCHANGED vars
  <2>1. snd' = snd /\ wire' = wire /\ peer' = peer /\ fails' = fails /\ finSplit' = finSplit
    BY <1>5 DEF vars
  <2>2. /\ Common(snd', wire', peer', finSplit') /\ fails' \in 0 .. MaxFail
        /\ snd'.alive => QueueInv(snd') /\ Busy(snd')
        /\ ~snd'.alive => Queued(snd') = <<>>
    BY <2>1 DEF OutInv
  <2> QED BY <2>2 DEF OutInv
<1> QED BY <1>1, <1>2, <1>3, <1>4, <1>5 DEF Next

\* OutInv holds in every state of the send side.
THEOREM OutputInvariance == Spec => []OutInv
<1>1. Init => OutInv
  BY InitKeeps
<1>2. OutInv /\ [Next]_vars => OutInv'
  BY NextKeeps
<1> QED BY <1>1, <1>2, PTL DEF Spec

\* What is queued and sent, alive or not.
LEMMA InvFacts ==
  ASSUME OutInv
  PROVE  /\ snd \in Send /\ Numbers(snd) /\ Flight(snd) /\ peer \in Peers /\ finSplit \in BOOLEAN
         /\ WireInv(wire, Offset(snd.snd_nxt), peer)
         /\ Queued(snd) \in Seq(Segment)
         /\ \A s \in Range(Queued(snd)) \cup wire : s \in Segment
<1>1. /\ snd \in Send /\ Numbers(snd) /\ Flight(snd) /\ peer \in Peers /\ finSplit \in BOOLEAN
      /\ WireInv(wire, Offset(snd.snd_nxt), peer)
  BY DEF OutInv, Common
<1> DEFINE all == Queued(snd)
<1>2. all \in Seq(Segment)
  BY <1>1, SendFacts
<1>3. \A s \in wire : s \in Segment
  BY <1>1 DEF WireInv
<1> HIDE DEF all
<1>4. \A s \in Range(all) : s \in Segment
  BY <1>2 DEF Range
<1> QED BY <1>1, <1>2, <1>3, <1>4 DEF all

\* The types of the send side (the fields of the pcb, the segments, the peer).
THEOREM OutputTypeCorrect == Spec => []TypeOK
<1>1. ASSUME OutInv PROVE TypeOK
  <2>1. /\ snd \in Send /\ peer \in Peers /\ finSplit \in BOOLEAN /\ Numbers(snd)
        /\ \A s \in Range(Queued(snd)) \cup wire : s \in Segment
    BY <1>1, InvFacts
  <2>2. /\ snd["snd_nxt"] \in SeqNos /\ snd["lastack"] \in SeqNos
        /\ snd["snd_lbb"] \in SeqNos /\ snd["snd_wl2"] \in SeqNos
    BY <2>1 DEF Send
  <2>3. \A f \in {"snd_nxt", "lastack", "snd_lbb", "snd_wl2"} : snd[f] \in SeqNos
    BY <2>2
  <2>4. \A s \in Range(Queued(snd)) \cup wire :
          s.seqno \in SeqNos /\ s.fin \in BOOLEAN /\ s.p \in Seq(0 .. StreamLen - 1)
    BY <2>1 DEF Segment
  <2>5. /\ snd.snd_buf \in 0 .. TCP_SND_BUF /\ snd.snd_wnd \in 0 .. PeerWnd
        /\ snd.nrtx \in 0 .. TCP_MAXRTX /\ snd.persist_probe \in 0 .. TCP_MAXRTX
        /\ snd.snd_wnd_max \in 0 .. PeerWnd
    BY <2>1 DEF Send
  <2>6. snd.snd_wnd <= snd.snd_wnd_max
    BY <2>1 DEF Numbers
  <2>7. snd.snd_wnd_max \in snd.snd_wnd .. PeerWnd
    <3>1. PeerWnd \in Nat
      BY Bounds
    <3> QED BY <2>5, <2>6, <3>1
  <2>8. fails \in 0 .. MaxFail
    BY <1>1 DEF OutInv
  <2> QED BY <2>1, <2>3, <2>4, <2>5, <2>7, <2>8 DEF TypeOK, Peers
<1> QED BY <1>1, OutputInvariance, PTL

\* Whatever was written, sent again, split or acknowledged: the two queues hold
\* each byte from the last one acknowledged to snd_lbb once, in order.
THEOREM QueuesAreContiguous == Spec => []QueuesContiguous
<1>1. ASSUME OutInv PROVE QueuesContiguous
  <2> SUFFICES ASSUME snd.alive, ~finSplit
               PROVE  LET all == Queued(snd) IN
                      /\ \A i \in 2 .. Len(all) : all[i].seqno = EndOf(all[i - 1], TRUE)
                      /\ \A s \in Range(all) : \A j \in 1 .. Length(s) : s.p[j] = Offset(s.seqno) + j - 1
                      /\ all # <<>> =>
                           /\ TCP_SEQ_LEQ(all[1].seqno, snd.lastack)
                           /\ snd.persist \/ TCP_SEQ_LEQ(snd.lastack, EndOf(all[1], TRUE))
                           /\ EndOf(Last(all), Length(Last(all)) = 0) = snd.snd_lbb
    BY DEF QueuesContiguous
  <2> DEFINE all == Queued(snd)
             n == Len(all)
             la == Offset(snd.lastack)
             lbb == Offset(snd.snd_lbb)
             h == SEQ \div 2
  <2>1. /\ snd \in Send /\ Numbers(snd) /\ all \in Seq(Segment)
        /\ Linked(all, la, lbb, MssLocal(snd)) /\ FirstIsNew(snd)
        /\ FinInv(Range(all), Range(all) \cup wire, lbb, snd.finQueued, finSplit)
    BY <1>1, InvFacts DEF OutInv, Common, QueueInv
  <2>2. /\ la \in Nat /\ lbb \in Nat /\ la <= StreamLen + 2 /\ lbb <= StreamLen + 1
        /\ StreamLen + 2 < h /\ StreamLen \in Nat /\ h \in Nat
        /\ snd.lastack \in SeqNos /\ snd.snd_lbb \in SeqNos
    <3>1. snd.lastack \in SeqNos /\ snd.snd_lbb \in SeqNos /\ StreamLen \in Nat /\ h \in Nat
      BY <2>1, Bounds DEF Send
    <3> QED BY <2>1, <3>1, SendFacts
  <2>3. snd.persist \/ all = <<>> \/ la <= Stop(all[1])
    BY <2>1 DEF FirstIsNew
  <2>4. /\ n \in Nat /\ DOMAIN all = 1 .. n
        /\ \A i \in 1 .. n : all[i] \in Segment /\ Sane(all[i]) /\ all[i] \in Range(all)
        /\ \A i, j \in 1 .. n : i < j => Start(all[i]) < Start(all[j])
        /\ \A i \in 1 .. n - 1 : Stop(all[i]) = Start(all[i + 1])
        /\ all # <<>> => n >= 1 /\ Start(all[1]) <= la /\ Top(all[n]) = lbb
    BY <2>1 DEF Linked, Chain, Range
  <2>5. /\ \A f, s \in Range(all) : f.fin => Stop(s) <= Stop(f)
        /\ \A f, g \in Range(all) : Length(f) = 0 /\ g.fin => Start(g) = Start(f)
    BY <2>1 DEF FinInv
  <2> HIDE DEF all, n, la, lbb, h
  <2>6. ASSUME NEW i \in 2 .. n PROVE all[i].seqno = EndOf(all[i - 1], TRUE)
    <3> DEFINE s == all[i]
               t == all[i - 1]
    <3>1. i \in 1 .. n /\ i - 1 \in 1 .. n /\ i - 1 < i /\ i - 1 \in 1 .. n - 1 /\ (i - 1) + 1 = i
      BY <2>4
    <3>2. /\ s \in Segment /\ Sane(s) /\ s \in Range(all) /\ t \in Segment /\ Sane(t) /\ t \in Range(all)
          /\ Start(t) < Start(s) /\ Stop(t) = Start(s)
      BY <2>4, <3>1
    <3> HIDE DEF s, t
    <3>3. /\ Start(s) \in Nat /\ Start(t) \in Nat /\ Stop(s) = Start(s) + Length(s) /\ Length(s) \in Nat
          /\ End(t) = IF t.fin THEN Stop(t) + 1 ELSE Stop(t)
          /\ s.seqno \in SeqNos
      BY <3>2, SegmentFacts
    <3>4. ~t.fin
      <4> SUFFICES ASSUME t.fin PROVE FALSE
        OBVIOUS
      <4>1. Stop(s) <= Stop(t)
        BY <2>5, <3>2
      <4>2. Length(s) = 0
        BY <3>2, <3>3, <4>1
      <4>3. Start(t) = Start(s)
        BY <2>5, <3>2, <4>2
      <4> QED BY <3>2, <3>3, <4>3
    <3>5. Stop(t) <= StreamLen
      BY <3>2 DEF Sane
    <3>6. EndOf(t, TRUE) \in SeqNos /\ Offset(EndOf(t, TRUE)) = End(t)
      BY <3>2, <3>5, EndOffset
    <3>7. Offset(EndOf(t, TRUE)) = Offset(s.seqno)
      BY <3>2, <3>3, <3>4, <3>6 DEF Start
    <3>8. s.seqno = EndOf(t, TRUE)
      BY <3>3, <3>6, <3>7, OffsetInjective
    <3> QED BY <3>8 DEF s, t
  <2>7. \A s \in Range(all) : \A j \in 1 .. Length(s) : s.p[j] = Offset(s.seqno) + j - 1
    <3>1. \A s \in Range(all) : Sane(s)
      BY <2>4 DEF Range
    <3> QED BY <3>1 DEF Sane, Start
  <2>8. ASSUME all # <<>>
        PROVE  /\ TCP_SEQ_LEQ(all[1].seqno, snd.lastack)
               /\ snd.persist \/ TCP_SEQ_LEQ(snd.lastack, EndOf(all[1], TRUE))
               /\ EndOf(Last(all), Length(Last(all)) = 0) = snd.snd_lbb
    <3> DEFINE s == all[1]
               e == EndOf(s, TRUE)
               l == all[n]
    <3>1. 1 \in 1 .. n /\ n \in 1 .. n /\ Start(s) <= la /\ Top(l) = lbb
      BY <2>4, <2>8
    <3>2. s \in Segment /\ Sane(s) /\ l \in Segment /\ Sane(l)
      BY <2>4, <3>1
    <3>3. Last(all) = l
      BY DEF Last, n
    <3> HIDE DEF s, l, e
    <3>4. Stop(s) <= StreamLen /\ Stop(l) <= StreamLen
      BY <3>2 DEF Sane
    <3>5. /\ s.seqno \in SeqNos /\ Start(s) \in Nat /\ Stop(s) \in Nat /\ Stop(s) <= End(s) /\ End(s) \in Nat
          /\ End(s) <= Stop(s) + 1 /\ Start(s) <= Stop(s)
      BY <3>2, SegmentFacts
    <3>6. e \in SeqNos /\ Offset(e) = End(s)
      BY <3>2, <3>4, EndOffset DEF e
    <3>7. Offset(s.seqno) < SEQ \div 2 /\ Offset(snd.lastack) < SEQ \div 2 /\ Offset(e) < SEQ \div 2
      <4>1. Start(s) < h /\ la < h /\ End(s) < h
        BY <2>2, <3>4, <3>5
      <4> QED BY <3>6, <4>1 DEF Start, la, h
    <3>8. TCP_SEQ_LEQ(s.seqno, snd.lastack)
      <4>1. TCP_SEQ_LT(snd.lastack, s.seqno) <=> la < Start(s)
        BY <2>2, <3>5, <3>7, LessThan DEF Start, la
      <4> QED BY <2>2, <3>1, <3>5, <4>1 DEF TCP_SEQ_LEQ
    <3>9. ASSUME ~snd.persist PROVE TCP_SEQ_LEQ(snd.lastack, e)
      <4>1. TCP_SEQ_LT(e, snd.lastack) <=> End(s) < la
        BY <2>2, <3>6, <3>7, LessThan DEF la
      <4>2. la <= Stop(s)
        BY <2>3, <2>8, <3>9 DEF s
      <4> QED BY <2>2, <3>5, <4>1, <4>2 DEF TCP_SEQ_LEQ
    <3>10. EndOf(l, Length(l) = 0) = snd.snd_lbb
      <4>1. /\ EndOf(l, TRUE) \in SeqNos /\ Offset(EndOf(l, TRUE)) = End(l)
            /\ EndOf(l, FALSE) \in SeqNos /\ Offset(EndOf(l, FALSE)) = Stop(l)
        BY <3>2, <3>4, EndOffset
      <4>2. /\ Length(l) >= 1 => Top(l) = Stop(l)
            /\ Length(l) = 0 => l.fin /\ Top(l) = Stop(l) + 1
        BY <3>2, TopFacts
      <4>3. Length(l) \in Nat /\ End(l) = IF l.fin THEN Stop(l) + 1 ELSE Stop(l)
        BY <3>2, SegmentFacts
      <4>4. CASE Length(l) = 0
        <5>1. Offset(EndOf(l, TRUE)) = Offset(snd.snd_lbb)
          BY <3>1, <4>1, <4>2, <4>3, <4>4 DEF lbb
        <5>2. EndOf(l, TRUE) = snd.snd_lbb
          BY <2>2, <4>1, <5>1, OffsetInjective
        <5> QED BY <4>4, <5>2
      <4>5. CASE Length(l) # 0
        <5>1. Length(l) >= 1
          BY <4>3, <4>5
        <5>2. Offset(EndOf(l, FALSE)) = Offset(snd.snd_lbb)
          BY <3>1, <4>1, <4>2, <5>1 DEF lbb
        <5>3. EndOf(l, FALSE) = snd.snd_lbb
          BY <2>2, <4>1, <5>2, OffsetInjective
        <5>4. (Length(l) = 0) = FALSE
          BY <4>5
        <5> QED BY <5>3, <5>4
      <4> QED BY <4>4, <4>5
    <3> QED BY <3>3, <3>8, <3>9, <3>10 DEF s, e
  <2> QED BY <2>6, <2>7, <2>8 DEF all, n
<1> QED BY <1>1, OutputInvariance, PTL

\* snd_buf is what the queues leave of TCP_SND_BUF: tcp_write takes it and
\* tcp_receive gives it back.
THEOREM SndBufIsAccounted == Spec => []SndBufAccounted
<1>1. ASSUME OutInv PROVE SndBufAccounted
  BY <1>1 DEF OutInv, QueueInv, SndBufAccounted
<1> QED BY <1>1, OutputInvariance, PTL

\* tcp_slowtmr's assertion: the persist timer runs with nothing in flight.
THEOREM PersistIsWithoutFlight == Spec => []PersistWithoutFlight
<1>1. ASSUME OutInv PROVE PersistWithoutFlight
  BY <1>1, InvFacts DEF Flight, PersistWithoutFlight
<1> QED BY <1>1, OutputInvariance, PTL

\* The first segment that is queued, on a live connection.
LEMMA FirstFacts ==
  ASSUME OutInv, snd.alive, Queued(snd) # <<>>
  PROVE  LET h == Queued(snd)[1] IN
         /\ h \in Segment /\ Sane(h) /\ Head(Queued(snd)) = h
         /\ Start(h) <= Offset(snd.lastack) /\ Length(h) <= mss
         /\ snd.persist => snd.unacked = <<>> /\ snd.unsent = Queued(snd)
         /\ ~snd.persist => /\ snd.rtxTimer /\ Offset(snd.lastack) <= Stop(h)
                            /\ Stop(h) <= Offset(snd.lastack) + snd.snd_wnd
<1> DEFINE all == Queued(snd)
           h == all[1]
           la == Offset(snd.lastack)
<1>1. /\ snd \in Send /\ Numbers(snd) /\ Flight(snd) /\ FirstIsNew(snd) /\ Busy(snd)
      /\ Linked(all, la, Offset(snd.snd_lbb), MssLocal(snd)) /\ Chain(all)
  BY DEF OutInv, Common, QueueInv, Linked
<1>2. /\ all \in Seq(Segment) /\ snd.unacked \in Seq(Segment) /\ snd.unsent \in Seq(Segment)
      /\ MssLocal(snd) \in Nat /\ MssLocal(snd) <= mss /\ mss \in Nat
  BY <1>1, SendFacts, Bounds
<1>3. 1 \in 1 .. Len(all) /\ Head(all) = h /\ h \in Segment
  <2> HIDE DEF all
  <2>1. all # <<>>
    BY DEF all
  <2> QED BY <1>2, <2>1
<1>4. Sane(h) /\ Start(h) <= la /\ Length(h) <= MssLocal(snd)
  BY <1>1, <1>3 DEF Linked, Chain
<1>5. Length(h) <= mss
  <2>1. Length(h) \in Nat
    BY <1>3, SegmentFacts
  <2> HIDE DEF h
  <2> QED BY <1>2, <1>4, <2>1
<1>6. ASSUME snd.persist PROVE snd.unacked = <<>> /\ snd.unsent = all
  <2>1. snd.unacked = <<>>
    BY <1>1, <1>6 DEF Flight
  <2> QED BY <1>2, <2>1 DEF Queued
<1>7. ASSUME ~snd.persist PROVE snd.rtxTimer /\ la <= Stop(h) /\ Stop(h) <= la + snd.snd_wnd
  <2>1. snd.unacked # <<>>
    BY <1>1, <1>7 DEF Busy
  <2>2. 1 \in 1 .. Len(snd.unacked)
    BY <1>2, <2>1
  <2>3. all[1] = snd.unacked[1]
    <3>1. \A i \in 1 .. Len(snd.unacked) : all[i] = snd.unacked[i]
      BY <1>1, <1>2, QueueFacts
    <3> QED BY <2>2, <3>1
  <2>4. snd.rtxTimer /\ Stop(snd.unacked[1]) <= la + snd.snd_wnd
    BY <1>1, <2>1, <2>2 DEF Flight
  <2>5. la <= Stop(h)
    BY <1>1, <1>7 DEF FirstIsNew
  <2> QED BY <2>3, <2>4, <2>5
<1> QED BY <1>3, <1>4, <1>5, <1>6, <1>7

\* What the persist timer would cut off fits the window, or lies before lastack.
LEMMA FirstPartGoes ==
  ASSUME OutInv, snd.alive, Queued(snd) # <<>>, snd.persist
  PROVE  Fits(snd, FirstPart) \/ Behind(FirstPart)
<1> DEFINE h == Head(snd.unsent)
           n == MinOf(Length(h), snd.snd_wnd)
           f == CutTo(h, n)
           la == Offset(snd.lastack)
           st == Start(h)
<1>1. /\ h \in Segment /\ Sane(h) /\ st <= la /\ Length(h) <= mss
  BY FirstFacts
<1>2. /\ st \in Nat /\ Length(h) \in Nat /\ Stop(h) = st + Length(h) /\ h.seqno \in SeqNos
      /\ h.p \in Seq(0 .. StreamLen - 1) /\ Stop(h) <= StreamLen
  BY <1>1, SegmentFacts DEF Sane, Segment
<1>3. /\ snd.lastack \in SeqNos /\ la \in Nat /\ la <= StreamLen + 2 /\ StreamLen + 2 < SEQ \div 2
      /\ snd.snd_wnd \in Nat /\ snd.cwnd \in Nat /\ snd.cwnd >= mss /\ mss \in Nat
      /\ StreamLen \in Nat /\ SEQ \in Nat /\ SEQ \div 2 \in Nat /\ 2 * (SEQ \div 2) = SEQ
  <2>1. snd \in Send /\ Numbers(snd)
    BY InvFacts
  <2>2. snd.lastack \in SeqNos /\ snd.cwnd >= mss
    BY <2>1 DEF Send, Numbers
  <2> QED BY <2>1, <2>2, SendFacts, Bounds
<1>4. n = IF Length(h) <= snd.snd_wnd THEN Length(h) ELSE snd.snd_wnd
  <2>1. Length(h) \in Int /\ snd.snd_wnd \in Int
    BY <1>2, <1>3
  <2> QED BY <2>1, MinMax
<1>5. n \in Nat /\ n <= Length(h) /\ n <= snd.snd_wnd
  BY <1>2, <1>3, <1>4
<1>6. SendWindow(snd) = IF snd.snd_wnd <= snd.cwnd THEN snd.snd_wnd ELSE snd.cwnd
  <2>1. snd.snd_wnd \in Int /\ snd.cwnd \in Int
    BY <1>3
  <2> QED BY <2>1, MinMax DEF SendWindow
<1> HIDE DEF n, h
<1>7. f.seqno = h.seqno /\ Length(f) = n
  <2>1. f.seqno = h.seqno /\ f.p = SubSeq(h.p, 1, n)
    BY <1>1 DEF CutTo, Segment
  <2>2. 1 \in 1 .. Len(h.p) + 1 /\ n \in 0 .. Len(h.p) /\ 1 <= n + 1
    BY <1>2, <1>5 DEF Length
  <2>3. Len(SubSeq(h.p, 1, n)) = n - 1 + 1
    BY <1>2, <2>2, Part
  <2> QED BY <1>5, <2>1, <2>3 DEF Length
<1> HIDE DEF f
<1>8. Offset(h.seqno) = st
  BY DEF Start
<1>9. st + n <= StreamLen /\ st + n < SEQ \div 2 /\ st + n < SEQ /\ st + n \in Nat
  BY <1>2, <1>3, <1>5
<1>10. CASE la <= st + n
  <2>1. Add(Diff(h.seqno, snd.lastack), n) = st + n - la
    <3>1. Offset(h.seqno) + n < SEQ /\ Offset(snd.lastack) <= Offset(h.seqno) + n
      BY <1>8, <1>9, <1>10
    <3> QED BY <1>2, <1>3, <1>5, <1>8, <3>1, WindowUse
  <2>2. st + n - la <= SendWindow(snd)
    <3> HIDE DEF st, la
    <3>1. st + n - la <= n
      BY <1>1, <1>2, <1>3, <1>5
    <3>2. n <= SendWindow(snd)
      BY <1>1, <1>2, <1>3, <1>5, <1>6
    <3>3. SendWindow(snd) \in Nat
      BY <1>3, <1>6
    <3> QED BY <1>2, <1>3, <1>5, <3>1, <3>2, <3>3
  <2>3. Fits(snd, f)
    BY <1>7, <2>1, <2>2 DEF Fits
  <2> QED BY <2>3 DEF f, n, h, FirstPart
<1>11. CASE st + n < la
  <2> DEFINE e == Add(h.seqno, n)
  <2>1. e \in SeqNos /\ Offset(e) = st + n
    BY <1>2, <1>5, <1>8, <1>9, OffsetAdd
  <2>2. EndOf(f, FALSE) = e
    BY <1>7 DEF EndOf
  <2>3. Offset(e) < SEQ \div 2 /\ Offset(snd.lastack) < SEQ \div 2
    BY <1>3, <1>9, <2>1
  <2> HIDE DEF e
  <2>4. TCP_SEQ_LT(e, snd.lastack)
    BY <1>3, <1>11, <2>1, <2>3, LessThan
  <2>5. Behind(f)
    BY <2>2, <2>4 DEF Behind
  <2> QED BY <2>5 DEF f, n, h, FirstPart
<1> QED BY <1>3, <1>9, <1>10, <1>11

\* While something is queued a timer runs whose next expiry sends something,
\* unless what tcp_split_unsent_seg would cut off was acknowledged already.
THEOREM SendingIsTimed == Spec => []NoSendStall
<1>1. ASSUME OutInv PROVE NoSendStall
  <2> SUFFICES ASSUME snd.alive, Queued(snd) # <<>>
               PROVE  IF snd.persist
                        THEN /\ snd.unsent # <<>>
                             /\ snd.snd_wnd = 0 \/ Fits(snd, FirstPart) \/ Behind(FirstPart)
                        ELSE snd.rtxTimer /\ Fits([snd EXCEPT !.cwnd = mss], Head(Queued(snd)))
    BY DEF NoSendStall
  <2>1. CASE snd.persist
    <3>1. snd.unsent = Queued(snd)
      BY <1>1, <2>1, FirstFacts
    <3> QED BY <1>1, <2>1, <3>1, FirstPartGoes
  <2>2. CASE ~snd.persist
    <3> DEFINE h == Head(Queued(snd))
               q == [snd EXCEPT !.cwnd = mss]
               la == Offset(snd.lastack)
    <3>1. /\ h \in Segment /\ Sane(h) /\ Start(h) <= la /\ Length(h) <= mss /\ snd.rtxTimer
          /\ la <= Stop(h) /\ Stop(h) <= la + snd.snd_wnd
      BY <1>1, <2>2, FirstFacts
    <3>2. /\ q.lastack = snd.lastack /\ q.snd_wnd = snd.snd_wnd /\ q.cwnd = mss
          /\ snd.lastack \in SeqNos /\ snd.snd_wnd \in 0 .. PeerWnd
      BY <1>1, InvFacts DEF Send
    <3>3. la \in Nat /\ la <= StreamLen + 2 /\ mss \in Nat /\ snd.snd_wnd \in Nat
      BY <1>1, InvFacts, SendFacts, Bounds
    <3> HIDE DEF h, q
    <3>4. Start(h) \in Nat /\ Length(h) \in Nat /\ Stop(h) = Start(h) + Length(h)
      BY <3>1, SegmentFacts
    <3>5. /\ SendWindow(q) = IF q.snd_wnd <= q.cwnd THEN q.snd_wnd ELSE q.cwnd
          /\ Fits(q, h) <=> la <= Stop(h) /\ Stop(h) - la <= SendWindow(q)
      BY <3>1, <3>2, <3>3, FitsMeans
    <3>6. Stop(h) - la <= SendWindow(q)
      <4> HIDE DEF la
      <4> QED BY <3>1, <3>2, <3>3, <3>4, <3>5
    <3> QED BY <2>2, <3>1, <3>5, <3>6 DEF h, q
  <2> QED BY <2>1, <2>2
<1> QED BY <1>1, OutputInvariance, PTL

\* Nothing is sent past the window that the peer has offered, but for one byte.
THEOREM PeerIsNotOverrun == Spec => []PeerNotOverrun
<1>1. ASSUME OutInv PROVE PeerNotOverrun
  <2>1. \A s \in wire : Stop(s) <= peer.edge \/ Length(s) = 1
    BY <1>1, InvFacts DEF WireInv
  <2> QED BY <2>1 DEF PeerNotOverrun, Stop, Start
<1> QED BY <1>1, OutputInvariance, PTL

\* The peer takes the FIN after all that was written, unless a segment with the
\* FIN was split.
THEOREM FinComesLast == Spec => []FinIsLast
<1>1. ASSUME OutInv PROVE FinIsLast
  <2>1. ASSUME ~finSplit, peer.fin
        PROVE  \A s \in Range(Queued(snd)) \cup wire : Stop(s) <= peer.nxt
    BY <1>1, <2>1 DEF OutInv, Common, PeerInv
  <2> QED BY <2>1 DEF FinIsLast, NothingAfterFin, Stop, Start
<1> QED BY <1>1, OutputInvariance, PTL
=============================================================================
