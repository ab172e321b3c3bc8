------------------------------- MODULE TcpSeq -------------------------------
(***************************************************************************)
(* TCP sequence numbers and segments as lwIP handles them (tcp_priv.h),    *)
(* for LwipReassembly and LwipOutput.                                      *)
(***************************************************************************)
EXTENDS Integers, SequencesExt

CONSTANTS
  SEQ,        \* sequence numbers are taken modulo SEQ (2^32 in the code)
  ISS,        \* the sequence number of the first byte of the stream
  StreamLen   \* bound: bytes of the stream before its FIN

ASSUME SeqAssumption ==
  /\ SEQ \in Nat \ {0} /\ SEQ % 2 = 0
  /\ ISS \in 0 .. SEQ - 1
  /\ StreamLen \in Nat /\ StreamLen + 1 < SEQ \div 2

\* Mutant of Add: sequence numbers do not wrap.
Add_nowrap(a, n) == a + n

Add(a, n) == (a + n) % SEQ

Diff(a, b) == (a - b) % SEQ

SeqNos == 0 .. SEQ - 1

\* The place of a sequence number in the stream.
Offset(seqno) == Diff(seqno, ISS)

\* The sign of the difference decides, so the order is that of the numbers
\* as long as they are less than half of SEQ apart.
TCP_SEQ_LT(a, b) == Diff(a, b) >= SEQ \div 2
TCP_SEQ_GT(a, b) == TCP_SEQ_LT(b, a)
TCP_SEQ_GEQ(a, b) == ~TCP_SEQ_LT(a, b)
TCP_SEQ_LEQ(a, b) == ~TCP_SEQ_LT(b, a)
TCP_SEQ_BETWEEN(a, b, c) == TCP_SEQ_GEQ(a, b) /\ TCP_SEQ_LEQ(a, c)

MinOf(a, b) == Min({a, b})
MaxOf(a, b) == Max({a, b})
One(b) == IF b THEN 1 ELSE 0

\* F(v), with v as a value: where a result is used many times over.
With(v, F(_)) == CHOOSE y \in {F(x) : x \in {v}} : TRUE

\* A segment is its header's seqno and FIN, and its payload: the bytes, each
\* known by its offset in the stream.
SegmentAt(seqno, off, n, fin) ==
  [seqno |-> seqno, fin |-> fin, p |-> [i \in 1 .. n |-> off + i - 1]]

Length(s) == Len(s.p)
TCP_TCPLEN(s) == Len(s.p) + One(s.fin)

\* Where a segment ends, with or without the sequence number of its FIN.
EndOf(s, finCounts) == Add(s.seqno, IF finCounts THEN TCP_TCPLEN(s) ELSE Length(s))

\* pbuf_realloc and the len of the segment.
CutTo(s, n) == [s EXCEPT !.p = SubSeq(@, 1, n)]

\* How many segments at the front of the queue q have the property P: the
\* loops over a queue stop at the first that has not.
Leading(q, P(_)) == Max({k \in 0 .. Len(q) : \A i \in 1 .. k : P(i)})
=============================================================================
