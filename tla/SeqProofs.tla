----------------------------- MODULE SeqProofs ------------------------------
(***************************************************************************)
(* Lemmas that the proofs about LwipOutput and LwipReassembly share:       *)
(* arithmetic on sequence numbers, sequences, and segments.  A sequence    *)
(* number is reasoned about as its offset in the stream, which is less     *)
(* than half of SEQ.                                                       *)
(***************************************************************************)
EXTENDS TcpSeq, SequenceTheorems, FiniteSetTheorems, WellFoundedInduction, TLAPS

\* The segments of the stream.
Segment == [seqno : SeqNos, fin : BOOLEAN, p : Seq(0 .. StreamLen - 1)]

\* Where a segment begins and ends, without and with its FIN.
Start(s) == Offset(s.seqno)
Stop(s) == Start(s) + Length(s)
End(s) == Stop(s) + One(s.fin)

-----------------------------------------------------------------------------
(* Arithmetic modulo SEQ.                                                  *)

\* The constants: the stream and its FIN take less than half of the sequence
\* numbers.
LEMMA SeqBounds ==
  /\ SEQ \in Nat /\ SEQ > 0 /\ SEQ \div 2 \in Nat /\ 2 * (SEQ \div 2) = SEQ
  /\ ISS \in SeqNos /\ StreamLen \in Nat /\ StreamLen + 1 < SEQ \div 2
<1>1. SEQ \in Nat /\ SEQ > 0 /\ SEQ % 2 = 0
  BY SeqAssumption
<1>2. SEQ \div 2 \in Nat /\ 2 * (SEQ \div 2) = SEQ
  BY <1>1
<1> QED BY <1>1, <1>2, SeqAssumption DEF SeqNos

\* What is left of a number after division by SEQ, when it is not far off.
LEMMA ModCases ==
  ASSUME NEW d \in Int, -SEQ <= d, d < 2 * SEQ
  PROVE  /\ d % SEQ \in SeqNos
         /\ 0 <= d /\ d < SEQ => d % SEQ = d
         /\ d < 0 => d % SEQ = d + SEQ
         /\ SEQ <= d => d % SEQ = d - SEQ
<1>1. SEQ \in Nat /\ SEQ > 0
  BY SeqAssumption
<1> QED BY <1>1 DEF SeqNos

\* Diff is a difference that wraps around at most once.
LEMMA DiffCases ==
  ASSUME NEW x \in SeqNos, NEW y \in SeqNos
  PROVE  /\ Diff(x, y) \in SeqNos
         /\ y <= x => Diff(x, y) = x - y
         /\ x < y => Diff(x, y) = x - y + SEQ
<1> DEFINE d == x - y
<1>1. d \in Int /\ -SEQ <= d /\ d < SEQ /\ SEQ \in Nat /\ d < 2 * SEQ
  BY SeqBounds DEF SeqNos
<1>2. Diff(x, y) = d % SEQ
  BY DEF Diff
<1>3. y <= x <=> 0 <= d
  BY DEF SeqNos
<1> DEFINE m == d % SEQ
<1>4. m \in SeqNos /\ (0 <= d /\ d < SEQ => m = d) /\ (d < 0 => m = d + SEQ)
  BY <1>1, ModCases
<1>5. x \in Int /\ y \in Int
  BY DEF SeqNos
<1> HIDE DEF m
<1> QED BY <1>1, <1>2, <1>3, <1>4, <1>5 DEF m

\* The offset of a sequence number in the stream, and back.
LEMMA OffsetType ==
  ASSUME NEW x \in SeqNos
  PROVE  Offset(x) \in SeqNos /\ Offset(x) \in Nat
<1>1. Offset(x) \in SeqNos
  BY DiffCases, SeqBounds DEF Offset
<1> QED BY <1>1 DEF SeqNos

\* Two sequence numbers with the same offset are the same.
LEMMA OffsetInjective ==
  ASSUME NEW x \in SeqNos, NEW y \in SeqNos, Offset(x) = Offset(y)
  PROVE  x = y
<1> DEFINE a == Offset(x)
           b == Offset(y)
<1>1. /\ a \in SeqNos /\ (ISS <= x => a = x - ISS) /\ (x < ISS => a = x - ISS + SEQ)
      /\ b \in SeqNos /\ (ISS <= y => b = y - ISS) /\ (y < ISS => b = y - ISS + SEQ)
  BY DiffCases, SeqBounds DEF Offset
<1>2. a = b
  OBVIOUS
<1>3. SEQ \in Nat /\ ISS \in SeqNos
  BY SeqBounds
<1> HIDE DEF a, b
<1> QED BY <1>1, <1>2, <1>3 DEF SeqNos

\* Sums, as long as they stay within the range of sequence numbers.
LEMMA OffsetAdd ==
  ASSUME NEW x \in SeqNos, NEW n \in Nat, Offset(x) + n < SEQ
  PROVE  Add(x, n) \in SeqNos /\ Offset(Add(x, n)) = Offset(x) + n
<1> DEFINE a == Offset(x)
           d == x + n
           s == d % SEQ
           b == Offset(s)
<1>1. SEQ \in Nat /\ ISS \in SeqNos
  BY SeqBounds
<1>2. a \in SeqNos /\ (ISS <= x => a = x - ISS) /\ (x < ISS => a = x - ISS + SEQ)
  BY DiffCases, SeqBounds DEF Offset
<1>3. a + n < SEQ
  OBVIOUS
<1> HIDE DEF a
<1>4. d \in Int /\ -SEQ <= d /\ d < 2 * SEQ
  BY <1>1, <1>2, <1>3 DEF SeqNos
<1>5. Add(x, n) = s
  BY DEF Add
<1> HIDE DEF d
<1>6. s \in SeqNos /\ (0 <= d /\ d < SEQ => s = d) /\ (SEQ <= d => s = d - SEQ)
  BY <1>4, ModCases
<1> HIDE DEF s
<1>7. b \in SeqNos /\ (ISS <= s => b = s - ISS) /\ (s < ISS => b = s - ISS + SEQ)
  BY <1>1, <1>6, DiffCases DEF Offset
<1> HIDE DEF b
<1>8. b = a + n
  BY <1>1, <1>2, <1>3, <1>4, <1>6, <1>7 DEF SeqNos, d
<1> QED BY <1>5, <1>6, <1>8 DEF a, b

\* The first sequence number is at 0, and the one after a bytes at a.
LEMMA OffsetISS ==
  /\ Offset(ISS) = 0
  /\ \A a \in Nat : a < SEQ => Add(ISS, a) \in SeqNos /\ Offset(Add(ISS, a)) = a
<1>1. ISS \in SeqNos /\ SEQ \in Nat
  BY SeqBounds
<1>2. Offset(ISS) = 0
  <2>1. Diff(ISS, ISS) = ISS - ISS
    BY <1>1, DiffCases DEF SeqNos
  <2> QED BY <1>1, <2>1 DEF Offset, SeqNos
<1>3. ASSUME NEW a \in Nat, a < SEQ
      PROVE  Add(ISS, a) \in SeqNos /\ Offset(Add(ISS, a)) = a
  BY <1>1, <1>2, <1>3, OffsetAdd
<1> QED BY <1>2, <1>3

\* TCP_SEQ_LT compares offsets that are less than half of the range.
LEMMA LessThan ==
  ASSUME NEW x \in SeqNos, NEW y \in SeqNos,
         Offset(x) < SEQ \div 2, Offset(y) < SEQ \div 2
  PROVE  TCP_SEQ_LT(x, y) <=> Offset(x) < Offset(y)
<1> DEFINE a == Offset(x)
           b == Offset(y)
           d == Diff(x, y)
           h == SEQ \div 2
<1>1. /\ a \in SeqNos /\ (ISS <= x => a = x - ISS) /\ (x < ISS => a = x - ISS + SEQ)
      /\ b \in SeqNos /\ (ISS <= y => b = y - ISS) /\ (y < ISS => b = y - ISS + SEQ)
  BY DiffCases, SeqBounds DEF Offset
<1>2. d \in SeqNos /\ (y <= x => d = x - y) /\ (x < y => d = x - y + SEQ)
  BY DiffCases
<1>3. SEQ \in Nat /\ ISS \in SeqNos /\ h \in Nat /\ 2 * h = SEQ
  BY SeqBounds
<1>4. a < h /\ b < h
  OBVIOUS
<1>5. TCP_SEQ_LT(x, y) <=> d >= h
  BY DEF TCP_SEQ_LT
<1> HIDE DEF a, b, d, h
<1>6. d >= h <=> a < b
  BY <1>1, <1>2, <1>3, <1>4 DEF SeqNos
<1> QED BY <1>5, <1>6 DEF a, b

\* The same for offsets less than half of the range apart.
LEMMA LessNear ==
  ASSUME NEW x \in SeqNos, NEW y \in SeqNos,
         Offset(x) - Offset(y) < SEQ \div 2, Offset(y) - Offset(x) < SEQ \div 2
  PROVE  TCP_SEQ_LT(x, y) <=> Offset(x) < Offset(y)
<1> DEFINE a == Offset(x)
           b == Offset(y)
           d == Diff(x, y)
           h == SEQ \div 2
<1>1. /\ a \in SeqNos /\ (ISS <= x => a = x - ISS) /\ (x < ISS => a = x - ISS + SEQ)
      /\ b \in SeqNos /\ (ISS <= y => b = y - ISS) /\ (y < ISS => b = y - ISS + SEQ)
  BY DiffCases, SeqBounds DEF Offset
<1>2. d \in SeqNos /\ (y <= x => d = x - y) /\ (x < y => d = x - y + SEQ)
  BY DiffCases
<1>3. SEQ \in Nat /\ ISS \in SeqNos /\ h \in Nat /\ 2 * h = SEQ
  BY SeqBounds
<1>4. a - b < h /\ b - a < h
  OBVIOUS
<1>5. TCP_SEQ_LT(x, y) <=> d >= h
  BY DEF TCP_SEQ_LT
<1> HIDE DEF a, b, d, h
<1>6. d >= h <=> a < b
  BY <1>1, <1>2, <1>3, <1>4 DEF SeqNos
<1> QED BY <1>5, <1>6 DEF a, b

\* Differences of offsets that do not wrap around.
LEMMA DiffOffset ==
  ASSUME NEW x \in SeqNos, NEW y \in SeqNos, Offset(y) <= Offset(x)
  PROVE  Diff(x, y) = Offset(x) - Offset(y)
<1> DEFINE a == Offset(x)
           b == Offset(y)
           d == Diff(x, y)
<1>1. /\ a \in SeqNos /\ (ISS <= x => a = x - ISS) /\ (x < ISS => a = x - ISS + SEQ)
      /\ b \in SeqNos /\ (ISS <= y => b = y - ISS) /\ (y < ISS => b = y - ISS + SEQ)
  BY DiffCases, SeqBounds DEF Offset
<1>2. d \in SeqNos /\ (y <= x => d = x - y) /\ (x < y => d = x - y + SEQ)
  BY DiffCases
<1>3. SEQ \in Nat /\ ISS \in SeqNos /\ b <= a
  BY SeqBounds
<1> HIDE DEF a, b, d
<1>4. d = a - b
  BY <1>1, <1>2, <1>3 DEF SeqNos
<1> QED BY <1>4 DEF a, b, d

\* The sequence number before one that is not the first.
LEMMA OffsetBack ==
  ASSUME NEW x \in SeqNos, Offset(x) >= 1
  PROVE  Add(x, -1) \in SeqNos /\ Offset(Add(x, -1)) = Offset(x) - 1
<1> DEFINE a == Offset(x)
           d == x + (-1)
           s == d % SEQ
           b == Offset(s)
<1>1. SEQ \in Nat /\ ISS \in SeqNos
  BY SeqBounds
<1>2. a \in SeqNos /\ (ISS <= x => a = x - ISS) /\ (x < ISS => a = x - ISS + SEQ) /\ a >= 1
  BY DiffCases, SeqBounds DEF Offset
<1> HIDE DEF a
<1>3. d \in Int /\ -SEQ <= d /\ d < 2 * SEQ /\ d < SEQ
  BY <1>1, <1>2 DEF SeqNos
<1>4. Add(x, -1) = s
  BY DEF Add
<1> HIDE DEF d
<1>5. s \in SeqNos /\ (0 <= d => s = d) /\ (d < 0 => s = d + SEQ)
  BY <1>3, ModCases
<1> HIDE DEF s
<1>6. b \in SeqNos /\ (ISS <= s => b = s - ISS) /\ (s < ISS => b = s - ISS + SEQ)
  BY <1>1, <1>5, DiffCases DEF Offset
<1> HIDE DEF b
<1>7. b = a - 1
  BY <1>1, <1>2, <1>3, <1>5, <1>6 DEF SeqNos, d
<1> QED BY <1>4, <1>5, <1>7 DEF a, b

\* What a segment at x with n bytes takes of a window that begins at y.
LEMMA WindowUse ==
  ASSUME NEW x \in SeqNos, NEW y \in SeqNos, NEW n \in Nat,
         Offset(x) + n < SEQ, Offset(y) <= Offset(x) + n
  PROVE  Add(Diff(x, y), n) = Offset(x) + n - Offset(y)
<1> DEFINE a == Offset(x)
           b == Offset(y)
           d == Diff(x, y)
           e == d + n
           s == e % SEQ
<1>1. /\ a \in SeqNos /\ (ISS <= x => a = x - ISS) /\ (x < ISS => a = x - ISS + SEQ)
      /\ b \in SeqNos /\ (ISS <= y => b = y - ISS) /\ (y < ISS => b = y - ISS + SEQ)
  BY DiffCases, SeqBounds DEF Offset
<1>2. d \in SeqNos /\ (y <= x => d = x - y) /\ (x < y => d = x - y + SEQ)
  BY DiffCases
<1>3. SEQ \in Nat /\ ISS \in SeqNos
  BY SeqBounds
<1>4. a + n < SEQ /\ b <= a + n
  OBVIOUS
<1>5. Add(Diff(x, y), n) = s
  BY DEF Add
<1> HIDE DEF a, b, d
<1>6. e \in Int /\ -SEQ <= e /\ e < 2 * SEQ
  BY <1>1, <1>2, <1>3, <1>4 DEF SeqNos
<1>7. (0 <= e /\ e < SEQ => s = e) /\ (SEQ <= e => s = e - SEQ)
  <2> HIDE DEF e
  <2> QED BY <1>6, ModCases
<1> HIDE DEF s
<1>8. s = a + n - b
  BY <1>1, <1>2, <1>3, <1>4, <1>6, <1>7 DEF SeqNos
<1> QED BY <1>5, <1>8 DEF a, b

\* The same for a segment that ends before the window begins: the difference
\* wraps around.
LEMMA WindowWraps ==
  ASSUME NEW x \in SeqNos, NEW y \in SeqNos, NEW n \in Nat, Offset(x) + n < Offset(y)
  PROVE  Add(Diff(x, y), n) = Offset(x) + n - Offset(y) + SEQ
<1> DEFINE a == Offset(x)
           b == Offset(y)
           d == Diff(x, y)
           e == d + n
           s == e % SEQ
<1>1. /\ a \in SeqNos /\ (ISS <= x => a = x - ISS) /\ (x < ISS => a = x - ISS + SEQ)
      /\ b \in SeqNos /\ (ISS <= y => b = y - ISS) /\ (y < ISS => b = y - ISS + SEQ)
  BY DiffCases, SeqBounds DEF Offset
<1>2. d \in SeqNos /\ (y <= x => d = x - y) /\ (x < y => d = x - y + SEQ)
  BY DiffCases
<1>3. SEQ \in Nat /\ ISS \in SeqNos
  BY SeqBounds
<1>4. a + n < b
  OBVIOUS
<1>5. Add(Diff(x, y), n) = s
  BY DEF Add
<1> HIDE DEF a, b, d
<1>6. e \in Int /\ -SEQ <= e /\ e < 2 * SEQ
  BY <1>1, <1>2, <1>3, <1>4 DEF SeqNos
<1>7. 0 <= e /\ e < SEQ => s = e
  <2> HIDE DEF e
  <2> QED BY <1>6, ModCases
<1> HIDE DEF s
<1>8. s = a + n - b + SEQ
  BY <1>1, <1>2, <1>3, <1>4, <1>6, <1>7 DEF SeqNos
<1> QED BY <1>5, <1>8 DEF a, b

-----------------------------------------------------------------------------
(* Numbers and sequences.                                                  *)

\* A set of naturals has a smallest member.
LEMMA NatMin ==
  ASSUME NEW S, S \subseteq Nat, S # {}
  PROVE  \E m \in S : \A n \in S : m <= n
<1> DEFINE R == OpToRel(<, Nat)
<1>1. IsWellFoundedOn(R, Nat)
  BY NatLessThanWellFounded
<1> HIDE DEF R
<1>2. PICK m \in S : \A n \in S : <<n, m>> \notin R
  BY <1>1, WFMin
<1>3. \A n \in S : ~(n < m)
  BY <1>2 DEF R, OpToRel
<1> QED BY <1>3

\* A set of naturals with a bound has a largest member, which is its Max.
LEMMA MaxNat ==
  ASSUME NEW n \in Nat, NEW S, S \subseteq 0 .. n, S # {}
  PROVE  Max(S) \in S /\ \A k \in S : k <= Max(S)
<1> DEFINE T == {n - k : k \in S}
<1>1. T \subseteq Nat /\ T # {}
  OBVIOUS
<1>2. PICK m \in T : \A t \in T : m <= t
  BY <1>1, NatMin
<1>3. PICK x \in S : m = n - x
  BY <1>2
<1>4. \A y \in S : x >= y
  <2> TAKE y \in S
  <2>1. m <= n - y
    BY <1>2
  <2> QED BY <1>3, <2>1
<1>5. \E z \in S : \A y \in S : z >= y
  BY <1>4
<1> QED BY <1>5 DEF Max

\* MinOf and MaxOf.
LEMMA MinMax ==
  ASSUME NEW a \in Int, NEW b \in Int
  PROVE  /\ MinOf(a, b) = IF a <= b THEN a ELSE b
         /\ MaxOf(a, b) = IF a <= b THEN b ELSE a
<1>1. MinOf(a, b) \in {a, b} /\ \A y \in {a, b} : MinOf(a, b) <= y
  <2>1. \E x \in {a, b} : \A y \in {a, b} : x <= y
    OBVIOUS
  <2> QED BY <2>1 DEF MinOf, Min
<1>2. MaxOf(a, b) \in {a, b} /\ \A y \in {a, b} : MaxOf(a, b) >= y
  <2>1. \E x \in {a, b} : \A y \in {a, b} : x >= y
    OBVIOUS
  <2> QED BY <2>1 DEF MaxOf, Max
<1> QED BY <1>1, <1>2

\* A loop over n segments that stops at the first that is not in T.
LEMMA LeadingSet ==
  ASSUME NEW n \in Nat, NEW T
  PROVE  LET k == Max({j \in 0 .. n : \A i \in 1 .. j : i \in T}) IN
         /\ k \in 0 .. n
         /\ \A i \in 1 .. k : i \in T
         /\ k < n => (k + 1) \notin T
<1> DEFINE S == {j \in 0 .. n : \A i \in 1 .. j : i \in T}
           k == Max(S)
<1>1. S \subseteq 0 .. n /\ 0 \in S
  OBVIOUS
<1>2. k \in S /\ \A j \in S : j <= k
  BY <1>1, MaxNat
<1>3. k \in 0 .. n /\ \A i \in 1 .. k : i \in T
  BY <1>2
<1> HIDE DEF k
<1>4. ASSUME k < n, (k + 1) \in T PROVE FALSE
  <2>1. k + 1 \in 0 .. n /\ \A i \in 1 .. k + 1 : i \in 1 .. k \/ i = k + 1
    BY <1>3, <1>4
  <2>2. k + 1 \in S
    BY <1>3, <1>4, <2>1
  <2> QED BY <1>2, <1>3, <2>2
<1> QED BY <1>3, <1>4 DEF k

\* What the members of a concatenation are.
LEMMA Joined ==
  ASSUME NEW S, NEW a \in Seq(S), NEW b \in Seq(S)
  PROVE  /\ a \o b \in Seq(S) /\ Len(a \o b) = Len(a) + Len(b)
         /\ Len(a) \in Nat /\ Len(b) \in Nat
         /\ \A i \in 1 .. Len(a) : (a \o b)[i] = a[i]
         /\ \A i \in 1 .. Len(b) : (a \o b)[Len(a) + i] = b[i]
         /\ \A i \in Len(a) + 1 .. Len(a) + Len(b) : (a \o b)[i] = b[i - Len(a)]
<1>1. /\ a \o b \in Seq(S) /\ Len(a \o b) = Len(a) + Len(b)
      /\ \A i \in 1 .. Len(a) + Len(b) : (a \o b)[i] = IF i <= Len(a) THEN a[i] ELSE b[i - Len(a)]
  BY ConcatProperties
<1>2. Len(a) \in Nat /\ Len(b) \in Nat
  OBVIOUS
<1> DEFINE c == a \o b
           n == Len(a)
           m == Len(b)
<1>3. /\ n \in Nat /\ m \in Nat
      /\ \A i \in 1 .. n + m : c[i] = IF i <= n THEN a[i] ELSE b[i - n]
  BY <1>1, <1>2
<1> HIDE DEF c, n, m
<1>4. /\ \A i \in 1 .. n : c[i] = a[i]
      /\ \A i \in 1 .. m : c[n + i] = b[i]
      /\ \A i \in n + 1 .. n + m : c[i] = b[i - n]
  BY <1>3
<1> QED BY <1>1, <1>2, <1>4 DEF c, n, m

\* What the members of a part of a sequence are.
LEMMA Part ==
  ASSUME NEW S, NEW a \in Seq(S), NEW j \in 1 .. Len(a) + 1, NEW k \in 0 .. Len(a), j <= k + 1
  PROVE  /\ SubSeq(a, j, k) \in Seq(S) /\ Len(SubSeq(a, j, k)) = k - j + 1
         /\ \A i \in 1 .. k - j + 1 : SubSeq(a, j, k)[i] = a[j + i - 1]
<1>1. /\ j \in Int /\ k \in Int /\ \A i \in j .. k : a[i] \in S
  <2>1. \A i \in 1 .. Len(a) : a[i] \in S
    OBVIOUS
  <2>2. Len(a) \in Nat
    OBVIOUS
  <2> QED BY <2>1, <2>2
<1>2. Len(a) \in Nat
  OBVIOUS
<1> QED BY <1>1, <1>2, SubSeqProperties

\* The first k members of a sequence, and the ones behind them.
LEMMA FrontBack ==
  ASSUME NEW S, NEW a \in Seq(S), NEW k \in 0 .. Len(a)
  PROVE  /\ Len(a) \in Nat
         /\ SubSeq(a, 1, k) \in Seq(S) /\ Len(SubSeq(a, 1, k)) = k
         /\ \A i \in 1 .. k : SubSeq(a, 1, k)[i] = a[i]
         /\ SubSeq(a, k + 1, Len(a)) \in Seq(S) /\ Len(SubSeq(a, k + 1, Len(a))) = Len(a) - k
         /\ \A i \in 1 .. Len(a) - k : SubSeq(a, k + 1, Len(a))[i] = a[k + i]
<1> DEFINE c == SubSeq(a, 1, k)
           d == SubSeq(a, k + 1, Len(a))
           m == Len(a)
<1>0. m \in Nat /\ k \in Nat /\ k <= m
  OBVIOUS
<1>1. c \in Seq(S) /\ Len(c) = k /\ \A i \in 1 .. k : c[i] = a[i]
  <2>1. Len(c) = k - 1 + 1 /\ \A i \in 1 .. k - 1 + 1 : c[i] = a[1 + i - 1]
    BY <1>0, Part
  <2>2. c \in Seq(S)
    BY <1>0, Part
  <2> QED BY <1>0, <2>1, <2>2
<1>2. d \in Seq(S) /\ Len(d) = m - k /\ \A i \in 1 .. m - k : d[i] = a[k + i]
  <2>1. Len(d) = m - (k + 1) + 1 /\ \A i \in 1 .. m - (k + 1) + 1 : d[i] = a[k + 1 + i - 1]
    BY <1>0, Part
  <2>2. d \in Seq(S)
    BY <1>0, Part
  <2> QED BY <1>0, <2>1, <2>2
<1> QED BY <1>0, <1>1, <1>2

\* Two sequences with the same members are the same.
LEMMA Same ==
  ASSUME NEW S, NEW a \in Seq(S), NEW b \in Seq(S), Len(a) = Len(b),
         \A i \in 1 .. Len(a) : a[i] = b[i]
  PROVE  a = b
BY SeqEqual

\* Moving the border between two queues leaves them together what they were.
LEMMA MoveBorder ==
  ASSUME NEW S, NEW a \in Seq(S), NEW b \in Seq(S), NEW k \in 0 .. Len(b)
  PROVE  (a \o SubSeq(b, 1, k)) \o SubSeq(b, k + 1, Len(b)) = a \o b
<1> DEFINE c == SubSeq(b, 1, k)
           d == SubSeq(b, k + 1, Len(b))
           e == a \o c
           n == Len(a)
           m == Len(b)
<1>0. n \in Nat /\ m \in Nat /\ k \in Nat /\ k <= m
  OBVIOUS
<1>1. c \in Seq(S) /\ Len(c) = k /\ \A i \in 1 .. k : c[i] = b[i]
  BY FrontBack
<1>2. d \in Seq(S) /\ Len(d) = m - k /\ \A i \in 1 .. m - k : d[i] = b[k + i]
  BY FrontBack
<1> HIDE DEF c, d
<1>3. /\ e \in Seq(S) /\ Len(e) = n + k
      /\ \A i \in 1 .. n : e[i] = a[i]
      /\ \A i \in n + 1 .. n + k : e[i] = b[i - n]
  <2>1. /\ e \in Seq(S) /\ Len(e) = n + Len(c)
        /\ \A i \in 1 .. n : e[i] = a[i]
        /\ \A i \in n + 1 .. n + Len(c) : e[i] = c[i - n]
    BY <1>1, Joined, ZenonT(60)
  <2> HIDE DEF e, n
  <2>2. Len(e) = n + k /\ \A i \in n + 1 .. n + k : e[i] = c[i - n] /\ i - n \in 1 .. k
    BY <1>0, <1>1, <2>1
  <2> QED BY <1>1, <2>1, <2>2
<1> HIDE DEF e
<1>4. /\ e \o d \in Seq(S) /\ Len(e \o d) = n + m
      /\ \A i \in 1 .. n + k : (e \o d)[i] = e[i]
      /\ \A i \in n + k + 1 .. n + m : (e \o d)[i] = b[i - n]
  <2> DEFINE x == e \o d
  <2>1. /\ x \in Seq(S) /\ Len(x) = Len(e) + Len(d)
        /\ \A i \in 1 .. Len(e) : x[i] = e[i]
        /\ \A i \in Len(e) + 1 .. Len(e) + Len(d) : x[i] = d[i - Len(e)]
    <3>1. e \in Seq(S) /\ d \in Seq(S)
      BY <1>2, <1>3
    <3> QED BY <3>1, Joined
  <2> HIDE DEF x, n, m
  <2>2. Len(x) = n + m /\ \A i \in 1 .. n + k : x[i] = e[i]
    BY <1>0, <1>2, <1>3, <2>1
  <2>3. ASSUME NEW i \in n + k + 1 .. n + m PROVE x[i] = b[i - n]
    <3>1. x[i] = d[i - (n + k)]
      BY <1>0, <1>2, <1>3, <2>1, SMTT(30)
    <3>2. i - (n + k) \in 1 .. m - k /\ k + (i - (n + k)) = i - n
      BY <1>0
    <3>3. d[i - (n + k)] = b[k + (i - (n + k))]
      BY <1>2, <3>2
    <3> QED BY <3>1, <3>2, <3>3
  <2> QED BY <2>1, <2>2, <2>3 DEF x
<1>5. /\ a \o b \in Seq(S) /\ Len(a \o b) = n + m
      /\ \A i \in 1 .. n : (a \o b)[i] = a[i]
      /\ \A i \in n + 1 .. n + m : (a \o b)[i] = b[i - n]
  BY Joined
<1>6. \A i \in 1 .. n + m : (e \o d)[i] = (a \o b)[i]
  <2> DEFINE x == e \o d
             y == a \o b
  <2>1. /\ \A i \in 1 .. n + k : x[i] = e[i]
        /\ \A i \in n + k + 1 .. n + m : x[i] = b[i - n]
        /\ \A i \in 1 .. n : y[i] = a[i]
        /\ \A i \in n + 1 .. n + m : y[i] = b[i - n]
    BY <1>4, <1>5
  <2> HIDE DEF x, y, n, m
  <2>2. ASSUME NEW i \in 1 .. n + m PROVE x[i] = y[i]
    <3>1. CASE i <= n
      <4>1. i \in 1 .. n /\ i \in 1 .. n + k
        BY <1>0, <3>1
      <4> QED BY <1>3, <2>1, <4>1
    <3>2. CASE i > n /\ i <= n + k
      <4>1. i \in n + 1 .. n + k /\ i \in 1 .. n + k /\ i \in n + 1 .. n + m
        BY <1>0, <3>2
      <4> QED BY <1>3, <2>1, <4>1
    <3>3. CASE i > n + k
      <4>1. i \in n + k + 1 .. n + m /\ i \in n + 1 .. n + m
        BY <1>0, <3>3
      <4> QED BY <2>1, <4>1
    <3> QED BY <1>0, <3>1, <3>2, <3>3
  <2> QED BY <2>2 DEF x, y
<1>7. e \o d = a \o b
  BY <1>4, <1>5, <1>6, Same
<1> QED BY <1>7 DEF c, d, e

\* Division.
LEMMA DivFacts ==
  ASSUME NEW x \in Nat, NEW m \in Nat, m >= 1
  PROVE  /\ x \div m \in Nat /\ m * (x \div m) <= x /\ x < m * (x \div m) + m
<1>1. x = m * (x \div m) + (x % m) /\ x % m \in 0 .. m - 1 /\ x \div m \in Int
  OBVIOUS
<1>2. x \div m >= 0
  OBVIOUS
<1> QED BY <1>1, <1>2

\* Products grow with their factors.
LEMMA Product ==
  ASSUME NEW i \in Nat, NEW j \in Nat, NEW m \in Nat
  PROVE  /\ m * i \in Nat
         /\ i <= j => m * i <= m * j
         /\ m * (i + 1) = m * i + m
<1>1. m * i \in Nat /\ m * j \in Nat /\ m * (i + 1) = m * i + m
  OBVIOUS
<1>2. i <= j => m * i <= m * j
  <2> SUFFICES ASSUME i <= j PROVE m * i <= m * j
    OBVIOUS
  <2>1. j - i \in Nat /\ m * (j - i) >= 0
    OBVIOUS
  <2>2. m * (j - i) = m * j - m * i
    OBVIOUS
  <2> QED BY <1>1, <2>1, <2>2
<1> QED BY <1>1, <1>2

-----------------------------------------------------------------------------
(* Segments.                                                               *)

\* A segment carries the bytes of its place in the stream, and something.
Sane(s) ==
  /\ \A j \in 1 .. Length(s) : s.p[j] = Start(s) + j - 1
  /\ Start(s) < End(s) /\ Stop(s) <= StreamLen

\* Where a segment begins and ends.
LEMMA SegmentFacts ==
  ASSUME NEW s \in Segment
  PROVE  /\ s.seqno \in SeqNos /\ s.fin \in BOOLEAN /\ s.p \in Seq(0 .. StreamLen - 1)
         /\ Start(s) \in Nat /\ Length(s) \in Nat /\ One(s.fin) \in {0, 1}
         /\ Stop(s) \in Nat /\ End(s) \in Nat
         /\ Stop(s) = Start(s) + Length(s)
         /\ End(s) = IF s.fin THEN Stop(s) + 1 ELSE Stop(s)
         /\ Start(s) <= Stop(s) /\ Stop(s) <= End(s) /\ End(s) <= Stop(s) + 1
         /\ DOMAIN s.p = 1 .. Length(s)
<1>1. s.seqno \in SeqNos /\ s.fin \in BOOLEAN /\ s.p \in Seq(0 .. StreamLen - 1)
  BY DEF Segment
<1>2. Start(s) \in Nat
  BY <1>1, OffsetType DEF Start
<1>3. Length(s) \in Nat /\ DOMAIN s.p = 1 .. Length(s)
  BY <1>1 DEF Length
<1>4. One(s.fin) \in {0, 1} /\ One(s.fin) = IF s.fin THEN 1 ELSE 0
  BY <1>1 DEF One
<1> QED BY <1>1, <1>2, <1>3, <1>4 DEF Stop, End

\* The numbers that tcp_output and tcp_free_acked_segments compute for the end
\* of a segment.
LEMMA EndOffset ==
  ASSUME NEW s \in Segment, Stop(s) <= StreamLen
  PROVE  /\ EndOf(s, TRUE) \in SeqNos /\ Offset(EndOf(s, TRUE)) = End(s)
         /\ EndOf(s, FALSE) \in SeqNos /\ Offset(EndOf(s, FALSE)) = Stop(s)
<1>1. /\ s.seqno \in SeqNos /\ Start(s) \in Nat /\ Length(s) \in Nat /\ One(s.fin) \in {0, 1}
      /\ Stop(s) = Start(s) + Length(s) /\ End(s) = Stop(s) + One(s.fin)
  BY SegmentFacts DEF End
<1>2. StreamLen + 1 < SEQ
  BY SeqBounds
<1>3. TCP_TCPLEN(s) = Length(s) + One(s.fin)
  BY DEF TCP_TCPLEN, Length
<1>4. TCP_TCPLEN(s) \in Nat /\ Offset(s.seqno) + TCP_TCPLEN(s) < SEQ
  BY <1>1, <1>2, <1>3, SeqBounds DEF Start
<1>5. Offset(s.seqno) + Length(s) < SEQ
  BY <1>1, <1>2, SeqBounds DEF Start
<1>6. /\ Add(s.seqno, TCP_TCPLEN(s)) \in SeqNos
      /\ Offset(Add(s.seqno, TCP_TCPLEN(s))) = Offset(s.seqno) + TCP_TCPLEN(s)
  BY <1>1, <1>4, OffsetAdd
<1>7. /\ Add(s.seqno, Length(s)) \in SeqNos
      /\ Offset(Add(s.seqno, Length(s))) = Offset(s.seqno) + Length(s)
  BY <1>1, <1>5, OffsetAdd
<1>8. Offset(s.seqno) = Start(s)
  BY DEF Start
<1>9. EndOf(s, TRUE) = Add(s.seqno, TCP_TCPLEN(s)) /\ EndOf(s, FALSE) = Add(s.seqno, Length(s))
  BY DEF EndOf
<1>10. Offset(s.seqno) + TCP_TCPLEN(s) = End(s) /\ Offset(s.seqno) + Length(s) = Stop(s)
  BY <1>1, <1>3, <1>8
<1> QED BY <1>6, <1>7, <1>9, <1>10

\* A segment that SegmentAt makes.
LEMMA NewSegment ==
  ASSUME NEW x \in SeqNos, NEW n \in Nat, NEW fin \in BOOLEAN,
         Offset(x) + n <= StreamLen, n > 0 \/ fin
  PROVE  LET s == SegmentAt(x, Offset(x), n, fin) IN
         s \in Segment /\ Sane(s) /\ Start(s) = Offset(x) /\ Length(s) = n /\ s.fin = fin
<1> DEFINE o == Offset(x)
           f == [i \in 1 .. n |-> o + i - 1]
           s == SegmentAt(x, o, n, fin)
<1>1. o \in Nat /\ StreamLen \in Nat
  BY OffsetType, SeqBounds
<1>2. o + n <= StreamLen /\ (n > 0 \/ fin)
  OBVIOUS
<1> HIDE DEF o
<1>3. f \in Seq(0 .. StreamLen - 1) /\ Len(f) = n /\ \A i \in 1 .. n : f[i] = o + i - 1
  BY <1>1, <1>2
<1>4. s = [seqno |-> x, fin |-> fin, p |-> f]
  BY DEF SegmentAt
<1> HIDE DEF f, s
<1>5. s \in Segment /\ s.seqno = x /\ s.fin = fin /\ s.p = f
  BY <1>3, <1>4 DEF Segment
<1>6. Start(s) = o /\ Length(s) = n
  BY <1>3, <1>5 DEF Start, Length, o
<1>7. Stop(s) = o + n /\ End(s) = o + n + One(fin)
  BY <1>5, <1>6 DEF Stop, End
<1>8. One(fin) \in {0, 1} /\ (fin => One(fin) = 1)
  BY DEF One
<1>9. Sane(s)
  <2>1. \A j \in 1 .. Length(s) : s.p[j] = Start(s) + j - 1
    BY <1>3, <1>5, <1>6
  <2>2. Start(s) < End(s) /\ Stop(s) <= StreamLen
    BY <1>1, <1>2, <1>6, <1>7, <1>8
  <2> QED BY <2>1, <2>2 DEF Sane
<1> QED BY <1>5, <1>6, <1>9 DEF s, o

\* The two parts of a segment that is cut in two.
LEMMA CutFacts ==
  ASSUME NEW h \in Segment, Sane(h), NEW n \in Nat, 1 <= n, n <= Length(h), n < Length(h) \/ h.fin
  PROVE  LET cut  == CutTo(h, n)
             rest == [h EXCEPT !.seqno = Add(h.seqno, n), !.p = SubSeq(h.p, n + 1, Len(h.p))]
         IN /\ cut \in Segment /\ Sane(cut) /\ cut.fin = h.fin /\ Length(cut) = n
            /\ Start(cut) = Start(h) /\ Stop(cut) = Start(h) + n
            /\ rest \in Segment /\ Sane(rest) /\ rest.fin = h.fin /\ Length(rest) = Length(h) - n
            /\ Start(rest) = Start(h) + n /\ Stop(rest) = Stop(h)
<1> DEFINE T == 0 .. StreamLen - 1
           x == h.p
           c == SubSeq(x, 1, n)
           d == SubSeq(x, n + 1, Len(x))
           cut == CutTo(h, n)
           rest == [h EXCEPT !.seqno = Add(h.seqno, n), !.p = d]
           m == Len(x)
           a == Add(h.seqno, n)
<1>1. /\ h.seqno \in SeqNos /\ x \in Seq(T) /\ m = Length(h) /\ m \in Nat /\ h.fin \in BOOLEAN
      /\ Start(h) \in Nat /\ Stop(h) = Start(h) + m
  BY SegmentFacts DEF Length
<1>2. /\ \A j \in 1 .. m : x[j] = Start(h) + j - 1
      /\ Stop(h) <= StreamLen /\ StreamLen \in Nat
  BY <1>1, SeqBounds DEF Sane
<1>3. c \in Seq(T) /\ Len(c) = n /\ \A i \in 1 .. n : c[i] = x[i]
  <2>1. 1 \in 1 .. Len(x) + 1 /\ n \in 0 .. Len(x) /\ 1 <= n + 1
    BY <1>1
  <2> HIDE DEF x, T
  <2>2. c \in Seq(T) /\ Len(c) = n - 1 + 1 /\ \A i \in 1 .. n - 1 + 1 : c[i] = x[1 + i - 1]
    BY <1>1, <2>1, Part
  <2>3. n - 1 + 1 = n /\ \A i \in 1 .. n : 1 + i - 1 = i
    OBVIOUS
  <2> HIDE DEF c
  <2> QED BY <2>2, <2>3
<1>4. d \in Seq(T) /\ Len(d) = m - n /\ \A i \in 1 .. m - n : d[i] = x[n + i]
  <2>1. n + 1 \in 1 .. Len(x) + 1 /\ Len(x) \in 0 .. Len(x) /\ n + 1 <= Len(x) + 1
    BY <1>1
  <2> HIDE DEF x, T
  <2>2. d \in Seq(T) /\ Len(d) = m - (n + 1) + 1 /\ \A i \in 1 .. m - (n + 1) + 1 : d[i] = x[(n + 1) + i - 1]
    BY <1>1, <2>1, Part
  <2> HIDE DEF d, m
  <2>3. m - (n + 1) + 1 = m - n /\ \A i \in 1 .. m - n : (n + 1) + i - 1 = n + i
    BY <1>1
  <2> QED BY <2>2, <2>3
<1>5. a \in SeqNos /\ Offset(a) = Start(h) + n
  <2>1. Offset(h.seqno) + n < SEQ
    <3>1. SEQ \in Nat /\ StreamLen < SEQ
      BY SeqBounds
    <3>2. Start(h) + n < SEQ
      BY <1>1, <1>2, <3>1
    <3> QED BY <3>2 DEF Start
  <2> QED BY <1>1, <2>1, OffsetAdd DEF Start
<1> HIDE DEF c, d, T, m, a
<1>6. cut = [h EXCEPT !.p = c]
  BY DEF CutTo, c
<1>7. rest = [h EXCEPT !.seqno = a, !.p = d]
  BY DEF a
<1> HIDE DEF cut, rest, x
<1>8. cut \in Segment /\ cut.seqno = h.seqno /\ cut.fin = h.fin /\ cut.p = c
  BY <1>3, <1>6 DEF Segment, T
<1>9. rest \in Segment /\ rest.seqno = a /\ rest.fin = h.fin /\ rest.p = d
  BY <1>4, <1>5, <1>7 DEF Segment, T
<1>10. /\ Length(cut) = n /\ Start(cut) = Start(h) /\ Length(rest) = m - n /\ Start(rest) = Start(h) + n
  BY <1>3, <1>4, <1>5, <1>8, <1>9 DEF Length, Start
<1>11. /\ Stop(cut) = Start(cut) + Length(cut) /\ Stop(rest) = Start(rest) + Length(rest)
       /\ Stop(cut) <= End(cut) /\ Stop(rest) <= End(rest) /\ End(cut) \in Nat /\ End(rest) \in Nat
       /\ rest.fin => End(rest) = Stop(rest) + 1
  BY <1>8, <1>9, SegmentFacts
<1>12. Stop(cut) = Start(h) + n /\ Stop(rest) = Stop(h)
  BY <1>1, <1>10, <1>11
<1>13. Sane(cut)
  <2>1. ASSUME NEW j \in 1 .. n PROVE cut.p[j] = Start(cut) + j - 1
    <3>1. j \in 1 .. m /\ c[j] = x[j]
      BY <1>1, <1>3
    <3> QED BY <1>2, <1>8, <1>10, <3>1
  <2>2. Start(cut) < End(cut) /\ Stop(cut) <= StreamLen
    BY <1>1, <1>2, <1>10, <1>11, <1>12
  <2> QED BY <1>10, <2>1, <2>2 DEF Sane
<1>14. Sane(rest)
  <2>1. ASSUME NEW j \in 1 .. m - n PROVE rest.p[j] = Start(rest) + j - 1
    <3>1. n + j \in 1 .. m /\ d[j] = x[n + j]
      BY <1>1, <1>4
    <3>2. x[n + j] = Start(h) + (n + j) - 1
      BY <1>2, <3>1
    <3>3. Start(h) + (n + j) - 1 = (Start(h) + n) + j - 1
      BY <1>1
    <3> QED BY <1>9, <1>10, <3>1, <3>2, <3>3
  <2>2. Start(rest) < End(rest) /\ Stop(rest) <= StreamLen
    <3>1. CASE n < Length(h)
      BY <1>1, <1>2, <1>10, <1>11, <1>12, <3>1
    <3>2. CASE h.fin
      <4>1. End(rest) = Stop(rest) + 1
        BY <1>9, <1>11, <3>2
      <4> QED BY <1>1, <1>2, <1>10, <1>12, <4>1
    <3> QED BY <3>1, <3>2
  <2> QED BY <1>10, <2>1, <2>2 DEF Sane
<1> QED BY <1>1, <1>8, <1>9, <1>10, <1>12, <1>13, <1>14 DEF cut, rest, d, x
=============================================================================
