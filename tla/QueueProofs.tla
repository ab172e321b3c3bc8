---------------------------- MODULE QueueProofs -----------------------------
(***************************************************************************)
(* Lemmas for OutputProofs: chains of segments, which is what the unacked  *)
(* and the unsent queue of LwipOutput form together.                       *)
(***************************************************************************)
EXTENDS LwipOutput, SeqProofs

\* The constants: the stream, its FIN and the peer's window take less than half
\* of the sequence numbers.
LEMMA Bounds ==
  /\ SEQ \in Nat /\ SEQ \div 2 \in Nat /\ 2 * (SEQ \div 2) = SEQ
  /\ ISS \in SeqNos /\ StreamLen \in Nat /\ PeerWnd \in Nat /\ FirstWnd \in Nat
  /\ 2 <= FirstWnd /\ FirstWnd <= PeerWnd
  /\ StreamLen + PeerWnd + 1 < SEQ \div 2
  /\ mss \in Nat /\ mss >= 1 /\ TCP_SND_BUF \in Nat /\ TCP_MAXRTX \in Nat /\ TCP_MAXRTX >= 1
BY SeqBounds, OutputAssumption

-----------------------------------------------------------------------------
(* Chains of segments.                                                     *)

\* Each segment begins where the one before it ends, and nowhere else.
Chain(all) ==
  /\ \A i \in 1 .. Len(all) : Sane(all[i])
  /\ \A i, j \in 1 .. Len(all) : i < j =>
       Start(all[i]) < Start(all[j]) /\ Stop(all[i]) <= Start(all[j])
  /\ \A i \in 1 .. Len(all) - 1 : Stop(all[i]) = Start(all[i + 1])

\* Of two segments of a chain the later one does not end before the other.
LEMMA ChainEnds ==
  ASSUME NEW all \in Seq(Segment), Chain(all),
         NEW i \in 1 .. Len(all), NEW j \in 1 .. Len(all), i <= j
  PROVE  Stop(all[i]) <= Stop(all[j]) /\ End(all[i]) <= End(all[j]) /\ Start(all[i]) <= Start(all[j])
<1>1. all[i] \in Segment /\ all[j] \in Segment
  OBVIOUS
<1>2. CASE i = j
  <2>1. Start(all[i]) \in Nat /\ Stop(all[i]) \in Nat /\ End(all[i]) \in Nat
    BY <1>1, SegmentFacts
  <2> QED BY <1>2, <2>1
<1>3. CASE i < j
  <2>1. Start(all[i]) < Start(all[j]) /\ Stop(all[i]) <= Start(all[j]) /\ Start(all[j]) < End(all[j])
    BY <1>3 DEF Chain, Sane
  <2>2. /\ Start(all[i]) \in Nat /\ Stop(all[i]) \in Nat /\ End(all[i]) \in Nat
        /\ Start(all[j]) \in Nat /\ Stop(all[j]) \in Nat /\ End(all[j]) \in Nat
        /\ Start(all[j]) <= Stop(all[j]) /\ End(all[i]) <= Stop(all[i]) + 1
    BY <1>1, SegmentFacts
  <2> QED BY <2>1, <2>2
<1> QED BY <1>2, <1>3

\* The bytes of a chain are those from its first to its last one.
LEMMA ChainBytes ==
  ASSUME NEW all \in Seq(Segment), Chain(all)
  PROVE  Bytes(all) = IF all = <<>> THEN 0 ELSE Stop(Last(all)) - Start(all[1])
<1> DEFINE n == Len(all)
           P == UNION {{i} \X DOMAIN all[i].p : i \in DOMAIN all}
<1>0. n \in Nat /\ DOMAIN all = 1 .. n /\ Bytes(all) = Cardinality(P)
  BY DEF Bytes
<1>1. CASE all = <<>>
  <2>1. P = {}
    BY <1>1
  <2> QED BY <1>0, <1>1, <2>1, FS_EmptySet
<1>2. CASE all # <<>>
  <2> DEFINE a == Start(all[1])
             b == Stop(Last(all))
             St(i) == Start(all[i])
             Sp(i) == Stop(all[i])
             f == [x \in P |-> St(x[1]) + x[2] - 1]
  <2>1. n >= 1 /\ Last(all) = all[n]
    BY <1>0, <1>2 DEF Last
  <2>2. \A i \in 1 .. n : /\ St(i) \in Nat /\ Sp(i) \in Nat /\ Length(all[i]) \in Nat
                          /\ Sp(i) = St(i) + Length(all[i]) /\ DOMAIN all[i].p = 1 .. Length(all[i])
    <3> TAKE i \in 1 .. n
    <3>1. all[i] \in Segment
      OBVIOUS
    <3> QED BY <3>1, SegmentFacts
  <2>3. a = St(1) /\ b = Sp(n) /\ a \in Int /\ b \in Int /\ a <= b
    <3>1. 1 \in 1 .. n /\ n \in 1 .. n /\ 1 <= n
      BY <1>0, <2>1
    <3>2. Start(all[1]) <= Start(all[n])
      BY <3>1, ChainEnds
    <3> QED BY <2>1, <2>2, <3>1, <3>2
  <2>4. \A i, j \in 1 .. n : i < j => Sp(i) <= St(j)
    BY DEF Chain
  <2>5. \A i \in 1 .. n - 1 : Sp(i) = St(i + 1)
    BY DEF Chain
  <2>6. \A i \in 1 .. n : a <= St(i) /\ Sp(i) <= b
    <3> TAKE i \in 1 .. n
    <3>1. 1 \in 1 .. n /\ n \in 1 .. n /\ 1 <= i /\ i <= n
      BY <1>0, <2>1
    <3>2. Start(all[1]) <= Start(all[i]) /\ Stop(all[i]) <= Stop(all[n])
      BY <3>1, ChainEnds
    <3> QED BY <2>3, <3>2
  <2>7. \A x : x \in P <=> \E i \in 1 .. n : \E j \in 1 .. Length(all[i]) : x = <<i, j>>
    <3>1. \A i \in 1 .. n : DOMAIN all[i].p = 1 .. Length(all[i])
      BY <2>2
    <3> HIDE DEF n
    <3>2. P = UNION {{i} \X (1 .. Length(all[i])) : i \in 1 .. n}
      BY <1>0, <3>1
    <3> QED BY <3>2
  <2> HIDE DEF P, a, b, n, St, Sp
  <2>8. f \in [P -> a .. b - 1]
    <3>1. ASSUME NEW x \in P PROVE St(x[1]) + x[2] - 1 \in a .. b - 1
      <4>1. PICK i \in 1 .. n : \E j \in 1 .. Length(all[i]) : x = <<i, j>>
        BY <2>7
      <4>2. PICK j \in 1 .. Length(all[i]) : x = <<i, j>>
        BY <4>1
      <4>3. x[1] = i /\ x[2] = j
        BY <4>2
      <4>4. /\ St(i) \in Nat /\ Sp(i) \in Nat /\ Length(all[i]) \in Nat
            /\ Sp(i) = St(i) + Length(all[i]) /\ a <= St(i) /\ Sp(i) <= b
        BY <2>2, <2>6
      <4> QED BY <2>3, <4>3, <4>4
    <3> QED BY <3>1
  <2>9. ASSUME NEW x \in P, NEW y \in P, f[x] = f[y] PROVE x = y
    <3>1. PICK i \in 1 .. n : \E j \in 1 .. Length(all[i]) : x = <<i, j>>
      BY <2>7
    <3>2. PICK j \in 1 .. Length(all[i]) : x = <<i, j>>
      BY <3>1
    <3>3. PICK k \in 1 .. n : \E l \in 1 .. Length(all[k]) : y = <<k, l>>
      BY <2>7
    <3>4. PICK l \in 1 .. Length(all[k]) : y = <<k, l>>
      BY <3>3
    <3>5. St(i) + j - 1 = St(k) + l - 1
      BY <2>9, <3>2, <3>4
    <3>6. /\ St(i) \in Nat /\ Sp(i) \in Nat /\ Length(all[i]) \in Nat /\ Sp(i) = St(i) + Length(all[i])
          /\ St(k) \in Nat /\ Sp(k) \in Nat /\ Length(all[k]) \in Nat /\ Sp(k) = St(k) + Length(all[k])
      BY <2>2
    <3>7. ~(i < k) /\ ~(k < i)
      <4>1. i < k => Sp(i) <= St(k)
        BY <2>4
      <4>2. k < i => Sp(k) <= St(i)
        BY <2>4
      <4> QED BY <3>5, <3>6, <4>1, <4>2, SMTT(30)
    <3>8. i = k
      BY <1>0, <3>7
    <3> QED BY <3>2, <3>4, <3>5, <3>6, <3>8
  <2>10. ASSUME NEW v \in a .. b - 1 PROVE \E x \in P : f[x] = v
    <3> DEFINE T == {i \in 1 .. n : St(i) <= v}
    <3>1. T \subseteq 0 .. n /\ T # {}
      <4>1. 1 \in 1 .. n /\ St(1) <= v
        BY <1>0, <2>1, <2>3
      <4> QED BY <1>0, <4>1
    <3>2. PICK i \in T : \A k \in T : k <= i
      BY <1>0, <3>1, MaxNat
    <3>3. i \in 1 .. n /\ St(i) <= v
      BY <3>2
    <3>4. v < Sp(i)
      <4>1. CASE i = n
        BY <2>3, <4>1
      <4>2. CASE i < n
        <5>1. i + 1 \in 1 .. n /\ i \in 1 .. n - 1
          BY <1>0, <3>3, <4>2
        <5>2. ~(St(i + 1) <= v)
          BY <3>2, <3>3, <5>1
        <5>3. St(i + 1) \in Nat
          BY <2>2, <5>1
        <5>4. Sp(i) = St(i + 1)
          BY <2>5, <5>1
        <5>5. v \in Int
          BY <2>3
        <5> QED BY <5>2, <5>3, <5>4, <5>5
      <4> QED BY <1>0, <3>3, <4>1, <4>2
    <3> DEFINE j == v - St(i) + 1
    <3>5. St(i) \in Nat /\ Sp(i) \in Nat /\ Length(all[i]) \in Nat /\ Sp(i) = St(i) + Length(all[i])
      BY <2>2, <3>3
    <3>6. j \in 1 .. Length(all[i]) /\ St(i) + j - 1 = v
      BY <2>3, <3>3, <3>4, <3>5, SMTT(30)
    <3>7. <<i, j>> \in P
      BY <2>7, <3>3, <3>6
    <3>8. f[<<i, j>>] = v
      BY <3>6, <3>7
    <3> QED BY <3>7, <3>8
  <2>11. f \in Injection(P, a .. b - 1)
    BY <2>8, <2>9 DEF Injection, IsInjective
  <2>12. f \in Surjection(P, a .. b - 1)
    BY <2>8, <2>10 DEF Surjection
  <2>13. IsFiniteSet(a .. b - 1) /\ Cardinality(a .. b - 1) = b - a
    <3>1. a \in Int /\ b - 1 \in Int
      BY <2>3
    <3>2. IsFiniteSet(a .. b - 1) /\ Cardinality(a .. b - 1) = IF a > b - 1 THEN 0 ELSE (b - 1) - a + 1
      BY <3>1, FS_Interval
    <3> QED BY <2>3, <3>2
  <2>14. Cardinality(P) = b - a
    BY <2>11, <2>12, <2>13, FS_Injection
  <2> QED BY <1>0, <1>2, <2>14 DEF a, b, P
<1> QED BY <1>1, <1>2

\* One segment is a chain.
LEMMA ChainOne ==
  ASSUME NEW s \in Segment, Sane(s)
  PROVE  <<s>> \in Seq(Segment) /\ Len(<<s>>) = 1 /\ <<s>>[1] = s /\ Chain(<<s>>)
<1> DEFINE c == <<s>>
<1>1. c \in Seq(Segment) /\ Len(c) = 1 /\ c[1] = s
  OBVIOUS
<1> HIDE DEF c
<1>2. Chain(c)
  BY <1>1 DEF Chain
<1> QED BY <1>1, <1>2 DEF c

\* A part of a chain is a chain.
LEMMA ChainPart ==
  ASSUME NEW all \in Seq(Segment), Chain(all),
         NEW j \in 1 .. Len(all) + 1, NEW k \in 0 .. Len(all), j <= k + 1
  PROVE  Chain(SubSeq(all, j, k))
<1> DEFINE c == SubSeq(all, j, k)
           n == Len(all)
           d == k - j + 1
<1>1. /\ n \in Nat /\ d \in Nat /\ Len(c) = d /\ c \in Seq(Segment)
      /\ \A i \in 1 .. d : c[i] = all[j + i - 1]
  BY Part
<1>2. /\ \A i \in 1 .. n : Sane(all[i])
      /\ \A i, l \in 1 .. n : i < l => Start(all[i]) < Start(all[l]) /\ Stop(all[i]) <= Start(all[l])
      /\ \A i \in 1 .. n - 1 : Stop(all[i]) = Start(all[i + 1])
  BY DEF Chain
<1>3. j \in 1 .. n + 1 /\ k \in 0 .. n
  OBVIOUS
<1> HIDE DEF c, n
<1>4. \A i \in 1 .. d : j + i - 1 \in 1 .. n
  BY <1>1, <1>3
<1>5. \A i \in 1 .. d : Sane(c[i])
  BY <1>1, <1>2, <1>4
<1>6. ASSUME NEW i \in 1 .. d, NEW l \in 1 .. d, i < l
      PROVE  Start(c[i]) < Start(c[l]) /\ Stop(c[i]) <= Start(c[l])
  <2>1. j + i - 1 \in 1 .. n /\ j + l - 1 \in 1 .. n /\ j + i - 1 < j + l - 1
    BY <1>1, <1>3, <1>4, <1>6
  <2> QED BY <1>1, <1>2, <2>1
<1>7. ASSUME NEW i \in 1 .. d - 1 PROVE Stop(c[i]) = Start(c[i + 1])
  <2>1. j + i - 1 \in 1 .. n - 1 /\ j + (i + 1) - 1 = (j + i - 1) + 1 /\ i \in 1 .. d /\ i + 1 \in 1 .. d
    BY <1>1, <1>3
  <2> QED BY <1>1, <1>2, <2>1
<1>8. Chain(c)
  BY <1>1, <1>5, <1>6, <1>7 DEF Chain
<1> QED BY <1>8 DEF c

\* A chain that begins where another one ends.
LEMMA ChainGlue ==
  ASSUME NEW a \in Seq(Segment), NEW b \in Seq(Segment), Chain(a), Chain(b),
         a # <<>> /\ b # <<>> => Stop(a[Len(a)]) = Start(b[1]) /\ Length(a[Len(a)]) >= 1
  PROVE  Chain(a \o b)
<1> DEFINE n == Len(a)
           k == Len(b)
           c == a \o b
<1>1. /\ n \in Nat /\ k \in Nat /\ c \in Seq(Segment) /\ Len(c) = n + k
      /\ \A i \in 1 .. n : c[i] = a[i]
      /\ \A i \in n + 1 .. n + k : c[i] = b[i - n]
  BY Joined
<1>2. n >= 1 /\ k >= 1 => Stop(a[n]) = Start(b[1]) /\ Length(a[n]) >= 1
  OBVIOUS
<1>3. /\ \A i \in 1 .. n : Sane(a[i])
      /\ \A i, j \in 1 .. n : i < j => Start(a[i]) < Start(a[j]) /\ Stop(a[i]) <= Start(a[j])
      /\ \A i \in 1 .. n - 1 : Stop(a[i]) = Start(a[i + 1])
  BY DEF Chain
<1>4. /\ \A i \in 1 .. k : Sane(b[i])
      /\ \A i, j \in 1 .. k : i < j => Start(b[i]) < Start(b[j]) /\ Stop(b[i]) <= Start(b[j])
      /\ \A i \in 1 .. k - 1 : Stop(b[i]) = Start(b[i + 1])
  BY DEF Chain
<1>5. ASSUME NEW i \in 1 .. n, NEW j \in 1 .. k
      PROVE  Start(a[i]) < Start(b[j]) /\ Stop(a[i]) <= Start(b[j])
  <2>1. n \in 1 .. n /\ 1 \in 1 .. k /\ i <= n /\ 1 <= j
    BY <1>1
  <2>2. a[i] \in Segment /\ a[n] \in Segment /\ b[1] \in Segment /\ b[j] \in Segment
    BY <2>1
  <2>3. Stop(a[i]) <= Stop(a[n]) /\ Start(a[i]) <= Start(a[n]) /\ Start(b[1]) <= Start(b[j])
    BY <2>1, ChainEnds
  <2>4. Stop(a[n]) = Start(b[1]) /\ Length(a[n]) >= 1
    BY <1>2, <2>1
  <2>5. /\ Stop(a[i]) \in Nat /\ Stop(a[n]) \in Nat /\ Start(b[1]) \in Nat /\ Start(b[j]) \in Nat
        /\ Start(a[i]) \in Nat /\ Start(a[n]) \in Nat /\ Length(a[n]) \in Nat
        /\ Stop(a[n]) = Start(a[n]) + Length(a[n])
    BY <2>2, SegmentFacts
  <2> QED BY <2>3, <2>4, <2>5
<1> HIDE DEF n, k, c
<1>6. \A i \in 1 .. n + k : i \in 1 .. n \/ (i \in n + 1 .. n + k /\ i - n \in 1 .. k)
  BY <1>1
<1>7. \A i \in 1 .. n + k : Sane(c[i])
  BY <1>1, <1>3, <1>4, <1>6
<1>8. ASSUME NEW i \in 1 .. n + k, NEW j \in 1 .. n + k, i < j
      PROVE  Start(c[i]) < Start(c[j]) /\ Stop(c[i]) <= Start(c[j])
  <2>1. CASE j \in 1 .. n
    <3>1. i \in 1 .. n
      BY <1>1, <1>8, <2>1
    <3>2. c[i] = a[i] /\ c[j] = a[j]
      BY <1>1, <2>1, <3>1
    <3> QED BY <1>3, <1>8, <2>1, <3>1, <3>2
  <2>2. CASE i \in 1 .. n /\ j \in n + 1 .. n + k /\ j - n \in 1 .. k
    <3>1. c[i] = a[i] /\ c[j] = b[j - n]
      BY <1>1, <2>2
    <3> QED BY <1>5, <2>2, <3>1
  <2>3. CASE i \in n + 1 .. n + k /\ i - n \in 1 .. k /\ j \in n + 1 .. n + k /\ j - n \in 1 .. k
    <3>1. c[i] = b[i - n] /\ c[j] = b[j - n] /\ i - n < j - n
      BY <1>1, <1>8, <2>3
    <3> QED BY <1>4, <2>3, <3>1
  <2>4. i \in n + 1 .. n + k => j \in n + 1 .. n + k
    BY <1>1, <1>8
  <2>5. /\ i \in 1 .. n \/ (i \in n + 1 .. n + k /\ i - n \in 1 .. k)
        /\ j \in 1 .. n \/ (j \in n + 1 .. n + k /\ j - n \in 1 .. k)
    BY <1>6
  <2>6. j \in n + 1 .. n + k => j - n \in 1 .. k
    BY <1>1
  <2> QED BY <2>1, <2>2, <2>3, <2>4, <2>5, <2>6
<1>9. ASSUME NEW i \in 1 .. n + k - 1 PROVE Stop(c[i]) = Start(c[i + 1])
  <2>1. CASE i \in 1 .. n - 1
    <3>1. i \in 1 .. n /\ i + 1 \in 1 .. n
      BY <1>1, <2>1
    <3>2. c[i] = a[i] /\ c[i + 1] = a[i + 1]
      BY <1>1, <3>1
    <3> QED BY <1>3, <2>1, <3>2
  <2>2. CASE i = n
    <3>1. n \in 1 .. n /\ n + 1 \in n + 1 .. n + k /\ (n + 1) - n = 1 /\ n >= 1 /\ k >= 1
      BY <1>1, <2>2
    <3>2. c[i] = a[n] /\ c[i + 1] = b[1]
      BY <1>1, <2>2, <3>1
    <3> QED BY <1>2, <3>1, <3>2
  <2>3. CASE i \in n + 1 .. n + k - 1
    <3>1. i \in n + 1 .. n + k /\ i + 1 \in n + 1 .. n + k /\ (i + 1) - n = (i - n) + 1 /\ i - n \in 1 .. k - 1
      BY <1>1, <2>3
    <3>2. c[i] = b[i - n] /\ c[i + 1] = b[(i - n) + 1]
      BY <1>1, <3>1
    <3> QED BY <1>4, <3>1, <3>2
  <2> QED BY <1>1, <2>1, <2>2, <2>3
<1>10. Chain(c)
  BY <1>1, <1>7, <1>8, <1>9 DEF Chain
<1> QED BY <1>10 DEF c

-----------------------------------------------------------------------------
(* New segments.                                                           *)

\* What tcp_write makes of the bytes behind the first pos of a write.
LEMMA NewChain ==
  ASSUME NEW q, q.snd_lbb \in SeqNos, MssLocal(q) \in Nat, MssLocal(q) >= 1,
         NEW pos \in Nat, NEW len \in Nat, pos <= len,
         Offset(q.snd_lbb) + len <= StreamLen
  PROVE  LET new  == NewSegments(q, pos, len)
             base == Offset(q.snd_lbb)
         IN /\ new \in Seq(Segment) /\ Chain(new)
            /\ \A i \in 1 .. Len(new) : /\ Length(new[i]) >= 1 /\ Length(new[i]) <= MssLocal(q)
                                        /\ new[i].fin = FALSE
            /\ new # <<>> => Start(new[1]) = base + pos /\ Stop(new[Len(new)]) = base + len
            /\ new = <<>> => pos = len
<1> DEFINE m == MssLocal(q)
           lbb == q.snd_lbb
           base == Offset(lbb)
           n == (len - pos + m - 1) \div m
           At(i) == pos + (i - 1) * m
           sg(i) == SegmentAt(Add(lbb, At(i)), base + At(i), MinOf(m, len - At(i)), FALSE)
           new == [i \in 1 .. n |-> sg(i)]
<1>1. m \in Nat /\ m >= 1 /\ lbb \in SeqNos /\ base \in Nat /\ base + len <= StreamLen
  BY OffsetType
<1>2. NewSegments(q, pos, len) = new
  BY DEF NewSegments
<1> HIDE DEF m, lbb, base
<1>3. n \in Nat /\ m * n <= len - pos + m - 1 /\ len - pos + m - 1 < m * n + m
  <2>1. len - pos + m - 1 \in Nat
    BY <1>1
  <2> QED BY <1>1, <2>1, DivFacts
<1> HIDE DEF n
<1>4. ASSUME NEW i \in 1 .. n
      PROVE  /\ At(i) \in Nat /\ At(i) < len /\ At(i + 1) = At(i) + m /\ (i = n => len <= At(i) + m)
             /\ (i < n => At(i) + m < len)
  <2>1. i \in Nat /\ i - 1 \in Nat /\ i - 1 <= n - 1 /\ n - 1 \in Nat /\ (i - 1) + 1 = i /\ i <= n
    BY <1>3
  <2> DEFINE u == m * (i - 1)
             v == m * i
             w == m * n
  <2>2. u \in Nat /\ v = u + m
    <3>1. m * ((i - 1) + 1) = m * (i - 1) + m /\ m * (i - 1) \in Nat
      BY <1>1, <2>1, Product
    <3> QED BY <2>1, <3>1
  <2>3. v <= w
    BY <1>1, <1>3, <2>1, Product
  <2>4. i < n => v + m <= w
    <3> SUFFICES ASSUME i < n PROVE v + m <= w
      OBVIOUS
    <3>1. i + 1 \in Nat /\ i + 1 <= n
      BY <1>3, <2>1
    <3>2. m * (i + 1) <= m * n /\ m * (i + 1) = m * i + m
      BY <1>1, <1>3, <2>1, <3>1, Product
    <3> QED BY <3>2
  <2>5. At(i) = pos + u /\ At(i + 1) = pos + v
    BY <1>1, <2>1
  <2>6. i = n => v = w
    OBVIOUS
  <2>7. w \in Int /\ v \in Int
    BY <1>1, <1>3, <2>1
  <2> HIDE DEF u, v, w, At
  <2>8. w <= len - pos + m - 1 /\ len - pos + m - 1 < w + m
    BY <1>3 DEF w
  <2> QED BY <1>1, <2>2, <2>3, <2>4, <2>5, <2>6, <2>7, <2>8
<1> HIDE DEF At
<1>5. ASSUME NEW i \in 1 .. n
      PROVE  /\ sg(i) \in Segment /\ Sane(sg(i)) /\ Start(sg(i)) = base + At(i) /\ sg(i).fin = FALSE
             /\ Length(sg(i)) >= 1 /\ Length(sg(i)) <= m /\ Length(sg(i)) \in Nat
             /\ Stop(sg(i)) = IF i = n THEN base + len ELSE base + At(i + 1)
  <2> DEFINE a == At(i)
             k == MinOf(m, len - a)
             x == Add(lbb, a)
  <2>1. a \in Nat /\ a < len /\ (i = n => len <= a + m) /\ (i < n => a + m < len) /\ At(i + 1) = a + m
    BY <1>4
  <2> HIDE DEF a
  <2>2. k = IF m <= len - a THEN m ELSE len - a
    <3>1. m \in Int /\ len - a \in Int
      BY <1>1, <2>1
    <3> QED BY <3>1, MinMax
  <2> HIDE DEF k
  <2>3. k \in Nat /\ k >= 1 /\ k <= m /\ a + k <= len /\ (i = n => a + k = len) /\ (i < n => k = m)
    BY <1>1, <2>1, <2>2
  <2>4. x \in SeqNos /\ Offset(x) = base + a
    <3>1. base + a < SEQ
      BY <1>1, <2>1, Bounds
    <3> QED BY <1>1, <2>1, <3>1, OffsetAdd DEF base
  <2> HIDE DEF x
  <2>5. Offset(x) + k <= StreamLen
    BY <1>1, <2>1, <2>3, <2>4, Bounds
  <2> DEFINE s == SegmentAt(x, Offset(x), k, FALSE)
  <2>6. s \in Segment /\ Sane(s) /\ Start(s) = Offset(x) /\ Length(s) = k /\ s.fin = FALSE
    <3>1. k > 0 \/ FALSE
      BY <2>3
    <3> QED BY <2>3, <2>4, <2>5, <3>1, NewSegment
  <2>7. sg(i) = s
    BY <2>4 DEF x, k, a
  <2> HIDE DEF s, sg
  <2>8. Stop(s) = base + a + k
    BY <2>4, <2>6 DEF Stop
  <2>9. i < n \/ i = n
    BY <1>3
  <2>10. Stop(s) = IF i = n THEN base + len ELSE base + At(i + 1)
    BY <1>1, <2>1, <2>3, <2>8, <2>9
  <2>11. Start(s) = base + At(i)
    BY <2>4, <2>6 DEF a
  <2> QED BY <2>3, <2>6, <2>7, <2>10, <2>11
<1> HIDE DEF sg
<1>6. new \in Seq(Segment) /\ Len(new) = n /\ \A i \in 1 .. n : new[i] = sg(i)
  <2>1. \A i \in 1 .. n : sg(i) \in Segment
    BY <1>5
  <2>2. new \in [1 .. n -> Segment]
    BY <2>1
  <2>3. \A i \in 1 .. n : new[i] = sg(i)
    OBVIOUS
  <2> HIDE DEF new
  <2>4. new \in Seq(Segment) /\ Len(new) = n
    BY <1>3, <2>2
  <2> QED BY <2>3, <2>4
<1> HIDE DEF new
<1>7. \A i \in 1 .. n : /\ Sane(new[i]) /\ Length(new[i]) >= 1 /\ Length(new[i]) <= m /\ new[i].fin = FALSE
                        /\ Start(new[i]) = base + At(i)
                        /\ Stop(new[i]) = IF i = n THEN base + len ELSE base + At(i + 1)
  BY <1>5, <1>6
<1>8. \A i, j \in 1 .. n : i < j => At(i) + m <= At(j)
  <2> SUFFICES ASSUME NEW i \in 1 .. n, NEW j \in 1 .. n, i < j PROVE At(i) + m <= At(j)
    OBVIOUS
  <2>1. i \in Nat /\ j - 1 \in Nat /\ i <= j - 1 /\ i - 1 \in Nat
    BY <1>3
  <2>2. m * i <= m * (j - 1)
    BY <1>1, <2>1, Product
  <2>3. At(i + 1) = At(i) + m
    BY <1>4
  <2>4. At(i + 1) = pos + m * i /\ At(j) = pos + m * (j - 1)
    BY <1>1, <2>1 DEF At
  <2>5. m * i \in Int /\ m * (j - 1) \in Int
    BY <1>1, <2>1
  <2> QED BY <2>2, <2>3, <2>4, <2>5
<1>9. Chain(new)
  <2>1. ASSUME NEW i \in 1 .. n, NEW j \in 1 .. n, i < j
        PROVE  Start(new[i]) < Start(new[j]) /\ Stop(new[i]) <= Start(new[j])
    <3>1. At(i) \in Nat /\ At(j) \in Nat /\ At(i + 1) = At(i) + m /\ At(i) + m <= At(j)
      BY <1>4, <1>8, <2>1
    <3>2. /\ Start(new[i]) = base + At(i) /\ Start(new[j]) = base + At(j)
          /\ Stop(new[i]) = IF i = n THEN base + len ELSE base + At(i + 1)
      BY <1>7
    <3>3. i # n
      BY <1>3, <2>1
    <3> QED BY <1>1, <3>1, <3>2, <3>3
  <2>2. ASSUME NEW i \in 1 .. n - 1 PROVE Stop(new[i]) = Start(new[i + 1])
    <3>1. i \in 1 .. n /\ i + 1 \in 1 .. n /\ i # n
      BY <1>3
    <3> QED BY <1>7, <3>1
  <2> QED BY <1>6, <1>7, <2>1, <2>2 DEF Chain
<1>10. new # <<>> => Start(new[1]) = base + pos /\ Stop(new[n]) = base + len
  <2> SUFFICES ASSUME new # <<>> PROVE Start(new[1]) = base + pos /\ Stop(new[n]) = base + len
    OBVIOUS
  <2>1. 1 \in 1 .. n /\ n \in 1 .. n
    BY <1>3, <1>6
  <2>2. At(1) = pos
    BY <1>1 DEF At
  <2> QED BY <1>7, <2>1, <2>2
<1>11. new = <<>> => pos = len
  <2> SUFFICES ASSUME new = <<>> PROVE pos = len
    OBVIOUS
  <2>1. n = 0
    BY <1>6
  <2>2. m * n = 0
    BY <1>1, <2>1
  <2> QED BY <1>1, <1>3, <2>2
<1> QED BY <1>2, <1>6, <1>7, <1>9, <1>10, <1>11 DEF m, base, lbb

-----------------------------------------------------------------------------
(* The two queues together.                                                *)

\* The sequence number behind a segment, as snd_lbb counts it: a FIN on data is
\* not counted.
Top(s) == Stop(s) + (IF Length(s) = 0 THEN 1 ELSE 0)

\* The queues all hold what is between the last byte acknowledged, la, and the
\* last one written, lbb, in segments of at most m bytes.
Linked(all, la, lbb, m) ==
  /\ Chain(all)
  /\ \A i \in 1 .. Len(all) : Length(all[i]) <= m
  /\ all # <<>> => Start(all[1]) <= la /\ Top(all[Len(all)]) = lbb
  /\ all = <<>> => la >= lbb

\* Top, for a segment with data and for a FIN alone.
LEMMA TopFacts ==
  ASSUME NEW s \in Segment, Sane(s)
  PROVE  /\ Top(s) \in Nat /\ Stop(s) <= Top(s) /\ Top(s) <= End(s)
         /\ Length(s) >= 1 => Top(s) = Stop(s)
         /\ Length(s) = 0 => s.fin /\ Top(s) = Stop(s) + 1
         /\ ~s.fin => Length(s) >= 1
<1>1. /\ Length(s) \in Nat /\ Stop(s) \in Nat /\ Start(s) \in Nat /\ Stop(s) = Start(s) + Length(s)
      /\ s.fin \in BOOLEAN /\ End(s) = IF s.fin THEN Stop(s) + 1 ELSE Stop(s)
  BY SegmentFacts
<1>2. Start(s) < End(s)
  BY DEF Sane
<1>3. Length(s) = 0 => s.fin
  BY <1>1, <1>2
<1>4. Top(s) = IF Length(s) = 0 THEN Stop(s) + 1 ELSE Stop(s)
  BY <1>1 DEF Top
<1> QED BY <1>1, <1>3, <1>4

\* New segments behind the others, none of which is a FIN alone.
LEMMA LinkedAppend ==
  ASSUME NEW all \in Seq(Segment), NEW new \in Seq(Segment),
         NEW la \in Nat, NEW lbb \in Nat, NEW m \in Nat, NEW top \in Nat,
         Linked(all, la, lbb, m), la <= lbb,
         all # <<>> => Length(all[Len(all)]) >= 1,
         Chain(new), \A i \in 1 .. Len(new) : Length(new[i]) <= m,
         new # <<>> => Start(new[1]) = lbb /\ Top(new[Len(new)]) = top,
         new = <<>> => top = lbb
  PROVE  Linked(all \o new, la, top, m)
<1> DEFINE n == Len(all)
           k == Len(new)
           c == all \o new
<1>1. /\ n \in Nat /\ k \in Nat /\ c \in Seq(Segment) /\ Len(c) = n + k
      /\ \A i \in 1 .. n : c[i] = all[i]
      /\ \A i \in n + 1 .. n + k : c[i] = new[i - n]
  BY Joined
<1>2. CASE new = <<>>
  <2>1. c = all /\ top = lbb
    BY <1>2
  <2> QED BY <2>1
<1>3. CASE new # <<>>
  <2>1. k >= 1 /\ Start(new[1]) = lbb /\ Top(new[k]) = top
    BY <1>1, <1>3
  <2>2. n >= 1 => Start(all[1]) <= la /\ Length(all[n]) >= 1 /\ Stop(all[n]) = lbb
    <3> SUFFICES ASSUME n >= 1 PROVE Start(all[1]) <= la /\ Length(all[n]) >= 1 /\ Stop(all[n]) = lbb
      OBVIOUS
    <3>1. all # <<>> /\ n \in 1 .. n /\ all[n] \in Segment
      BY <1>1
    <3>2. Start(all[1]) <= la /\ Top(all[n]) = lbb /\ Length(all[n]) >= 1 /\ Sane(all[n])
      BY <3>1 DEF Linked, Chain
    <3> QED BY <3>1, <3>2, TopFacts
  <2>3. Chain(c)
    <3>1. Chain(all) /\ (all # <<>> /\ new # <<>> => Stop(all[n]) = Start(new[1]) /\ Length(all[n]) >= 1)
      BY <1>1, <2>1, <2>2 DEF Linked
    <3> QED BY <3>1, ChainGlue
  <2>4. n = 0 => la = lbb
    <3>1. n = 0 => all = <<>>
      BY <1>1
    <3> QED BY <3>1 DEF Linked
  <2>5. /\ \A i \in 1 .. n : Length(all[i]) <= m
        /\ \A i \in 1 .. k : Length(new[i]) <= m
    BY DEF Linked
  <2> HIDE DEF n, k, c
  <2>6. \A i \in 1 .. n + k : Length(c[i]) <= m
    <3>1. \A i \in 1 .. n + k : i \in 1 .. n \/ (i \in n + 1 .. n + k /\ i - n \in 1 .. k)
      BY <1>1
    <3> QED BY <1>1, <2>5, <3>1
  <2>7. c # <<>> /\ Top(c[n + k]) = top
    <3>1. n + k \in n + 1 .. n + k /\ (n + k) - n = k /\ n + k >= 1
      BY <1>1, <2>1
    <3>2. c[n + k] = new[k] /\ c # <<>>
      BY <1>1, <3>1
    <3> QED BY <2>1, <3>2
  <2>8. Start(c[1]) <= la
    <3>1. CASE n = 0
      <4>1. 1 \in n + 1 .. n + k /\ 1 - n = 1
        BY <1>1, <2>1, <3>1
      <4>2. c[1] = new[1]
        BY <1>1, <4>1
      <4> QED BY <2>1, <2>4, <3>1, <4>2
    <3>2. CASE n >= 1
      <4>1. c[1] = all[1]
        BY <1>1, <3>2
      <4> QED BY <2>2, <3>2, <4>1
    <3> QED BY <1>1, <3>1, <3>2
  <2>9. Linked(c, la, top, m)
    BY <1>1, <2>3, <2>6, <2>7, <2>8 DEF Linked
  <2> QED BY <2>9 DEF c
<1> QED BY <1>2, <1>3

\* The last segment is replaced by another one that begins at the same place.
LEMMA LinkedLast ==
  ASSUME NEW all \in Seq(Segment), NEW c \in Seq(Segment), NEW n \in Nat,
         NEW la, NEW lbb, NEW m,
         Linked(all, la, lbb, m),
         Len(all) = n, Len(c) = n, n >= 1, \A i \in 1 .. n - 1 : c[i] = all[i],
         Start(c[n]) = Start(all[n]), Sane(c[n]), Length(c[n]) <= m
  PROVE  Linked(c, la, Top(c[n]), m)
<1>1. /\ \A i \in 1 .. n : Sane(all[i]) /\ Length(all[i]) <= m
      /\ \A i, j \in 1 .. n : i < j => Start(all[i]) < Start(all[j]) /\ Stop(all[i]) <= Start(all[j])
      /\ \A i \in 1 .. n - 1 : Stop(all[i]) = Start(all[i + 1])
      /\ Start(all[1]) <= la
  <2>1. all # <<>>
    OBVIOUS
  <2> QED BY <2>1 DEF Linked, Chain
<1>2. \A i \in 1 .. n : i \in 1 .. n - 1 \/ i = n
  OBVIOUS
<1>3. \A i \in 1 .. n : Start(c[i]) = Start(all[i]) /\ Sane(c[i]) /\ Length(c[i]) <= m
  BY <1>1, <1>2
<1>4. \A i \in 1 .. n - 1 : Stop(c[i]) = Stop(all[i])
  OBVIOUS
<1>5. ASSUME NEW i \in 1 .. n, NEW j \in 1 .. n, i < j
      PROVE  Start(c[i]) < Start(c[j]) /\ Stop(c[i]) <= Start(c[j])
  <2>1. i \in 1 .. n - 1
    BY <1>5
  <2>2. Start(c[i]) = Start(all[i]) /\ Start(c[j]) = Start(all[j]) /\ Stop(c[i]) = Stop(all[i])
    BY <1>3, <1>4, <2>1
  <2>3. Start(all[i]) < Start(all[j]) /\ Stop(all[i]) <= Start(all[j])
    BY <1>1, <1>5
  <2> QED BY <2>2, <2>3
<1>6. ASSUME NEW i \in 1 .. n - 1 PROVE Stop(c[i]) = Start(c[i + 1])
  <2>1. i + 1 \in 1 .. n
    OBVIOUS
  <2>2. Start(c[i + 1]) = Start(all[i + 1])
    BY <1>3, <2>1
  <2> QED BY <1>1, <1>4, <2>2
<1>7. Chain(c)
  BY <1>3, <1>5, <1>6 DEF Chain
<1>8. c # <<>> /\ Start(c[1]) <= la
  <2>1. 1 \in 1 .. n
    OBVIOUS
  <2> QED BY <1>1, <1>3, <2>1
<1> QED BY <1>3, <1>7, <1>8 DEF Linked

\* The first k segments are acknowledged and freed.
LEMMA LinkedDrop ==
  ASSUME NEW all \in Seq(Segment), NEW la \in Nat, NEW lbb \in Nat, NEW m \in Nat,
         Linked(all, la, lbb, m), NEW a \in Nat, NEW k \in 0 .. Len(all), la <= a,
         \A i \in 1 .. k : End(all[i]) <= a
  PROVE  LET c == SubSeq(all, k + 1, Len(all)) IN
         /\ c \in Seq(Segment) /\ Linked(c, a, lbb, m) /\ Len(c) = Len(all) - k
         /\ \A i \in 1 .. Len(all) - k : c[i] = all[k + i]
         /\ Bytes(c) \in Nat /\ Bytes(c) <= Bytes(all)
<1> DEFINE n == Len(all)
           c == SubSeq(all, k + 1, n)
<1>1. n \in Nat /\ k \in 0 .. n /\ k \in Nat /\ k <= n
  OBVIOUS
<1>2. c \in Seq(Segment) /\ Len(c) = n - k /\ \A i \in 1 .. n - k : c[i] = all[k + i]
  <2>1. k + 1 \in 1 .. n + 1 /\ n \in 0 .. n /\ k + 1 <= n + 1
    BY <1>1
  <2>2. /\ c \in Seq(Segment) /\ Len(c) = n - (k + 1) + 1
        /\ \A i \in 1 .. n - (k + 1) + 1 : c[i] = all[(k + 1) + i - 1]
    BY <2>1, Part
  <2> HIDE DEF c, n
  <2>3. n - (k + 1) + 1 = n - k /\ \A i \in 1 .. n - k : (k + 1) + i - 1 = k + i
    BY <1>1
  <2> QED BY <2>2, <2>3
<1>3. Chain(c)
  <2>1. k + 1 \in 1 .. n + 1 /\ n \in 0 .. n /\ k + 1 <= n + 1 /\ Chain(all)
    BY <1>1 DEF Linked
  <2> QED BY <2>1, ChainPart
<1>4. /\ \A i \in 1 .. n : Length(all[i]) <= m /\ all[i] \in Segment /\ Sane(all[i])
      /\ n >= 1 => Start(all[1]) <= la /\ Top(all[n]) = lbb
      /\ n = 0 => la >= lbb
      /\ \A i \in 1 .. n - 1 : Stop(all[i]) = Start(all[i + 1])
      /\ Chain(all)
  <2>1. n >= 1 => all # <<>>
    OBVIOUS
  <2>2. n = 0 => all = <<>>
    OBVIOUS
  <2> QED BY <2>1, <2>2 DEF Linked, Chain
<1> HIDE DEF c
<1>5. \A i \in 1 .. n - k : Length(c[i]) <= m
  <2>1. \A i \in 1 .. n - k : k + i \in 1 .. n
    BY <1>1
  <2> QED BY <1>2, <1>4, <2>1
<1>6. ASSUME c # <<>> PROVE k < n /\ Start(c[1]) <= a /\ Top(c[Len(c)]) = lbb
  <2>1. k < n
    BY <1>1, <1>2, <1>6
  <2>2. c[1] = all[k + 1] /\ c[n - k] = all[n]
    <3>1. 1 \in 1 .. n - k /\ n - k \in 1 .. n - k /\ k + (n - k) = n
      BY <1>1, <2>1
    <3> QED BY <1>2, <3>1
  <2>3. Start(all[k + 1]) <= a
    <3>1. CASE k = 0
      <4>1. Start(all[1]) <= la /\ all[1] \in Segment
        BY <1>1, <1>4, <2>1, <3>1
      <4>2. Start(all[1]) \in Nat
        BY <4>1, SegmentFacts
      <4> QED BY <3>1, <4>1, <4>2
    <3>2. CASE k >= 1
      <4>1. k \in 1 .. n - 1 /\ k \in 1 .. k /\ k \in 1 .. n
        BY <1>1, <2>1, <3>2
      <4>2. Stop(all[k]) = Start(all[k + 1]) /\ End(all[k]) <= a /\ all[k] \in Segment
        BY <1>4, <4>1
      <4>3. Stop(all[k]) \in Nat /\ End(all[k]) \in Nat /\ Stop(all[k]) <= End(all[k])
        BY <4>2, SegmentFacts
      <4> QED BY <4>2, <4>3
    <3> QED BY <1>1, <3>1, <3>2
  <2>4. Top(all[n]) = lbb
    BY <1>1, <1>4, <2>1
  <2> QED BY <1>2, <2>1, <2>2, <2>3, <2>4
<1>7. ASSUME c = <<>> PROVE a >= lbb
  <2>1. k = n
    BY <1>1, <1>2, <1>7
  <2>2. CASE n = 0
    BY <1>4, <2>2
  <2>3. CASE n >= 1
    <3>1. n \in 1 .. k /\ n \in 1 .. n
      BY <1>1, <2>1, <2>3
    <3>2. End(all[n]) <= a /\ all[n] \in Segment /\ Sane(all[n]) /\ Top(all[n]) = lbb
      BY <1>4, <2>3, <3>1
    <3>3. Top(all[n]) \in Nat /\ Top(all[n]) <= End(all[n]) /\ End(all[n]) \in Nat
      BY <3>2, TopFacts, SegmentFacts
    <3> QED BY <3>2, <3>3
  <2> QED BY <1>1, <2>2, <2>3
<1>8. Linked(c, a, lbb, m)
  BY <1>2, <1>3, <1>5, <1>6, <1>7 DEF Linked
<1>9. Bytes(c) \in Nat /\ Bytes(c) <= Bytes(all)
  <2>1. /\ Bytes(c) = IF c = <<>> THEN 0 ELSE Stop(Last(c)) - Start(c[1])
        /\ Bytes(all) = IF all = <<>> THEN 0 ELSE Stop(Last(all)) - Start(all[1])
    BY <1>2, <1>3, <1>4, ChainBytes
  <2>2. CASE c # <<>>
    <3>1. k < n /\ n \in 1 .. n /\ k + 1 \in 1 .. n /\ 1 \in 1 .. n /\ 1 <= k + 1 /\ k + 1 <= n
      BY <1>1, <1>6, <2>2
    <3>2. Last(c) = all[n] /\ c[1] = all[k + 1]
      <4>1. 1 \in 1 .. n - k /\ n - k \in 1 .. n - k /\ k + (n - k) = n
        BY <1>1, <3>1
      <4> QED BY <1>2, <4>1 DEF Last
    <3>3. Last(all) = all[n] /\ all # <<>>
      BY <3>1 DEF Last
    <3>4. Start(all[1]) <= Start(all[k + 1]) /\ Start(all[k + 1]) <= Start(all[n])
      BY <1>4, <3>1, ChainEnds
    <3>5. /\ Start(all[1]) \in Nat /\ Start(all[k + 1]) \in Nat /\ Start(all[n]) \in Nat
          /\ Stop(all[n]) \in Nat /\ Start(all[n]) <= Stop(all[n])
      BY <1>4, <3>1, SegmentFacts
    <3> QED BY <2>1, <2>2, <3>2, <3>3, <3>4, <3>5, SMTT(30)
  <2>3. CASE c = <<>>
    <3>1. Bytes(c) = 0
      BY <2>1, <2>3
    <3>2. CASE n = 0
      BY <2>1, <3>1, <3>2
    <3>3. CASE n >= 1
      <4>1. n \in 1 .. n /\ 1 \in 1 .. n /\ 1 <= n /\ Last(all) = all[n] /\ all # <<>>
        BY <1>1, <3>3 DEF Last
      <4>2. Start(all[1]) <= Start(all[n])
        BY <1>4, <4>1, ChainEnds
      <4>3. Start(all[1]) \in Nat /\ Start(all[n]) \in Nat /\ Stop(all[n]) \in Nat /\ Start(all[n]) <= Stop(all[n])
        BY <1>4, <4>1, SegmentFacts
      <4> QED BY <2>1, <3>1, <4>1, <4>2, <4>3
    <3> QED BY <1>1, <3>2, <3>3
  <2> QED BY <2>2, <2>3
<1> QED BY <1>2, <1>8, <1>9 DEF c

\* The first segment is cut in two.
LEMMA LinkedSplit ==
  ASSUME NEW all \in Seq(Segment), NEW la \in Nat, NEW lbb \in Nat, NEW m \in Nat,
         Linked(all, la, lbb, m), all # <<>>, NEW cut \in Segment, NEW rest \in Segment,
         Sane(cut), Sane(rest), Start(cut) = Start(all[1]), Stop(cut) = Start(rest),
         Stop(rest) = Stop(all[1]), Length(cut) >= 1, Length(rest) >= 1,
         Length(cut) <= m, Length(rest) <= m
  PROVE  LET c == <<cut, rest>> \o Tail(all) IN
         /\ c \in Seq(Segment) /\ Linked(c, la, lbb, m) /\ Len(c) = Len(all) + 1
         /\ c[1] = cut /\ c[2] = rest /\ \A i \in 2 .. Len(all) : c[i + 1] = all[i]
         /\ Bytes(c) = Bytes(all)
<1> DEFINE n == Len(all)
           h == <<cut, rest>>
           t == Tail(all)
           c == h \o t
<1>1. n \in Nat /\ n >= 1 /\ all[1] \in Segment /\ n \in 1 .. n /\ 1 \in 1 .. n
  OBVIOUS
<1>2. h \in Seq(Segment) /\ Len(h) = 2 /\ h[1] = cut /\ h[2] = rest /\ h = <<cut>> \o <<rest>>
  <2> DEFINE x == <<cut>>
             y == <<rest>>
             z == x \o y
  <2>1. h \in Seq(Segment) /\ Len(h) = 2 /\ h[1] = cut /\ h[2] = rest
    OBVIOUS
  <2>2. x \in Seq(Segment) /\ y \in Seq(Segment) /\ Len(x) = 1 /\ Len(y) = 1 /\ x[1] = cut /\ y[1] = rest
    OBVIOUS
  <2> HIDE DEF h, x, y
  <2>3. z \in Seq(Segment) /\ Len(z) = 2 /\ z[1] = cut /\ z[2] = rest
    <3>1. /\ z \in Seq(Segment) /\ Len(z) = Len(x) + Len(y)
          /\ \A i \in 1 .. Len(x) : z[i] = x[i]
          /\ \A i \in 1 .. Len(y) : z[Len(x) + i] = y[i]
      <4>1. x \in Seq(Segment) /\ y \in Seq(Segment)
        BY <2>2
      <4> QED BY <4>1, Joined
    <3> HIDE DEF z
    <3> QED BY <2>2, <3>1
  <2> HIDE DEF z
  <2>4. \A i \in 1 .. Len(h) : h[i] = z[i]
    BY <2>1, <2>3
  <2>5. h = z
    BY <2>1, <2>3, <2>4, Same
  <2> QED BY <2>1, <2>5 DEF x, y, z
<1>3. t \in Seq(Segment) /\ Len(t) = n - 1 /\ (\A i \in 1 .. n - 1 : t[i] = all[i + 1]) /\ t = SubSeq(all, 2, n)
  BY <1>1
<1> HIDE DEF h, t
<1>4. /\ c \in Seq(Segment) /\ Len(c) = n + 1 /\ c[1] = cut /\ c[2] = rest
      /\ \A i \in 2 .. n : c[i + 1] = all[i]
  <2>1. /\ c \in Seq(Segment) /\ Len(c) = Len(h) + Len(t)
        /\ \A i \in 1 .. Len(h) : c[i] = h[i]
        /\ \A i \in Len(h) + 1 .. Len(h) + Len(t) : c[i] = t[i - Len(h)]
    BY <1>2, <1>3, Joined
  <2> HIDE DEF c, n
  <2>2. Len(c) = n + 1 /\ c[1] = cut /\ c[2] = rest
    BY <1>1, <1>2, <1>3, <2>1
  <2>3. ASSUME NEW i \in 2 .. n PROVE c[i + 1] = all[i]
    <3>1. i + 1 \in 3 .. n + 1 /\ (i + 1) - 2 = i - 1 /\ i - 1 \in 1 .. n - 1 /\ (i - 1) + 1 = i
      BY <1>1
    <3>2. c[i + 1] = t[i - 1]
      BY <1>1, <1>2, <1>3, <2>1, <3>1
    <3> QED BY <1>3, <3>1, <3>2
  <2> QED BY <2>1, <2>2, <2>3
<1>5. /\ \A i \in 1 .. n : Length(all[i]) <= m /\ all[i] \in Segment /\ Sane(all[i])
      /\ Start(all[1]) <= la /\ Top(all[n]) = lbb
      /\ \A i \in 1 .. n - 1 : Stop(all[i]) = Start(all[i + 1])
      /\ Chain(all)
  BY DEF Linked, Chain
<1>6. Chain(h)
  <2> DEFINE x == <<cut>>
             y == <<rest>>
  <2>1. /\ x \in Seq(Segment) /\ Len(x) = 1 /\ x[1] = cut /\ Chain(x)
        /\ y \in Seq(Segment) /\ Len(y) = 1 /\ y[1] = rest /\ Chain(y)
    BY ChainOne
  <2>2. h = x \o y
    BY <1>2
  <2> HIDE DEF x, y
  <2>3. x # <<>> /\ y # <<>> => Stop(x[Len(x)]) = Start(y[1]) /\ Length(x[Len(x)]) >= 1
    BY <2>1
  <2> QED BY <2>1, <2>2, <2>3, ChainGlue
<1>7. Chain(t)
  <2>1. 2 \in 1 .. n + 1 /\ n \in 0 .. n /\ 2 <= n + 1
    BY <1>1
  <2>2. Chain(SubSeq(all, 2, n))
    BY <1>5, <2>1, ChainPart
  <2> QED BY <1>3, <2>2
<1>8. Chain(c)
  <2>1. ASSUME t # <<>> PROVE Stop(rest) = Start(t[1])
    <3>1. 1 \in 1 .. n - 1
      BY <1>1, <1>3, <2>1
    <3>2. t[1] = all[1 + 1] /\ Stop(all[1]) = Start(all[1 + 1])
      BY <1>3, <1>5, <3>1
    <3> QED BY <3>2
  <2>2. h # <<>> /\ t # <<>> => Stop(h[Len(h)]) = Start(t[1]) /\ Length(h[Len(h)]) >= 1
    BY <1>2, <2>1
  <2> QED BY <1>2, <1>3, <1>6, <1>7, <2>2, ChainGlue
<1> HIDE DEF c, n
<1>9. \A i \in 1 .. n + 1 : Length(c[i]) <= m
  <2>1. ASSUME NEW i \in 1 .. n + 1 PROVE Length(c[i]) <= m
    <3>1. CASE i = 1 \/ i = 2
      BY <1>4, <3>1
    <3>2. CASE i \in 3 .. n + 1
      <4>1. i - 1 \in 2 .. n /\ (i - 1) + 1 = i /\ i - 1 \in 1 .. n
        BY <1>1, <3>2
      <4>2. c[i] = all[i - 1]
        BY <1>4, <4>1
      <4> QED BY <1>5, <4>1, <4>2
    <3> QED BY <1>1, <3>1, <3>2
  <2> QED BY <2>1
<1>10. Top(c[n + 1]) = lbb /\ Stop(c[n + 1]) = Stop(all[n])
  <2>1. CASE n = 1
    <3>1. c[n + 1] = rest /\ Stop(rest) = Stop(all[n])
      BY <1>4, <2>1
    <3>2. Length(all[1]) >= 1
      <4>1. /\ Start(cut) \in Nat /\ Stop(cut) \in Nat /\ Start(cut) <= Stop(cut)
            /\ Stop(rest) = Start(rest) + Length(rest) /\ Length(rest) \in Nat
            /\ Stop(all[1]) = Start(all[1]) + Length(all[1]) /\ Length(all[1]) \in Nat
            /\ Start(rest) \in Nat /\ Start(all[1]) \in Nat /\ Stop(rest) \in Nat /\ Stop(all[1]) \in Nat
        BY <1>1, SegmentFacts
      <4>2. Start(cut) = Start(all[1]) /\ Stop(cut) = Start(rest) /\ Stop(rest) = Stop(all[1]) /\ Length(rest) >= 1
        OBVIOUS
      <4> DEFINE a == Start(all[1])
                 b == Start(rest)
                 d == Length(rest)
                 e == Length(all[1])
      <4>3. a \in Nat /\ b \in Nat /\ d \in Nat /\ e \in Nat /\ a <= b /\ a + e = b + d /\ d >= 1
        BY <4>1, <4>2
      <4> HIDE DEF a, b, d, e
      <4>4. e >= 1
        BY <4>3
      <4> QED BY <4>4 DEF e
    <3>3. Top(all[n]) = Stop(all[n]) /\ Top(rest) = Stop(rest)
      BY <1>1, <1>5, <2>1, <3>2, TopFacts
    <3> QED BY <1>5, <3>1, <3>3
  <2>2. CASE n >= 2
    <3>1. n \in 2 .. n
      BY <1>1, <2>2
    <3> QED BY <1>4, <1>5, <3>1
  <2> QED BY <1>1, <2>1, <2>2
<1>11. Linked(c, la, lbb, m)
  BY <1>1, <1>4, <1>5, <1>8, <1>9, <1>10 DEF Linked
<1>12. Bytes(c) = Bytes(all)
  <2>1. /\ Bytes(c) = IF c = <<>> THEN 0 ELSE Stop(Last(c)) - Start(c[1])
        /\ Bytes(all) = IF all = <<>> THEN 0 ELSE Stop(Last(all)) - Start(all[1])
    BY <1>4, <1>5, <1>8, ChainBytes
  <2>2. Last(c) = c[n + 1] /\ Last(all) = all[n] /\ c # <<>>
    BY <1>1, <1>4 DEF Last, n
  <2> QED BY <1>4, <1>10, <2>1, <2>2
<1> QED BY <1>4, <1>11, <1>12 DEF c, h, t, n

-----------------------------------------------------------------------------
(* The send part of the pcb.                                               *)

\* The types of its fields.
Send ==
  [unsent : Seq(Segment), unacked : Seq(Segment), snd_nxt : SeqNos, lastack : SeqNos,
   snd_lbb : SeqNos, snd_buf : 0 .. TCP_SND_BUF, snd_wnd : 0 .. PeerWnd,
   snd_wnd_max : 0 .. PeerWnd, snd_wl2 : SeqNos, cwnd : Nat, dupacks : 0 .. 3,
   nrtx : 0 .. TCP_MAXRTX, persist : BOOLEAN, persist_probe : 0 .. TCP_MAXRTX,
   rtxTimer : BOOLEAN, infr : BOOLEAN, naglememerr : BOOLEAN, finQueued : BOOLEAN,
   alive : BOOLEAN]

\* The largest segment that tcp_write makes grows with the largest window.
LEMMA MssFacts ==
  ASSUME NEW q, q.snd_wnd_max \in Nat, q.snd_wnd_max >= 2
  PROVE  /\ MssLocal(q) \in Nat /\ MssLocal(q) >= 1 /\ MssLocal(q) <= mss
         /\ \A r : r.snd_wnd_max \in Nat /\ r.snd_wnd_max >= q.snd_wnd_max => MssLocal(q) <= MssLocal(r)
<1>1. mss \in Nat /\ mss >= 1
  BY Bounds
<1>2. ASSUME NEW r, r.snd_wnd_max \in Nat, r.snd_wnd_max >= 2
      PROVE  LET h == r.snd_wnd_max \div 2 IN h \in Nat /\ h >= 1 /\ MssLocal(r) = IF mss <= h THEN mss ELSE h
  <2> DEFINE w == r.snd_wnd_max
             h == w \div 2
  <2>1. h \in Nat /\ h >= 1
    BY <1>2
  <2> HIDE DEF h
  <2>2. MinOf(mss, h) = IF mss <= h THEN mss ELSE h
    <3>1. mss \in Int /\ h \in Int
      BY <1>1, <2>1
    <3> QED BY <3>1, MinMax
  <2>3. MinOf(mss, h) # 0
    BY <1>1, <2>1, <2>2
  <2>4. MssLocal(r) = MinOf(mss, h)
    BY <2>3 DEF MssLocal, h
  <2> QED BY <2>1, <2>2, <2>4 DEF h
<1>3. MssLocal(q) \in Nat /\ MssLocal(q) >= 1 /\ MssLocal(q) <= mss
  BY <1>1, <1>2
<1>4. ASSUME NEW r, r.snd_wnd_max \in Nat, r.snd_wnd_max >= q.snd_wnd_max
      PROVE  MssLocal(q) <= MssLocal(r)
  <2> DEFINE g == q.snd_wnd_max \div 2
             h == r.snd_wnd_max \div 2
  <2>1. r.snd_wnd_max >= 2
    BY <1>4
  <2>2. g \in Nat /\ h \in Nat /\ g <= h
    BY <1>4
  <2>3. MssLocal(q) = (IF mss <= g THEN mss ELSE g) /\ MssLocal(r) = IF mss <= h THEN mss ELSE h
    BY <1>2, <1>4, <2>1
  <2> HIDE DEF g, h
  <2> QED BY <1>1, <2>2, <2>3
<1> QED BY <1>3, <1>4

\* What it means for a segment to fit the window: it ends within it, and not
\* before it begins.
LEMMA FitsMeans ==
  ASSUME NEW q, NEW s \in Segment, Sane(s), q.lastack \in SeqNos, Offset(q.lastack) <= StreamLen + 2,
         q.snd_wnd \in 0 .. PeerWnd, q.cwnd \in Nat
  PROVE  /\ SendWindow(q) = IF q.snd_wnd <= q.cwnd THEN q.snd_wnd ELSE q.cwnd
         /\ Fits(q, s) <=> /\ Offset(q.lastack) <= Stop(s)
                           /\ Stop(s) - Offset(q.lastack) <= SendWindow(q)
<1> DEFINE la == Offset(q.lastack)
           w == SendWindow(q)
           u == Add(Diff(s.seqno, q.lastack), Length(s))
<1>1. w = IF q.snd_wnd <= q.cwnd THEN q.snd_wnd ELSE q.cwnd
  <2>1. q.snd_wnd \in Int /\ q.cwnd \in Int
    OBVIOUS
  <2> QED BY <2>1, MinMax DEF SendWindow
<1>2. w \in Nat /\ w <= PeerWnd /\ PeerWnd \in Nat
  BY <1>1, Bounds
<1>3. /\ s.seqno \in SeqNos /\ Offset(s.seqno) = Start(s) /\ Length(s) \in Nat /\ Start(s) \in Nat
      /\ Stop(s) = Start(s) + Length(s) /\ Stop(s) <= StreamLen
  BY SegmentFacts DEF Sane, Start
<1>4. la \in Nat /\ la <= StreamLen + 2 /\ StreamLen \in Nat /\ SEQ \in Nat /\ StreamLen + PeerWnd + 2 < SEQ
  BY OffsetType, Bounds
<1>5. Fits(q, s) <=> u <= w
  BY DEF Fits
<1> DEFINE o == Offset(s.seqno)
           n == Length(s)
<1>6. Stop(s) = o + n /\ o \in Nat /\ n \in Nat /\ o + n < SEQ
  BY <1>2, <1>3, <1>4
<1>7. (la <= o + n => u = o + n - la) /\ (o + n < la => u = o + n - la + SEQ)
  <2>1. ASSUME la <= o + n PROVE u = o + n - la
    BY <1>3, <1>6, <2>1, WindowUse
  <2>2. ASSUME o + n < la PROVE u = o + n - la + SEQ
    BY <1>3, <2>2, WindowWraps
  <2> QED BY <2>1, <2>2
<1>8. la \in Int
  BY <1>4
<1> DEFINE e == Stop(s)
<1>9. e \in Nat /\ e < SEQ /\ (la <= e => u = e - la) /\ (e < la => u = e - la + SEQ)
  <2> HIDE DEF la, u, o, n
  <2>1. e = o + n
    BY <1>6
  <2> HIDE DEF e
  <2> QED BY <1>6, <1>7, <1>8, <2>1
<1> HIDE DEF la, w, u, e
<1>10. u <= w <=> la <= e /\ e - la <= w
  BY <1>2, <1>4, <1>8, <1>9
<1>11. Fits(q, s) <=> la <= e /\ e - la <= w
  BY <1>5, <1>10, Zenon
<1> QED BY <1>1, <1>11 DEF la, w, e
=============================================================================
