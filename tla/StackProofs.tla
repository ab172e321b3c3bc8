---------------------------- MODULE StackProofs -----------------------------
(***************************************************************************)
(* The invariants of TFIPStack for every size of the pool, of the backlog  *)
(* and of the clock: the backlog is counted, every arg that lwIP holds is  *)
(* owned, the TCP timer is there when it is needed, and timeouts come on   *)
(* time.                                                                   *)
(*                                                                         *)
(* The first half is about lwIP's timeout list while the dispatch timer of *)
(* TFIPStack drives it: the list stays sorted and near the clock although  *)
(* times wrap around, so that TIME_LESS_THAN compares them the right way.  *)
(* Times are compared by their Pos: how far they are behind a moment that  *)
(* lies two rounds of the dispatch timer before the time of reference.     *)
(***************************************************************************)
EXTENDS TFIPStack, SequenceTheorems, FiniteSetTheorems, WellFoundedInduction, TLAPS

Times == 0 .. TICKS - 1

Timeout == [h : {"tcp", "reass"}, time : Times]

Pos(u, c) == (u - c + 2 * MaxIdle) % TICKS

\* How far behind another timeout, or behind the clock, one of h may be.
Reach(h) == Interval(h) + 2 * MaxIdle

\* Seen from the time c no timeout of the list is late or more than late ticks
\* over, or further ahead than it may be, and the list is sorted.
Timely(list, c, late) ==
  /\ \A i \in 1 .. Len(list) :
       /\ Pos(list[i].time, c) > 2 * MaxIdle - late
       /\ Pos(list[i].time, c) < 2 * MaxIdle + Reach(list[i].h)
  /\ \A i, j \in 1 .. Len(list) : i < j =>
       /\ Pos(list[i].time, c) <= Pos(list[j].time, c)
       /\ Pos(list[j].time, c) < Pos(list[i].time, c) + Reach(list[j].h)

\* What is left of that while the clock has run away from the list: the first
\* timeout is the earliest, and the others follow it in order.
Shiftable(list) ==
  \A i, j \in 1 .. Len(list) : i <= j =>
    /\ Ahead(list[i].time, list[1].time) <= Ahead(list[j].time, list[1].time)
    /\ Ahead(list[j].time, list[1].time) < Reach(list[j].h)

\* The TCP timer is in the list at most once, and at least once.
AtMostOnce(list) == \A i, j \in 1 .. Len(list) : list[i].h = "tcp" /\ list[j].h = "tcp" => i = j

HasTcp(list) == \E i \in 1 .. Len(list) : list[i].h = "tcp"

-----------------------------------------------------------------------------
(* Arithmetic modulo TICKS.                                                *)

\* The constants: two rounds and an interval are less than half of the clock's
\* range, so that neither a list nor its lateness reaches around it.
LEMMA Bounds ==
  /\ TICKS \in Nat /\ MaxIdle \in Nat /\ MaxIdle > 0 /\ TICKS \div 2 \in Nat
  /\ 2 * (TICKS \div 2) = TICKS /\ TICKS > 0
  /\ TCP_TMR_INTERVAL \in Nat /\ TCP_TMR_INTERVAL > 0 /\ TCP_TMR_INTERVAL <= MaxIdle
  /\ \A h : Interval(h) \in Nat /\ Interval(h) > 0 /\ 2 * MaxIdle + Interval(h) < TICKS \div 2
  /\ \A h : Reach(h) = Interval(h) + 2 * MaxIdle
<1>1. TICKS \in Nat /\ MaxIdle \in Nat /\ MaxIdle > 0 /\ TICKS > 0 /\ TICKS % 2 = 0
      /\ TCP_TMR_INTERVAL \in Nat /\ TCP_TMR_INTERVAL > 0 /\ TCP_TMR_INTERVAL <= MaxIdle
  BY TimeoutsAssumption, StackAssumption DEF MaxIdle
<1>2. TICKS \div 2 \in Nat /\ 2 * (TICKS \div 2) = TICKS
  BY <1>1
<1>3. \A h : Interval(h) \in Nat /\ Interval(h) > 0 /\ 2 * MaxIdle + Interval(h) < TICKS \div 2
  BY TimeoutsAssumption, StackAssumption DEF Interval
<1> QED BY <1>1, <1>2, <1>3 DEF Reach

\* After is a sum that wraps around at most once.
LEMMA AfterCases ==
  ASSUME NEW t \in Times, NEW ms \in Times
  PROVE  /\ After(t, ms) \in Times
         /\ After(t, ms) = t + ms \/ After(t, ms) = t + ms - TICKS
<1>1. TICKS \in Nat /\ TICKS > 0
  BY Bounds
<1> QED BY <1>1 DEF After, Times

\* Ahead is a difference that wraps around at most once.
LEMMA AheadCases ==
  ASSUME NEW t \in Times, NEW u \in Times
  PROVE  /\ Ahead(t, u) \in Times
         /\ Ahead(t, u) = t - u \/ Ahead(t, u) = t - u + TICKS
<1>1. TICKS \in Nat /\ TICKS > 0
  BY Bounds
<1> QED BY <1>1 DEF Ahead, Times

\* No time is ahead of itself.
LEMMA AheadSelf ==
  ASSUME NEW t \in Times
  PROVE  Ahead(t, t) = 0
<1> DEFINE a == Ahead(t, t)
<1>1. a \in Times /\ (a = t - t \/ a = t - t + TICKS)
  BY AheadCases
<1> HIDE DEF a
<1>2. a = 0
  BY <1>1, Bounds DEF Times
<1> QED BY <1>2 DEF a

\* Pos is a difference that wraps around at most once.
LEMMA PosCases ==
  ASSUME NEW u \in Times, NEW c \in Times
  PROVE  /\ Pos(u, c) \in Times
         /\ \/ Pos(u, c) = u - c + 2 * MaxIdle
            \/ Pos(u, c) = u - c + 2 * MaxIdle + TICKS
            \/ Pos(u, c) = u - c + 2 * MaxIdle - TICKS
<1> DEFINE d == u - c + 2 * MaxIdle
<1>1. TICKS \in Nat /\ TICKS > 0 /\ d \in Int /\ -TICKS <= d /\ d < 2 * TICKS
  <2>1. \A h : 2 * MaxIdle + Interval(h) < TICKS \div 2 /\ Interval(h) \in Nat
    BY Bounds
  <2>2. 2 * MaxIdle < TICKS \div 2
    BY <2>1, Bounds
  <2> QED BY <2>2, Bounds DEF Times
<1> HIDE DEF d
<1>2. d % TICKS \in 0 .. TICKS - 1 /\ (d % TICKS = d \/ d % TICKS = d + TICKS \/ d % TICKS = d - TICKS)
  BY <1>1
<1>3. Pos(u, c) = d % TICKS /\ d = u - c + 2 * MaxIdle
  BY DEF Pos, d
<1> DEFINE q == d % TICKS
<1>4. q \in 0 .. TICKS - 1 /\ (q = d \/ q = d + TICKS \/ q = d - TICKS)
  BY <1>2
<1>5. Pos(u, c) = q
  BY <1>3
<1> HIDE DEF q
<1> QED BY <1>1, <1>3, <1>4, <1>5, Bounds DEF Times

\* TIME_LESS_THAN decides between a distance of less than half the range and
\* a greater one.
LEMMA LessThan ==
  ASSUME NEW t \in Times, NEW u \in Times
  PROVE  TIME_LESS_THAN(t, u) <=> 2 * Ahead(t, u) >= TICKS
<1>1. Ahead(t, u) \in Times
  BY AheadCases
<1> QED BY <1>1, Bounds DEF TIME_LESS_THAN, Times

\* Of two timeouts whose Pos are not half of the range apart TIME_LESS_THAN
\* finds the one with the smaller Pos.
LEMMA LessThanPos ==
  ASSUME NEW t \in Times, NEW u \in Times, NEW c \in Times,
         2 * (Pos(t, c) - Pos(u, c)) < TICKS,
         2 * (Pos(u, c) - Pos(t, c)) <= TICKS
  PROVE  TIME_LESS_THAN(t, u) <=> Pos(t, c) < Pos(u, c)
<1>1. Ahead(t, u) \in Times /\ (Ahead(t, u) = t - u \/ Ahead(t, u) = t - u + TICKS)
  BY AheadCases
<1>2. TIME_LESS_THAN(t, u) <=> 2 * Ahead(t, u) >= TICKS
  BY LessThan
<1> DEFINE a == Pos(t, c)
           b == Pos(u, c)
           e == Ahead(t, u)
<1>3. /\ a \in Times /\ b \in Times
      /\ a = t - c + 2 * MaxIdle \/ a = t - c + 2 * MaxIdle + TICKS \/ a = t - c + 2 * MaxIdle - TICKS
      /\ b = u - c + 2 * MaxIdle \/ b = u - c + 2 * MaxIdle + TICKS \/ b = u - c + 2 * MaxIdle - TICKS
  BY PosCases
<1>4. TICKS \in Nat /\ MaxIdle \in Nat
  BY Bounds
<1> HIDE DEF a, b, e
<1>5. 2 * e >= TICKS <=> a < b
  BY <1>1, <1>3, <1>4 DEF Times, a, b, e
<1> QED BY <1>2, <1>5 DEF a, b, e

-----------------------------------------------------------------------------
(* The list.                                                               *)

\* A set of naturals has a smallest member.
LEMMA NatMin ==
  ASSUME NEW S, S \subseteq Nat, S # {}
  PROVE  \E m \in S : \A n \in S : m <= n
<1> DEFINE R == OpToRel(<, Nat)
<1>1. IsWellFoundedOn(R, Nat)
  BY NatLessThanWellFounded
<1> HIDE DEF R
<1>2. PICK m \in S : \A n \in S : <<n, m>> \notin R
  BY <1>1, WFMin
<1>3. \A n \in S : ~(n < m)
  BY <1>2 DEF R, OpToRel
<1> QED BY <1>3

\* InsertAt puts e at i and moves what was there and behind it one further.
LEMMA InsertFacts ==
  ASSUME NEW S, NEW s \in Seq(S), NEW e \in S, NEW i \in 1 .. Len(s)
  PROVE  LET r == InsertAt(s, i, e) IN
         /\ r \in Seq(S)
         /\ Len(r) = Len(s) + 1
         /\ r[i] = e
         /\ \A j \in 1 .. i - 1 : r[j] = s[j]
         /\ \A j \in i .. Len(s) : r[j + 1] = s[j]
<1> DEFINE a == SubSeq(s, 1, i - 1)
           b == SubSeq(s, i, Len(s))
           c == a \o <<e>>
           r == c \o b
<1>1. InsertAt(s, i, e) = r
  BY DEF InsertAt
<1>2. Len(s) \in Nat /\ i \in Int /\ 1 \in Int /\ \A j \in 1 .. Len(s) : s[j] \in S
  OBVIOUS
<1>3. /\ a \in Seq(S)
      /\ Len(a) = i - 1
      /\ \A j \in 1 .. i - 1 : a[j] = s[j]
  BY <1>2, SubSeqProperties
<1>4. /\ b \in Seq(S)
      /\ Len(b) = Len(s) - i + 1
      /\ \A j \in 1 .. Len(s) - i + 1 : b[j] = s[i + j - 1]
  BY <1>2, SubSeqProperties
<1> HIDE DEF a, b
<1>5. /\ c \in Seq(S)
      /\ Len(c) = i
      /\ \A j \in 1 .. i : c[j] = IF j <= i - 1 THEN a[j] ELSE e
  <2>1. <<e>> \in Seq(S) /\ Len(<<e>>) = 1 /\ <<e>>[1] = e
    OBVIOUS
  <2> QED BY <1>2, <1>3, <2>1, ConcatProperties
<1> HIDE DEF c
<1>6. /\ r \in Seq(S)
      /\ Len(r) = Len(s) + 1
      /\ \A j \in 1 .. Len(s) + 1 : r[j] = IF j <= i THEN c[j] ELSE b[j - i]
  <2>1. /\ c \o b \in Seq(S)
        /\ Len(c \o b) = Len(c) + Len(b)
        /\ \A j \in 1 .. Len(c) + Len(b) : (c \o b)[j] = IF j <= Len(c) THEN c[j] ELSE b[j - Len(c)]
    BY <1>4, <1>5, ConcatProperties
  <2>2. Len(c) = i /\ Len(c) + Len(b) = Len(s) + 1
    BY <1>2, <1>4, <1>5
  <2> QED BY <2>1, <2>2
<1> HIDE DEF r
<1>7. r[i] = e
  BY <1>2, <1>5, <1>6
<1>8. ASSUME NEW j \in 1 .. i - 1 PROVE r[j] = s[j]
  BY <1>2, <1>3, <1>5, <1>6, SMTT(30)
<1>9. ASSUME NEW j \in i .. Len(s) PROVE r[j + 1] = s[j]
  <2>1. j + 1 \in 1 .. Len(s) + 1 /\ ~(j + 1 <= i) /\ (j + 1) - i \in 1 .. Len(s) - i + 1
    BY <1>2
  <2>2. i + ((j + 1) - i) - 1 = j
    BY <1>2
  <2> QED BY <1>2, <1>4, <1>6, <2>1, <2>2
<1> QED BY <1>1, <1>6, <1>7, <1>8, <1>9

\* r is list with the timeout t put at k.
Inserted(list, t, k, r) ==
  /\ r \in Seq(Timeout)
  /\ Len(r) = Len(list) + 1
  /\ r[k] = t
  /\ \A j \in 1 .. k - 1 : r[j] = list[j]
  /\ \A j \in k .. Len(list) : r[j + 1] = list[j]

\* sys_timeout_abs puts the timeout behind those that are not later, and in
\* front of one that is.
LEMMA SysTimeoutAbs ==
  ASSUME NEW list \in Seq(Timeout), NEW h \in {"tcp", "reass"}, NEW time \in Times
  PROVE  \E k \in 1 .. Len(list) + 1 :
           /\ Inserted(list, [h |-> h, time |-> time], k, sys_timeout_abs(list, h, time))
           /\ \A j \in 1 .. k - 1 : ~TIME_LESS_THAN(time, list[j].time)
           /\ k <= Len(list) => TIME_LESS_THAN(time, list[k].time)
<1> DEFINE t == [h |-> h, time |-> time]
           I == {i \in 1 .. Len(list) : TIME_LESS_THAN(time, list[i].time)}
           r == sys_timeout_abs(list, h, time)
<1>1. t \in Timeout
  BY DEF Timeout
<1>2. r = IF (IF I # {} THEN Min(I) ELSE 0) = 0 THEN Append(list, t)
          ELSE InsertAt(list, IF I # {} THEN Min(I) ELSE 0, t)
  BY DEF sys_timeout_abs, SelectInSeq
<1>3. Len(list) \in Nat /\ I \subseteq Nat /\ I \subseteq 1 .. Len(list)
  OBVIOUS
<1> HIDE DEF t, r
<1>4. CASE I = {}
  <2>1. r = Append(list, t)
    BY <1>2, <1>4
  <2>2. /\ r \in Seq(Timeout) /\ Len(r) = Len(list) + 1 /\ r[Len(list) + 1] = t
        /\ \A j \in 1 .. Len(list) : r[j] = list[j]
    BY <2>1, <1>1, AppendProperties
  <2>3. Inserted(list, t, Len(list) + 1, r)
    BY <2>2, <1>3 DEF Inserted
  <2>4. \A j \in 1 .. Len(list) : ~TIME_LESS_THAN(time, list[j].time)
    BY <1>4
  <2>5. Len(list) + 1 \in 1 .. Len(list) + 1 /\ (Len(list) + 1) - 1 = Len(list)
        /\ ~(Len(list) + 1 <= Len(list))
    BY <1>3
  <2> QED BY <2>3, <2>4, <2>5 DEF t, r
<1>5. CASE I # {}
  <2>1. \E m \in I : \A n \in I : m <= n
    BY <1>3, <1>5, NatMin
  <2> DEFINE k == Min(I)
  <2>2. k \in I /\ \A n \in I : k <= n
    BY <2>1 DEF Min
  <2> HIDE DEF k
  <2>3. k \in 1 .. Len(list) /\ k # 0
    BY <2>2, <1>3
  <2>4. r = InsertAt(list, k, t)
    BY <1>2, <1>5, <2>3 DEF k
  <2>5. Inserted(list, t, k, r)
    <3> HIDE DEF I
    <3>1. /\ InsertAt(list, k, t) \in Seq(Timeout)
          /\ Len(InsertAt(list, k, t)) = Len(list) + 1
          /\ InsertAt(list, k, t)[k] = t
          /\ \A j \in 1 .. k - 1 : InsertAt(list, k, t)[j] = list[j]
          /\ \A j \in k .. Len(list) : InsertAt(list, k, t)[j + 1] = list[j]
      BY <2>3, <1>1, InsertFacts
    <3> QED BY <3>1, <2>4 DEF Inserted
  <2>6. ASSUME NEW j \in 1 .. k - 1 PROVE ~TIME_LESS_THAN(time, list[j].time)
    <3>1. j \in 1 .. Len(list) /\ ~(k <= j)
      BY <2>3, <1>3
    <3>2. j \notin I
      BY <3>1, <2>2
    <3> QED BY <3>1, <3>2
  <2>7. TIME_LESS_THAN(time, list[k].time) /\ k \in 1 .. Len(list) + 1
    BY <2>2, <2>3, <1>3
  <2> QED BY <2>5, <2>6, <2>7 DEF t, r
<1> QED BY <1>4, <1>5

\* A member of the list.
LEMMA Member ==
  ASSUME NEW list \in Seq(Timeout), NEW i \in 1 .. Len(list)
  PROVE  list[i] \in Timeout /\ list[i].time \in Times /\ list[i].h \in {"tcp", "reass"}
<1>1. list[i] \in Timeout
  OBVIOUS
<1> QED BY <1>1 DEF Timeout

\* A timeout that is set for a time not before c and not beyond a round behind
\* its interval keeps the list sorted, wherever c is.
LEMMA InsertSorted ==
  ASSUME NEW list \in Seq(Timeout), NEW c \in Times, NEW late \in 0 .. MaxIdle,
         Timely(list, c, late), NEW h \in {"tcp", "reass"}, NEW time \in Times,
         Pos(time, c) >= 2 * MaxIdle, Pos(time, c) > 2 * MaxIdle - late,
         Pos(time, c) <= 3 * MaxIdle + Interval(h)
  PROVE  Timely(sys_timeout_abs(list, h, time), c, late)
<1> DEFINE t == [h |-> h, time |-> time]
           r == sys_timeout_abs(list, h, time)
           n == Pos(time, c)
<1>0. TICKS \in Nat /\ MaxIdle \in Nat /\ MaxIdle > 0
  BY Bounds
<1>1. PICK k \in 1 .. Len(list) + 1 :
        /\ Inserted(list, t, k, r)
        /\ \A j \in 1 .. k - 1 : ~TIME_LESS_THAN(time, list[j].time)
        /\ k <= Len(list) => TIME_LESS_THAN(time, list[k].time)
  BY SysTimeoutAbs
<1>2. t.time = time /\ t.h = h
  OBVIOUS
<1>3. Len(list) \in Nat
  OBVIOUS
<1> HIDE DEF t, r
<1> DEFINE P(i) == Pos(list[i].time, c)
           R(i) == Reach(list[i].h)
<1>4. \A i \in 1 .. Len(list) :
        /\ P(i) \in Int /\ R(i) \in Nat /\ 2 * R(i) < TICKS
        /\ P(i) > 2 * MaxIdle - late /\ P(i) < 2 * MaxIdle + R(i)
  <2> SUFFICES ASSUME NEW i \in 1 .. Len(list)
               PROVE  /\ P(i) \in Int /\ R(i) \in Nat /\ 2 * R(i) < TICKS
                      /\ P(i) > 2 * MaxIdle - late /\ P(i) < 2 * MaxIdle + R(i)
    OBVIOUS
  <2>1. P(i) \in Int
    <3>1. P(i) \in Times
      BY Member, PosCases
    <3> HIDE DEF P
    <3> QED BY <3>1, <1>0 DEF Times
  <2>2. R(i) \in Nat /\ 2 * R(i) < TICKS
    BY Bounds, SMTT(30)
  <2> QED BY <2>1, <2>2 DEF Timely
<1>5. \A i, j \in 1 .. Len(list) : i < j => P(i) <= P(j) /\ P(j) < P(i) + R(j)
  BY DEF Timely
<1>6. /\ n \in Int /\ n >= 2 * MaxIdle /\ n > 2 * MaxIdle - late
      /\ n < 2 * MaxIdle + Reach(h) /\ n < MaxIdle + Reach(h) + 1
      /\ Reach(h) \in Nat /\ 2 * Reach(h) < TICKS
  <2>1. n \in Int
    BY PosCases, <1>0 DEF Times
  <2>2. Reach(h) = Interval(h) + 2 * MaxIdle /\ Interval(h) \in Nat /\ 2 * Reach(h) < TICKS
    BY Bounds
  <2>3. n >= 2 * MaxIdle /\ n > 2 * MaxIdle - late /\ n <= 3 * MaxIdle + Interval(h)
    OBVIOUS
  <2> HIDE DEF n
  <2> QED BY <2>1, <2>2, <2>3, <1>0, SMTT(30)
<1>7. \A i \in 1 .. Len(list) : TIME_LESS_THAN(time, list[i].time) <=> n < P(i)
  <2> SUFFICES ASSUME NEW i \in 1 .. Len(list)
               PROVE  TIME_LESS_THAN(time, list[i].time) <=> n < P(i)
    OBVIOUS
  <2>1. list[i].time \in Times
    BY Member
  <2> HIDE DEF n, P, R
  <2>2. 2 * (n - P(i)) < TICKS /\ 2 * (P(i) - n) <= TICKS
    <3> DEFINE x == P(i)
               y == R(i)
               z == Reach(h)
    <3>1. x \in Int /\ y \in Nat /\ 2 * y < TICKS /\ x > 2 * MaxIdle - late /\ x < 2 * MaxIdle + y
      BY <1>4
    <3>2. n \in Int /\ n >= 2 * MaxIdle /\ n < MaxIdle + z + 1 /\ z \in Nat /\ 2 * z < TICKS
      BY <1>6
    <3> HIDE DEF x, y, z
    <3>3. 2 * (n - x) < TICKS /\ 2 * (x - n) <= TICKS
      BY <1>0, <3>1, <3>2
    <3> QED BY <3>3 DEF x
  <2>3. 2 * (Pos(time, c) - Pos(list[i].time, c)) < TICKS
        /\ 2 * (Pos(list[i].time, c) - Pos(time, c)) <= TICKS
    BY <2>2 DEF n, P
  <2>4. TIME_LESS_THAN(time, list[i].time) <=> Pos(time, c) < Pos(list[i].time, c)
    BY <2>1, <2>3, LessThanPos
  <2> QED BY <2>4 DEF n, P
<1>8. \A i \in 1 .. k - 1 : P(i) <= n
  <2> HIDE DEF n, P, R
  <2> SUFFICES ASSUME NEW i \in 1 .. k - 1 PROVE P(i) <= n
    OBVIOUS
  <2>1. i \in 1 .. Len(list)
    BY <1>3
  <2>2. ~(n < P(i))
    BY <1>1, <1>7, <2>1
  <2> QED BY <2>1, <2>2, <1>4, <1>6
<1>9. \A i \in k .. Len(list) : n < P(i)
  <2> HIDE DEF n, P, R
  <2> SUFFICES ASSUME NEW i \in k .. Len(list) PROVE n < P(i)
    OBVIOUS
  <2>1. i \in 1 .. Len(list) /\ k \in 1 .. Len(list) /\ (k = i \/ k < i)
    BY <1>3
  <2>2. n < P(k)
    BY <1>1, <1>7, <2>1
  <2>3. k < i => P(k) <= P(i)
    BY <2>1, <1>5
  <2> QED BY <2>1, <2>2, <2>3, <1>4, <1>6, SMTT(30)
<1> DEFINE Q(i) == Pos(r[i].time, c)
           S(i) == Reach(r[i].h)
<1>10. Len(r) = Len(list) + 1 /\ Q(k) = n /\ S(k) = Reach(h)
  BY <1>1, <1>2 DEF Inserted
<1>11. ASSUME NEW i \in 1 .. k - 1
       PROVE  i \in 1 .. Len(list) /\ Q(i) = P(i) /\ S(i) = R(i)
  BY <1>1, <1>3 DEF Inserted
<1>12. ASSUME NEW i \in k + 1 .. Len(list) + 1
       PROVE  /\ i - 1 \in k .. Len(list) /\ i - 1 \in 1 .. Len(list)
              /\ Q(i) = P(i - 1) /\ S(i) = R(i - 1)
  <2>1. i - 1 \in k .. Len(list) /\ i - 1 \in 1 .. Len(list) /\ (i - 1) + 1 = i
    BY <1>3
  <2>2. r[(i - 1) + 1] = list[i - 1]
    BY <1>1, <2>1 DEF Inserted
  <2> QED BY <2>1, <2>2
<1> HIDE DEF n, P, R, Q, S
<1>13. \A i \in 1 .. Len(list) + 1 : i \in 1 .. k - 1 \/ i = k \/ i \in k + 1 .. Len(list) + 1
  BY <1>3
<1>14. ASSUME NEW i \in 1 .. Len(r)
       PROVE  Q(i) > 2 * MaxIdle - late /\ Q(i) < 2 * MaxIdle + S(i)
  <2>1. CASE i = k
    BY <2>1, <1>6, <1>10
  <2>2. CASE i \in 1 .. k - 1
    BY <2>2, <1>4, <1>11
  <2>3. CASE i \in k + 1 .. Len(list) + 1
    <3>1. i - 1 \in 1 .. Len(list) /\ Q(i) = P(i - 1) /\ S(i) = R(i - 1)
      BY <2>3, <1>12
    <3>2. P(i - 1) > 2 * MaxIdle - late /\ P(i - 1) < 2 * MaxIdle + R(i - 1)
      BY <3>1, <1>4
    <3> QED BY <3>1, <3>2
  <2> QED BY <1>10, <1>13, <2>1, <2>2, <2>3
<1>15. ASSUME NEW i \in 1 .. Len(r), NEW j \in 1 .. Len(r), i < j
       PROVE  Q(i) <= Q(j) /\ Q(j) < Q(i) + S(j)
  <2>1. CASE j \in 1 .. k - 1
    <3>1. i \in 1 .. k - 1
      BY <1>15, <2>1
    <3> QED BY <2>1, <3>1, <1>15, <1>5, <1>11
  <2>2. CASE j = k
    <3>1. i \in 1 .. k - 1
      BY <1>15, <2>2
    <3>2. i \in 1 .. Len(list) /\ Q(i) = P(i) /\ Q(j) = n /\ S(j) = Reach(h) /\ P(i) <= n
      BY <2>2, <3>1, <1>8, <1>10, <1>11
    <3>3. P(i) \in Int /\ P(i) > 2 * MaxIdle - late
      BY <3>2, <1>4
    <3>4. n < P(i) + Reach(h)
      BY <3>3, <1>0, <1>6, SMTT(30)
    <3> QED BY <3>2, <3>4
  <2>3. CASE j \in k + 1 .. Len(list) + 1
    <3>1. /\ j - 1 \in k .. Len(list) /\ j - 1 \in 1 .. Len(list)
          /\ Q(j) = P(j - 1) /\ S(j) = R(j - 1)
      BY <2>3, <1>12
    <3>2. CASE i \in 1 .. k - 1
      <4>1. i \in 1 .. Len(list) /\ Q(i) = P(i) /\ i < j - 1
        BY <3>1, <3>2, <1>3, <1>11
      <4> QED BY <3>1, <4>1, <1>5
    <3>3. CASE i = k
      <4>1. n < P(j - 1) /\ P(j - 1) \in Int /\ P(j - 1) < 2 * MaxIdle + R(j - 1) /\ R(j - 1) \in Nat
        BY <3>1, <1>9, <1>4
      <4>2. Q(i) = n
        BY <3>3, <1>10
      <4> DEFINE x == P(j - 1)
                 y == R(j - 1)
      <4>3. n < x /\ x \in Int /\ x < 2 * MaxIdle + y /\ y \in Nat
        BY <4>1
      <4>4. Q(i) = n /\ Q(j) = x /\ S(j) = y
        BY <3>1, <4>2
      <4> HIDE DEF x, y
      <4>5. n <= x /\ x < n + y
        BY <4>3, <1>0, <1>6
      <4> QED BY <4>4, <4>5
    <3>4. CASE i \in k + 1 .. Len(list) + 1
      <4>1. i - 1 \in 1 .. Len(list) /\ Q(i) = P(i - 1) /\ i - 1 < j - 1
        <5>1. i - 1 \in 1 .. Len(list) /\ Q(i) = P(i - 1)
          BY <3>4, <1>12
        <5> QED BY <5>1, <3>4, <1>15, <1>3
      <4> QED BY <3>1, <4>1, <1>5
    <3> QED BY <1>10, <1>13, <3>2, <3>3, <3>4
  <2> QED BY <1>10, <1>13, <2>1, <2>2, <2>3
<1> QED BY <1>14, <1>15 DEF Timely, Q, S, r

\* The tail of a list, member by member.
LEMMA TailFacts ==
  ASSUME NEW list \in Seq(Timeout), list # <<>>
  PROVE  /\ Tail(list) \in Seq(Timeout)
         /\ Len(list) \in Nat /\ Len(list) > 0 /\ 1 \in 1 .. Len(list)
         /\ Len(Tail(list)) = Len(list) - 1
         /\ Head(list) = list[1]
         /\ \A i \in 1 .. Len(list) - 1 : i + 1 \in 1 .. Len(list) /\ Tail(list)[i] = list[i + 1]
<1>1. Len(list) \in Nat /\ Len(list) > 0
  BY EmptySeq
<1>2. /\ Head(list) = list[1] /\ Tail(list) \in Seq(Timeout)
      /\ Len(Tail(list)) = Len(list) - 1
      /\ \A i \in 1 .. Len(Tail(list)) : Tail(list)[i] = list[i + 1]
  BY HeadTailProperties
<1> QED BY <1>1, <1>2

\* Taking the first timeout leaves the others as they are.
LEMMA TailTimely ==
  ASSUME NEW list \in Seq(Timeout), list # <<>>, NEW c, NEW late, Timely(list, c, late)
  PROVE  Timely(Tail(list), c, late)
<1> DEFINE r == Tail(list)
<1>1. /\ Len(list) \in Nat /\ Len(r) = Len(list) - 1
      /\ \A i \in 1 .. Len(list) - 1 : i + 1 \in 1 .. Len(list) /\ r[i] = list[i + 1]
  BY TailFacts
<1> HIDE DEF r
<1>2. ASSUME NEW i \in 1 .. Len(r)
      PROVE  /\ Pos(r[i].time, c) > 2 * MaxIdle - late
             /\ Pos(r[i].time, c) < 2 * MaxIdle + Reach(r[i].h)
  <2>1. i + 1 \in 1 .. Len(list) /\ r[i] = list[i + 1]
    BY <1>1
  <2> QED BY <2>1 DEF Timely
<1>3. ASSUME NEW i \in 1 .. Len(r), NEW j \in 1 .. Len(r), i < j
      PROVE  /\ Pos(r[i].time, c) <= Pos(r[j].time, c)
             /\ Pos(r[j].time, c) < Pos(r[i].time, c) + Reach(r[j].h)
  <2>1. i + 1 \in 1 .. Len(list) /\ r[i] = list[i + 1]
    BY <1>1
  <2>2. j + 1 \in 1 .. Len(list) /\ r[j] = list[j + 1]
    BY <1>1
  <2>3. i + 1 < j + 1
    BY <1>1, <1>3
  <2> QED BY <2>1, <2>2, <2>3 DEF Timely
<1> QED BY <1>2, <1>3 DEF Timely, r

\* Seen from a later time a timeout is closer by the difference.
LEMMA PosShift ==
  ASSUME NEW u \in Times, NEW c \in Times, NEW d \in Times, Ahead(d, c) <= Pos(u, c)
  PROVE  Pos(u, d) = Pos(u, c) - Ahead(d, c)
<1> DEFINE a == Pos(u, c)
           b == Pos(u, d)
           e == Ahead(d, c)
<1>1. /\ a \in Times
      /\ a = u - c + 2 * MaxIdle \/ a = u - c + 2 * MaxIdle + TICKS \/ a = u - c + 2 * MaxIdle - TICKS
  BY PosCases
<1>2. /\ b \in Times
      /\ b = u - d + 2 * MaxIdle \/ b = u - d + 2 * MaxIdle + TICKS \/ b = u - d + 2 * MaxIdle - TICKS
  BY PosCases
<1>3. e \in Times /\ (e = d - c \/ e = d - c + TICKS)
  BY AheadCases
<1>4. e <= a
  OBVIOUS
<1>5. TICKS \in Nat /\ MaxIdle \in Nat
  BY Bounds
<1> HIDE DEF a, b, e
<1>6. b = a - e
  BY <1>1, <1>2, <1>3, <1>4, <1>5 DEF Times
<1> QED BY <1>6 DEF a, b, e

\* The distance of two timeouts is the difference of their Pos.
LEMMA AheadPos ==
  ASSUME NEW u \in Times, NEW v \in Times, NEW c \in Times, Pos(v, c) <= Pos(u, c)
  PROVE  Ahead(u, v) = Pos(u, c) - Pos(v, c)
<1> DEFINE a == Pos(u, c)
           b == Pos(v, c)
           e == Ahead(u, v)
<1>1. /\ a \in Times
      /\ a = u - c + 2 * MaxIdle \/ a = u - c + 2 * MaxIdle + TICKS \/ a = u - c + 2 * MaxIdle - TICKS
  BY PosCases
<1>2. /\ b \in Times
      /\ b = v - c + 2 * MaxIdle \/ b = v - c + 2 * MaxIdle + TICKS \/ b = v - c + 2 * MaxIdle - TICKS
  BY PosCases
<1>3. e \in Times /\ (e = u - v \/ e = u - v + TICKS)
  BY AheadCases
<1>4. b <= a
  OBVIOUS
<1>5. TICKS \in Nat /\ MaxIdle \in Nat
  BY Bounds
<1> HIDE DEF a, b, e
<1>6. e = a - b
  BY <1>1, <1>2, <1>3, <1>4, <1>5 DEF Times
<1> QED BY <1>6 DEF a, b, e

\* A list that is timely at c is timely at the later d, when none of its
\* timeouts is over by more.
LEMMA MoveTimely ==
  ASSUME NEW list \in Seq(Timeout), NEW c \in Times, NEW d \in Times, NEW late \in Int,
         NEW late2 \in Int, late <= 2 * MaxIdle, Timely(list, c, late),
         \A i \in 1 .. Len(list) :
           /\ Ahead(d, c) <= Pos(list[i].time, c)
           /\ 2 * MaxIdle - late2 < Pos(list[i].time, c) - Ahead(d, c)
  PROVE  Timely(list, d, late2)
<1>1. TICKS \in Nat /\ MaxIdle \in Nat
  BY Bounds
<1> DEFINE e == Ahead(d, c)
           P(i) == Pos(list[i].time, c)
           Q(i) == Pos(list[i].time, d)
           R(i) == Reach(list[i].h)
<1>2. e \in Nat
  <2>1. e \in Times
    BY AheadCases
  <2> HIDE DEF e
  <2> QED BY <2>1, <1>1 DEF Times
<1>3. ASSUME NEW i \in 1 .. Len(list)
      PROVE  Q(i) = P(i) - e /\ P(i) \in Int /\ R(i) \in Nat /\ P(i) < 2 * MaxIdle + R(i)
             /\ 2 * MaxIdle - late2 < P(i) - e
  <2>1. Q(i) = P(i) - e
    BY Member, PosShift
  <2>2. P(i) \in Times
    BY Member, PosCases
  <2>3. R(i) \in Nat /\ P(i) < 2 * MaxIdle + R(i)
    BY Bounds DEF Timely
  <2>4. 2 * MaxIdle - late2 < P(i) - e
    OBVIOUS
  <2> HIDE DEF e, P, Q, R
  <2> QED BY <2>1, <2>2, <2>3, <2>4, <1>1 DEF Times
<1>4. ASSUME NEW i \in 1 .. Len(list), NEW j \in 1 .. Len(list), i < j
      PROVE  P(i) <= P(j) /\ P(j) < P(i) + R(j)
  BY <1>4 DEF Timely
<1> HIDE DEF e, P, Q, R
<1>5. ASSUME NEW i \in 1 .. Len(list)
      PROVE  Q(i) > 2 * MaxIdle - late2 /\ Q(i) < 2 * MaxIdle + R(i)
  <2> DEFINE x == P(i)
             y == R(i)
  <2>1. Q(i) = x - e /\ x \in Int /\ y \in Nat /\ x < 2 * MaxIdle + y /\ 2 * MaxIdle - late2 < x - e
    BY <1>3
  <2> HIDE DEF x, y
  <2>2. x - e > 2 * MaxIdle - late2 /\ x - e < 2 * MaxIdle + y
    BY <2>1, <1>1, <1>2
  <2> QED BY <2>1, <2>2 DEF y
<1>6. ASSUME NEW i \in 1 .. Len(list), NEW j \in 1 .. Len(list), i < j
      PROVE  Q(i) <= Q(j) /\ Q(j) < Q(i) + R(j)
  <2> DEFINE x == P(i)
             y == P(j)
             z == R(j)
  <2>1. Q(i) = x - e /\ x \in Int /\ Q(j) = y - e /\ y \in Int /\ z \in Nat
    BY <1>3
  <2>2. x <= y /\ y < x + z
    BY <1>4, <1>6
  <2> HIDE DEF x, y, z
  <2>3. x - e <= y - e /\ y - e < (x - e) + z
    BY <2>1, <2>2, <1>2
  <2> QED BY <2>1, <2>3 DEF z
<1> QED BY <1>5, <1>6 DEF Timely, Q, R

\* A list that is timely can be shifted.
LEMMA TimelyShiftable ==
  ASSUME NEW list \in Seq(Timeout), NEW c \in Times, NEW late, Timely(list, c, late)
  PROVE  Shiftable(list)
<1>1. TICKS \in Nat /\ MaxIdle \in Nat
  BY Bounds
<1> DEFINE P(i) == Pos(list[i].time, c)
           R(i) == Reach(list[i].h)
           A(i) == Ahead(list[i].time, list[1].time)
<1>2. ASSUME NEW i \in 1 .. Len(list)
      PROVE  P(i) \in Int /\ R(i) \in Nat /\ R(i) > 0
  <2>1. P(i) \in Times
    BY Member, PosCases
  <2>2. R(i) \in Nat /\ R(i) > 0
    BY Bounds
  <2> HIDE DEF P, R
  <2> QED BY <2>1, <2>2, <1>1 DEF Times
<1>3. ASSUME NEW i \in 1 .. Len(list), NEW j \in 1 .. Len(list), i <= j
      PROVE  P(i) <= P(j) /\ P(j) < P(i) + R(j)
  <2>1. CASE i = j
    <3> HIDE DEF P, R
    <3> QED BY <2>1, <1>2
  <2>2. CASE i < j
    BY <2>2 DEF Timely
  <2> QED BY <1>3, <2>1, <2>2
<1>4. ASSUME NEW i \in 1 .. Len(list)
      PROVE  A(i) = P(i) - P(1) /\ 1 \in 1 .. Len(list) /\ 1 <= i
  <2>1. 1 \in 1 .. Len(list) /\ 1 <= i
    OBVIOUS
  <2>2. P(1) <= P(i)
    BY <2>1, <1>3
  <2>3. list[i].time \in Times /\ list[1].time \in Times
    BY <2>1, Member
  <2> QED BY <2>1, <2>2, <2>3, AheadPos
<1> HIDE DEF P, R, A
<1>5. ASSUME NEW i \in 1 .. Len(list), NEW j \in 1 .. Len(list), i <= j
      PROVE  A(i) <= A(j) /\ A(j) < R(j)
  <2> DEFINE x == P(i)
             y == P(j)
             z == P(1)
             w == R(j)
  <2>1. A(i) = x - z /\ A(j) = y - z /\ 1 \in 1 .. Len(list) /\ 1 <= j
    BY <1>4
  <2>2. x <= y /\ y < z + w
    BY <2>1, <1>3, <1>5
  <2>3. x \in Int /\ y \in Int /\ z \in Int /\ w \in Nat
    BY <2>1, <1>2
  <2> HIDE DEF x, y, z, w
  <2>4. x - z <= y - z /\ y - z < w
    BY <2>2, <2>3
  <2> QED BY <2>1, <2>4 DEF w
<1> QED BY <1>5 DEF Shiftable, A, R

\* What sys_restart_timeouts makes of a list, timeout by timeout.
LEMMA RestartFacts ==
  ASSUME NEW list \in Seq(Timeout), clock \in Times
  PROVE  LET r == sys_restart_timeouts(list) IN
         /\ r \in Seq(Timeout) /\ Len(r) = Len(list)
         /\ \A i \in 1 .. Len(list) :
              /\ r[i].h = list[i].h
              /\ r[i].time = After(clock, Ahead(list[i].time, list[1].time))
<1> DEFINE T(i) == After(clock, Ahead(list[i].time, list[1].time))
           r == [i \in 1 .. Len(list) |-> [list[i] EXCEPT !.time = T(i)]]
<1>1. sys_restart_timeouts(list) = r /\ Len(list) \in Nat
  BY DEF sys_restart_timeouts
<1>2. ASSUME NEW i \in 1 .. Len(list)
      PROVE  r[i] \in Timeout /\ r[i].h = list[i].h /\ r[i].time = T(i)
  <2>1. 1 \in 1 .. Len(list)
    OBVIOUS
  <2>2. list[i].time \in Times /\ list[1].time \in Times /\ list[i] \in Timeout
    BY <2>1, Member
  <2>3. T(i) \in Times
    BY <2>2, AheadCases, AfterCases
  <2> HIDE DEF T
  <2> QED BY <2>2, <2>3 DEF Timeout
<1>3. r \in Seq(Timeout) /\ Len(r) = Len(list)
  <2> HIDE DEF T
  <2>1. \A i \in 1 .. Len(list) : r[i] \in Timeout
    BY <1>2
  <2>2. r \in [1 .. Len(list) -> Timeout]
    BY <2>1
  <2> HIDE DEF r
  <2>3. r \in Seq(Timeout)
    BY <1>1, <2>2
  <2> QED BY <1>1, <2>2, <2>3, LenProperties
<1> HIDE DEF r
<1> QED BY <1>1, <1>2, <1>3

\* Behind sys_restart_timeouts the first timeout is due now, and the others
\* follow in their old order: the list is timely however far away it was.
LEMMA RestartTimely ==
  ASSUME NEW list \in Seq(Timeout), clock \in Times, Shiftable(list)
  PROVE  Timely(sys_restart_timeouts(list), clock, TCP_TMR_INTERVAL)
<1> DEFINE r == sys_restart_timeouts(list)
           A(i) == Ahead(list[i].time, list[1].time)
           Q(i) == Pos(r[i].time, clock)
           R(i) == Reach(r[i].h)
<1>1. /\ TICKS \in Nat /\ MaxIdle \in Nat
      /\ TCP_TMR_INTERVAL \in Nat /\ TCP_TMR_INTERVAL > 0
  BY Bounds
<1>2. Len(r) = Len(list)
  BY RestartFacts
<1>3. ASSUME NEW i \in 1 .. Len(list)
      PROVE  /\ A(i) \in Nat /\ R(i) \in Nat /\ R(i) = Reach(list[i].h)
             /\ A(i) < R(i) /\ Q(i) = 2 * MaxIdle + A(i)
  <2>1. r[i].h = list[i].h /\ r[i].time = After(clock, A(i))
    BY RestartFacts
  <2>2. A(i) \in Times
    <3>1. 1 \in 1 .. Len(list)
      OBVIOUS
    <3> QED BY <3>1, Member, AheadCases
  <2>3. A(i) < Reach(list[i].h)
    BY DEF Shiftable
  <2>4. R(i) = Reach(list[i].h) /\ R(i) \in Nat /\ 2 * MaxIdle + R(i) < TICKS
    BY <2>1, Bounds
  <2> DEFINE x == A(i)
             t == After(clock, x)
             y == R(i)
             q == Pos(t, clock)
  <2>5. t \in Times /\ (t = clock + x \/ t = clock + x - TICKS)
    BY <2>2, AfterCases
  <2>6. /\ q \in Times
        /\ \/ q = t - clock + 2 * MaxIdle
           \/ q = t - clock + 2 * MaxIdle + TICKS
           \/ q = t - clock + 2 * MaxIdle - TICKS
    BY <2>5, PosCases
  <2>7. x \in Times /\ x < y /\ y \in Nat /\ 2 * MaxIdle + y < TICKS
    BY <2>2, <2>3, <2>4
  <2>8. Q(i) = q
    BY <2>1
  <2> HIDE DEF A, R, Q, r
  <2> HIDE DEF q, t, y, x
  <2>9. q = 2 * MaxIdle + x /\ x \in Nat
    BY <2>5, <2>6, <2>7, <1>1 DEF Times
  <2> QED BY <2>4, <2>7, <2>8, <2>9 DEF x, y
<1>4. ASSUME NEW i \in 1 .. Len(list), NEW j \in 1 .. Len(list), i < j
      PROVE  A(i) <= A(j)
  <2>1. i <= j
    BY <1>4
  <2> QED BY <2>1 DEF Shiftable
<1> HIDE DEF A, R, Q, r
<1>5. ASSUME NEW i \in 1 .. Len(list)
      PROVE  Q(i) > 2 * MaxIdle - TCP_TMR_INTERVAL /\ Q(i) < 2 * MaxIdle + R(i)
  <2> DEFINE x == A(i)
             y == R(i)
  <2>1. x \in Nat /\ y \in Nat /\ x < y /\ Q(i) = 2 * MaxIdle + x
    BY <1>3
  <2> HIDE DEF x, y
  <2>2. 2 * MaxIdle + x > 2 * MaxIdle - TCP_TMR_INTERVAL /\ 2 * MaxIdle + x < 2 * MaxIdle + y
    BY <1>1, <2>1
  <2> QED BY <2>1, <2>2 DEF y
<1>6. ASSUME NEW i \in 1 .. Len(list), NEW j \in 1 .. Len(list), i < j
      PROVE  Q(i) <= Q(j) /\ Q(j) < Q(i) + R(j)
  <2> DEFINE x == A(i)
             y == A(j)
             z == R(j)
  <2>1. x \in Nat /\ y \in Nat /\ z \in Nat /\ y < z /\ Q(i) = 2 * MaxIdle + x /\ Q(j) = 2 * MaxIdle + y
    BY <1>3
  <2>2. x <= y
    BY <1>4, <1>6
  <2> HIDE DEF x, y, z
  <2>3. 2 * MaxIdle + x <= 2 * MaxIdle + y /\ 2 * MaxIdle + y < 2 * MaxIdle + x + z
    BY <1>1, <2>1, <2>2
  <2> QED BY <2>1, <2>3 DEF z
<1> QED BY <1>2, <1>5, <1>6 DEF Timely, Q, R, r

-----------------------------------------------------------------------------
(* The steps of the list.                                                  *)

\* The Pos of a time that lies ms ticks ahead of the clock, which has run on
\* since c by no more than a round.
LEMMA PosOfNext ==
  ASSUME clock \in Times, NEW c \in Times, Ahead(clock, c) <= MaxIdle, NEW h
  PROVE  /\ After(clock, Interval(h)) \in Times
         /\ Pos(After(clock, Interval(h)), c) = 2 * MaxIdle + Ahead(clock, c) + Interval(h)
<1> DEFINE e == Ahead(clock, c)
           n == Interval(h)
           t == After(clock, n)
           q == Pos(t, c)
<1>1. /\ TICKS \in Nat /\ MaxIdle \in Nat /\ n \in Nat /\ 4 * MaxIdle + 2 * n < TICKS
  BY Bounds
<1>2. e \in Times /\ (e = clock - c \/ e = clock - c + TICKS) /\ e <= MaxIdle
  BY AheadCases
<1>3. n \in Times
  <2> HIDE DEF n
  <2> QED BY <1>1 DEF Times
<1>4. t \in Times /\ (t = clock + n \/ t = clock + n - TICKS)
  BY <1>3, AfterCases
<1>5. /\ q \in Times
      /\ q = t - c + 2 * MaxIdle \/ q = t - c + 2 * MaxIdle + TICKS \/ q = t - c + 2 * MaxIdle - TICKS
  BY <1>4, PosCases
<1> HIDE DEF q, t, n, e
<1>6. q = 2 * MaxIdle + e + n
  BY <1>1, <1>2, <1>4, <1>5 DEF Times
<1> QED BY <1>4, <1>6 DEF q, t, n, e

\* sys_timeout keeps the list timely, for the clock and for the time c at which
\* the sys_check_timeouts that is running began.
LEMMA SysTimeoutTimely ==
  ASSUME NEW list \in Seq(Timeout), clock \in Times, NEW c \in Times, Ahead(clock, c) <= MaxIdle,
         NEW late \in 0 .. MaxIdle, Timely(list, c, late), NEW h \in {"tcp", "reass"}
  PROVE  Timely(sys_timeout(list, h), c, late)
<1> DEFINE t == After(clock, Interval(h))
           q == Pos(t, c)
           n == Interval(h)
           e == Ahead(clock, c)
<1>1. t \in Times /\ q = 2 * MaxIdle + e + n
  BY PosOfNext
<1>2. MaxIdle \in Nat /\ TICKS \in Nat /\ n \in Nat /\ n > 0
  BY Bounds
<1>3. e \in Times /\ e <= MaxIdle
  BY AheadCases
<1>4. q >= 2 * MaxIdle /\ q > 2 * MaxIdle - late /\ q <= 3 * MaxIdle + n
  <2> HIDE DEF q, n, e
  <2> QED BY <1>1, <1>2, <1>3 DEF Times
<1>5. Timely(sys_timeout_abs(list, h, t), c, late)
  BY <1>1, <1>4, InsertSorted
<1> QED BY <1>5 DEF sys_timeout

\* Whether the first timeout is due at c shows in its Pos.
LEMMA DuePos ==
  ASSUME NEW u \in Times, NEW c \in Times, NEW h, Pos(u, c) < 2 * MaxIdle + Reach(h)
  PROVE  TIME_LESS_THAN(c, u) <=> Pos(u, c) > 2 * MaxIdle
<1> DEFINE q == Pos(u, c)
           e == Ahead(c, u)
           r == Reach(h)
<1>1. TIME_LESS_THAN(c, u) <=> 2 * e >= TICKS
  BY LessThan
<1>2. e \in Times /\ (e = c - u \/ e = c - u + TICKS)
  BY AheadCases
<1>3. /\ q \in Times
      /\ q = u - c + 2 * MaxIdle \/ q = u - c + 2 * MaxIdle + TICKS \/ q = u - c + 2 * MaxIdle - TICKS
  BY PosCases
<1>4. TICKS \in Nat /\ MaxIdle \in Nat /\ r \in Nat /\ 2 * r < TICKS /\ 4 * MaxIdle < TICKS
  BY Bounds
<1>5. q < 2 * MaxIdle + r
  OBVIOUS
<1> HIDE DEF q, e, r
<1>6. 2 * e >= TICKS <=> q > 2 * MaxIdle
  BY <1>2, <1>3, <1>4, <1>5 DEF Times
<1> QED BY <1>1, <1>6 DEF q

\* The next turn of the cyclic timer whose turn due was served keeps the list
\* timely: either it counts from due and is not over yet, or from the clock.
LEMMA CyclicTimely ==
  ASSUME NEW list \in Seq(Timeout), clock \in Times, NEW c \in Times, Ahead(clock, c) <= MaxIdle,
         Timely(list, c, MaxIdle), NEW h \in {"tcp", "reass"}, NEW due \in Times,
         Pos(due, c) > MaxIdle, Pos(due, c) <= 2 * MaxIdle
  PROVE  Timely(lwip_cyclic_timer(list, h, due), c, MaxIdle)
<1> DEFINE next == After(due, Interval(h))
<1>1. MaxIdle \in 0 .. MaxIdle
  BY Bounds
<1>2. CASE TIME_LESS_THAN(next, clock)
  BY <1>1, <1>2, SysTimeoutTimely DEF lwip_cyclic_timer
<1>3. CASE ~TIME_LESS_THAN(next, clock)
  <2> DEFINE n == Interval(h)
             t == After(due, n)
             q == Pos(t, c)
             e == Ahead(clock, c)
             d == Pos(due, c)
             f == Ahead(t, clock)
  <2>1. /\ TICKS \in Nat /\ MaxIdle \in Nat /\ n \in Nat /\ 4 * MaxIdle + 2 * n < TICKS /\ n > 0
        /\ MaxIdle > 0
    BY Bounds
  <2>2. n \in Times
    <3> HIDE DEF n
    <3> QED BY <2>1 DEF Times
  <2>3. t \in Times /\ (t = due + n \/ t = due + n - TICKS)
    BY <2>2, AfterCases
  <2>4. /\ q \in Times
        /\ q = t - c + 2 * MaxIdle \/ q = t - c + 2 * MaxIdle + TICKS \/ q = t - c + 2 * MaxIdle - TICKS
    BY <2>3, PosCases
  <2>5. e \in Times /\ (e = clock - c \/ e = clock - c + TICKS) /\ e <= MaxIdle
    BY AheadCases
  <2>6. /\ d \in Times /\ d > MaxIdle /\ d <= 2 * MaxIdle
        /\ \/ d = due - c + 2 * MaxIdle \/ d = due - c + 2 * MaxIdle + TICKS
           \/ d = due - c + 2 * MaxIdle - TICKS
    BY PosCases
  <2>7. f \in Times /\ (f = t - clock \/ f = t - clock + TICKS)
    BY <2>3, AheadCases
  <2>8. ~(2 * f >= TICKS)
    BY <1>3, <2>3, LessThan
  <2> HIDE DEF d, e, f, q, t, n
  <2>9. q = d + n
    BY <2>1, <2>3, <2>4, <2>6 DEF Times
  <2>10. q >= 2 * MaxIdle /\ q <= 3 * MaxIdle + n
    BY <2>1, <2>3, <2>4, <2>5, <2>6, <2>7, <2>8, <2>9 DEF Times
  <2>11. q > 2 * MaxIdle - MaxIdle
    BY <2>1, <2>4, <2>10 DEF Times
  <2>12. Timely(sys_timeout_abs(list, h, t), c, MaxIdle)
    BY <1>1, <2>3, <2>10, <2>11, InsertSorted DEF q, n
  <2> QED BY <1>3, <2>12 DEF lwip_cyclic_timer, t, n
<1> QED BY <1>2, <1>3

\* A tick brings every timeout one closer and makes one that is over later by
\* one; a clock that stands still changes nothing.
LEMMA TickTimely ==
  ASSUME NEW list \in Seq(Timeout), clock \in Times, clock' \in Times, NEW late \in Nat,
         late < MaxIdle, Timely(list, clock, late), clock' = After(clock, 1) \/ clock' = clock
  PROVE  Timely(list, clock', late + 1)
<1>1. TICKS \in Nat /\ MaxIdle \in Nat /\ TICKS > 1
  BY Bounds, TimeoutsAssumption
<1> DEFINE e == Ahead(clock', clock)
<1>2. e = 0 \/ e = 1
  <2>1. e \in Times /\ (e = clock' - clock \/ e = clock' - clock + TICKS)
    BY AheadCases
  <2>2. 1 \in Times
    BY <1>1 DEF Times
  <2>3. clock' = clock + 1 \/ clock' = clock + 1 - TICKS \/ clock' = clock
    BY <2>2, AfterCases
  <2> DEFINE x == clock
             y == clock'
  <2>4. /\ x \in Times /\ y \in Times /\ e \in Times /\ (e = y - x \/ e = y - x + TICKS)
        /\ y = x + 1 \/ y = x + 1 - TICKS \/ y = x
    BY <2>1, <2>3
  <2> HIDE DEF e, x, y
  <2> QED BY <1>1, <2>4 DEF Times
<1>3. ASSUME NEW i \in 1 .. Len(list)
      PROVE  /\ e <= Pos(list[i].time, clock)
             /\ 2 * MaxIdle - (late + 1) < Pos(list[i].time, clock) - e
  <2> DEFINE x == Pos(list[i].time, clock)
  <2>1. x \in Times
    BY Member, PosCases
  <2>2. x > 2 * MaxIdle - late
    BY DEF Timely
  <2> HIDE DEF x, e
  <2>3. e <= x /\ 2 * MaxIdle - (late + 1) < x - e
    BY <1>1, <1>2, <2>1, <2>2 DEF Times
  <2> QED BY <2>3 DEF x
<1>4. late \in Int /\ late + 1 \in Int /\ late <= 2 * MaxIdle
  BY <1>1
<1> QED BY <1>3, <1>4, MoveTimely

\* When no timeout of the list was due at c, none is later at the clock than
\* the time that has passed since.
LEMMA DoneTimely ==
  ASSUME NEW list \in Seq(Timeout), clock \in Times, NEW c \in Times, NEW late \in 0 .. MaxIdle,
         Timely(list, c, MaxIdle), Ahead(clock, c) <= late,
         list # <<>> => TIME_LESS_THAN(c, Head(list).time)
  PROVE  Timely(list, clock, late)
<1>1. TICKS \in Nat /\ MaxIdle \in Nat
  BY Bounds
<1> DEFINE e == Ahead(clock, c)
<1>2. e \in Times /\ e <= late
  BY AheadCases
<1>3. ASSUME NEW i \in 1 .. Len(list)
      PROVE  /\ e <= Pos(list[i].time, c)
             /\ 2 * MaxIdle - late < Pos(list[i].time, c) - e
  <2>1. Len(list) \in Nat /\ 1 \in 1 .. Len(list) /\ (i = 1 \/ 1 < i) /\ list # <<>>
    BY EmptySeq
  <2>2. Head(list) = list[1]
    BY <2>1, TailFacts
  <2> DEFINE x == Pos(list[i].time, c)
             y == Pos(list[1].time, c)
  <2>3. x \in Times /\ y \in Times
    BY <2>1, Member, PosCases
  <2>4. y < 2 * MaxIdle + Reach(list[1].h)
    BY <2>1 DEF Timely
  <2>5. y > 2 * MaxIdle
    BY <2>1, <2>2, <2>4, Member, DuePos
  <2>6. 1 < i => y <= x
    BY <2>1 DEF Timely
  <2>7. i = 1 => y = x
    OBVIOUS
  <2> HIDE DEF x, y, e
  <2>8. e <= x /\ 2 * MaxIdle - late < x - e
    BY <1>1, <1>2, <2>1, <2>3, <2>5, <2>6, <2>7 DEF Times
  <2> QED BY <2>8 DEF x
<1>4. late \in Int /\ MaxIdle \in Int /\ MaxIdle <= 2 * MaxIdle
  BY <1>1
<1> QED BY <1>3, <1>4, MoveTimely

\* What a timely list means for the clock, a round behind c or less.
LEMMA TimelyOnTime ==
  ASSUME NEW list \in Seq(Timeout), clock \in Times, NEW c \in Times, NEW late \in 0 .. MaxIdle,
         Timely(list, c, late), Ahead(clock, c) <= MaxIdle, NEW i \in 1 .. Len(list)
  PROVE  \/ Ahead(clock, list[i].time) < 2 * MaxIdle
         \/ Ahead(list[i].time, clock) < Interval(list[i].h) + 2 * MaxIdle
<1> DEFINE u == list[i].time
           n == Interval(list[i].h)
           x == Pos(u, c)
           e == Ahead(clock, c)
           a == Ahead(clock, u)
           b == Ahead(u, clock)
<1>1. TICKS \in Nat /\ MaxIdle \in Nat /\ n \in Nat /\ 4 * MaxIdle + 2 * n < TICKS /\ MaxIdle > 0
  BY Bounds
<1>2. u \in Times
  BY Member
<1>3. e \in Times /\ e <= MaxIdle /\ (e = clock - c \/ e = clock - c + TICKS)
  BY AheadCases
<1>4. a \in Times /\ (a = clock - u \/ a = clock - u + TICKS)
  BY <1>2, AheadCases
<1>5. b \in Times /\ (b = u - clock \/ b = u - clock + TICKS)
  BY <1>2, AheadCases
<1>6. /\ x \in Times
      /\ x = u - c + 2 * MaxIdle \/ x = u - c + 2 * MaxIdle + TICKS \/ x = u - c + 2 * MaxIdle - TICKS
  BY <1>2, PosCases
<1>7. Reach(list[i].h) = n + 2 * MaxIdle
  BY DEF Reach
<1>8. x > 2 * MaxIdle - late /\ x < 2 * MaxIdle + (n + 2 * MaxIdle)
  BY <1>7 DEF Timely
<1> HIDE DEF a, b, e, x, n, u
<1>9. a < 2 * MaxIdle \/ b < n + 2 * MaxIdle
  BY <1>1, <1>2, <1>3, <1>4, <1>5, <1>6, <1>8 DEF Times
<1> QED BY <1>9 DEF a, b, n, u

-----------------------------------------------------------------------------
(* The TCP timer in the list.                                              *)

\* An insertion adds the timeout of h and keeps the others.
LEMMA InsertOnce ==
  ASSUME NEW list \in Seq(Timeout), NEW h \in {"tcp", "reass"}, NEW time \in Times,
         AtMostOnce(list), h = "tcp" => ~HasTcp(list)
  PROVE  /\ sys_timeout_abs(list, h, time) \in Seq(Timeout)
         /\ AtMostOnce(sys_timeout_abs(list, h, time))
         /\ HasTcp(sys_timeout_abs(list, h, time)) <=> h = "tcp" \/ HasTcp(list)
<1> DEFINE t == [h |-> h, time |-> time]
           r == sys_timeout_abs(list, h, time)
<1>1. PICK k \in 1 .. Len(list) + 1 : Inserted(list, t, k, r)
  BY SysTimeoutAbs
<1>2. Len(list) \in Nat /\ t.h = h
  OBVIOUS
<1> HIDE DEF t, r
<1>3. r \in Seq(Timeout) /\ Len(r) = Len(list) + 1 /\ r[k].h = h /\ k \in 1 .. Len(r)
  BY <1>1, <1>2 DEF Inserted
<1> DEFINE from(i) == IF i < k THEN i ELSE i - 1
<1>4. ASSUME NEW i \in 1 .. Len(r), i # k
      PROVE  from(i) \in 1 .. Len(list) /\ r[i] = list[from(i)]
  <2>1. CASE i < k
    <3>1. i \in 1 .. Len(list) /\ i \in 1 .. k - 1
      BY <2>1, <1>2
    <3> QED BY <2>1, <3>1, <1>1 DEF Inserted
  <2>2. CASE ~(i < k)
    <3>1. i - 1 \in k .. Len(list) /\ i - 1 \in 1 .. Len(list) /\ (i - 1) + 1 = i
      BY <2>2, <1>2, <1>3, <1>4
    <3>2. r[(i - 1) + 1] = list[i - 1]
      BY <3>1, <1>1 DEF Inserted
    <3> QED BY <2>2, <3>1, <3>2
  <2> QED BY <2>1, <2>2
<1>5. ASSUME NEW j \in 1 .. Len(list)
      PROVE  \E i \in 1 .. Len(r) : r[i] = list[j]
  <2>1. CASE j < k
    <3>1. j \in 1 .. Len(r) /\ j \in 1 .. k - 1
      BY <2>1, <1>2, <1>3
    <3> QED BY <3>1, <1>1 DEF Inserted
  <2>2. CASE ~(j < k)
    <3>1. j + 1 \in 1 .. Len(r) /\ j \in k .. Len(list)
      BY <2>2, <1>2, <1>3
    <3> QED BY <3>1, <1>1 DEF Inserted
  <2> QED BY <2>1, <2>2
<1>6. HasTcp(r) <=> h = "tcp" \/ HasTcp(list)
  <2> HIDE DEF from
  <2>1. ASSUME HasTcp(r), h # "tcp" PROVE HasTcp(list)
    <3>1. PICK i \in 1 .. Len(r) : r[i].h = "tcp"
      BY <2>1 DEF HasTcp
    <3>2. i # k
      BY <3>1, <2>1, <1>3
    <3> QED BY <3>1, <3>2, <1>4 DEF HasTcp
  <2>2. ASSUME h = "tcp" PROVE HasTcp(r)
    BY <2>2, <1>3 DEF HasTcp
  <2>3. ASSUME HasTcp(list) PROVE HasTcp(r)
    BY <2>3, <1>5 DEF HasTcp
  <2> QED BY <2>1, <2>2, <2>3
<1>7. ASSUME NEW i \in 1 .. Len(r), NEW j \in 1 .. Len(r), r[i].h = "tcp", r[j].h = "tcp"
      PROVE  i = j
  <2>1. CASE h = "tcp"
    <3>1. \A m \in 1 .. Len(list) : list[m].h # "tcp"
      BY <2>1 DEF HasTcp
    <3>2. i = k
      BY <3>1, <1>4, <1>7
    <3>3. j = k
      BY <3>1, <1>4, <1>7
    <3> QED BY <3>2, <3>3
  <2>2. CASE h # "tcp"
    <3>1. i # k /\ j # k
      BY <2>2, <1>3, <1>7
    <3>2. from(i) \in 1 .. Len(list) /\ list[from(i)].h = "tcp"
      BY <3>1, <1>4, <1>7
    <3>3. from(j) \in 1 .. Len(list) /\ list[from(j)].h = "tcp"
      BY <3>1, <1>4, <1>7
    <3> HIDE DEF from
    <3>4. from(i) = from(j)
      BY <3>2, <3>3 DEF AtMostOnce
    <3> QED BY <3>1, <3>4, <1>2, <1>3 DEF from
  <2> QED BY <2>1, <2>2
<1> QED BY <1>3, <1>6, <1>7 DEF AtMostOnce, r

\* Taking the first timeout takes the TCP timer if that is its own.
LEMMA TailOnce ==
  ASSUME NEW list \in Seq(Timeout), list # <<>>, AtMostOnce(list)
  PROVE  /\ AtMostOnce(Tail(list))
         /\ Head(list).h = "tcp" => HasTcp(list) /\ ~HasTcp(Tail(list))
         /\ Head(list).h # "tcp" => (HasTcp(Tail(list)) <=> HasTcp(list))
<1> DEFINE r == Tail(list)
<1>1. /\ Len(list) \in Nat /\ Len(r) = Len(list) - 1 /\ Head(list) = list[1] /\ 1 \in 1 .. Len(list)
      /\ \A i \in 1 .. Len(list) - 1 : i + 1 \in 1 .. Len(list) /\ r[i] = list[i + 1]
  BY TailFacts
<1> HIDE DEF r
<1>2. ASSUME NEW i \in 1 .. Len(r), NEW j \in 1 .. Len(r), r[i].h = "tcp", r[j].h = "tcp"
      PROVE  i = j
  <2>1. i + 1 \in 1 .. Len(list) /\ list[i + 1].h = "tcp" /\ j + 1 \in 1 .. Len(list) /\ list[j + 1].h = "tcp"
    BY <1>1, <1>2
  <2>2. i + 1 = j + 1
    BY <2>1 DEF AtMostOnce
  <2> QED BY <2>2
<1>3. ASSUME HasTcp(r) PROVE HasTcp(list) /\ Head(list).h # "tcp"
  <2>1. PICK i \in 1 .. Len(r) : r[i].h = "tcp"
    BY <1>3 DEF HasTcp
  <2>2. i + 1 \in 1 .. Len(list) /\ list[i + 1].h = "tcp" /\ i + 1 # 1
    BY <2>1, <1>1
  <2> QED BY <2>2, <1>1 DEF HasTcp, AtMostOnce
<1>4. ASSUME HasTcp(list), Head(list).h # "tcp" PROVE HasTcp(r)
  <2>1. PICK i \in 1 .. Len(list) : list[i].h = "tcp"
    BY <1>4 DEF HasTcp
  <2>2. i # 1
    BY <2>1, <1>1, <1>4
  <2>3. i - 1 \in 1 .. Len(r) /\ (i - 1) + 1 = i /\ i - 1 \in 1 .. Len(list) - 1
    BY <2>2, <1>1
  <2>4. r[i - 1] = list[(i - 1) + 1]
    BY <2>3, <1>1
  <2> QED BY <2>1, <2>3, <2>4 DEF HasTcp
<1>5. Head(list).h = "tcp" => HasTcp(list)
  BY <1>1 DEF HasTcp
<1> QED BY <1>2, <1>3, <1>4, <1>5 DEF AtMostOnce, r

\* The timeouts of the TCP timer counted.
LEMMA CountOnce ==
  ASSUME NEW list \in Seq(Timeout), AtMostOnce(list)
  PROVE  Cardinality({i \in DOMAIN list : list[i].h = "tcp"}) = IF HasTcp(list) THEN 1 ELSE 0
<1> DEFINE S == {i \in DOMAIN list : list[i].h = "tcp"}
<1>1. DOMAIN list = 1 .. Len(list)
  OBVIOUS
<1>2. CASE HasTcp(list)
  <2>1. PICK i \in 1 .. Len(list) : list[i].h = "tcp"
    BY <1>2 DEF HasTcp
  <2>2. S = {i}
    BY <1>1, <2>1 DEF AtMostOnce
  <2> QED BY <1>2, <2>2, FS_Singleton
<1>3. CASE ~HasTcp(list)
  <2>1. S = {}
    BY <1>1, <1>3 DEF HasTcp
  <2> QED BY <1>3, <2>1, FS_EmptySet
<1> QED BY <1>2, <1>3

\* sys_restart_timeouts changes times only.
LEMMA RestartOnce ==
  ASSUME NEW list \in Seq(Timeout), clock \in Times, AtMostOnce(list)
  PROVE  /\ AtMostOnce(sys_restart_timeouts(list))
         /\ HasTcp(sys_restart_timeouts(list)) <=> HasTcp(list)
<1> DEFINE r == sys_restart_timeouts(list)
<1>1. Len(r) = Len(list) /\ \A i \in 1 .. Len(list) : r[i].h = list[i].h
  BY RestartFacts
<1> HIDE DEF r
<1>2. AtMostOnce(r)
  BY <1>1 DEF AtMostOnce
<1>3. HasTcp(r) <=> HasTcp(list)
  BY <1>1 DEF HasTcp
<1> QED BY <1>2, <1>3 DEF r

-----------------------------------------------------------------------------
(* The pool, the listener and the connections.                             *)

Listeners == [arg : {None} \cup Refs, accepts_pending : 0 .. BACKLOG]
PcbPool == [Pcbs -> Pcb \cup {Free}]
ConnStates == [Conns -> {"New", "Active", "Dead"}]

\* The pcbs that hold a slot of the backlog.
Slots(ps) == {p \in InUse(ps) : ps[p].pend /\ ps[p].listener # None}

\* What the listener, the pcbs and the connections keep among themselves: the
\* slots are counted, no pcb points to another listener, a half-open pcb has a
\* slot to give back, one in TIME_WAIT has none, which nobody would give back,
\* and a connection that is New has a pcb.
PoolInv(w) ==
  /\ w \in [l : Listeners, ps : PcbPool, cs : ConnStates]
  /\ w.l.accepts_pending = Cardinality(Slots(w.ps))
  /\ \A p \in InUse(w.ps) :
       /\ w.ps[p].listener \in {None, w.l.arg}
       /\ w.ps[p].st = "TIME_WAIT" => p \notin Slots(w.ps)
       /\ w.ps[p].st = "SYN_RCVD" => w.ps[p].conn = None /\ w.ps[p].pend
  /\ \A c \in Conns : w.cs[c] = "New" => \E p \in InUse(w.ps) : w.ps[p].conn = c

\* What start and stop keep: the timer runs and the netif is listed exactly
\* while the stack is ready, all point to the ref of the stack, and that ref is
\* alive.
Wiring ==
  /\ stack.timer = stack.ready /\ netif.listed = stack.ready
  /\ netif.state = stack.state
  /\ stack.ready => stack.stackRef = stack.state /\ stack.state # None
  /\ ~stack.ready => stack.state = None
  /\ stack.stackRef # None => refs[stack.stackRef].alive
  /\ listener.arg # None => stack.ready /\ listener.arg = stack.state

\* A ref is retained for lwIP exactly while it is the state of the netif.
Retained == \A r \in Refs : refs[r].retains = IF netif.listed /\ netif.state = r THEN 1 ELSE 0

\* The TCP timer is in the list when it is active, never twice, and it is
\* active while there are pcbs.
TimerInv ==
  /\ AtMostOnce(timeouts)
  /\ tcpActive <=> HasTcp(timeouts)
  /\ InUse(pcbs) # {} => tcpActive

\* The list is timely, seen from the clock or, while sys_check_timeouts runs,
\* from the time it took at its start, which is not longer ago than idle.
TimesInv ==
  /\ stack.timer /\ check = NotChecking => Timely(timeouts, clock, idle)
  /\ check # NotChecking => /\ stack.timer
                            /\ Ahead(clock, check) <= idle
                            /\ Timely(timeouts, check, MaxIdle)
  /\ ~stack.timer => Shiftable(timeouts)

\* The inductive invariant.
StackInv == TypeOK /\ Wiring /\ Retained /\ PoolInv(World) /\ TimerInv /\ TimesInv

-----------------------------------------------------------------------------
(* The pool.                                                               *)

\* The parts of a world.
LEMMA PoolFields ==
  ASSUME NEW w, PoolInv(w)
  PROVE  /\ w.l \in Listeners /\ w.ps \in PcbPool /\ w.cs \in ConnStates
         /\ w = [l |-> w.l, ps |-> w.ps, cs |-> w.cs]
         /\ w.l.arg \in {None} \cup Refs /\ w.l.accepts_pending \in 0 .. BACKLOG
         /\ w.l = [arg |-> w.l.arg, accepts_pending |-> w.l.accepts_pending]
<1>1. w \in [l : Listeners, ps : PcbPool, cs : ConnStates]
  BY DEF PoolInv
<1>2. /\ w.l \in Listeners /\ w.ps \in PcbPool /\ w.cs \in ConnStates
      /\ w = [l |-> w.l, ps |-> w.ps, cs |-> w.cs]
  BY <1>1
<1> QED BY <1>2 DEF Listeners

\* A pcb that is in use, and its fields.
LEMMA UsedPcb ==
  ASSUME NEW ps \in PcbPool, NEW p \in InUse(ps)
  PROVE  /\ p \in Pcbs /\ ps[p] \in Pcb
         /\ ps[p].st \in {"SYN_RCVD", "ESTABLISHED", "FIN_WAIT", "CLOSING", "LAST_ACK", "TIME_WAIT"}
         /\ ps[p].listener \in {None} \cup Refs /\ ps[p].pend \in BOOLEAN
         /\ ps[p].conn \in {None} \cup Conns
<1>1. p \in Pcbs /\ ps[p].st # "free" /\ ps[p] \in Pcb \cup {Free}
  BY DEF InUse, PcbPool
<1>2. ps[p] \in Pcb
  BY <1>1 DEF Free
<1> QED BY <1>1, <1>2 DEF Pcb

\* The slots are a finite set.
LEMMA SlotsFinite ==
  ASSUME NEW ps
  PROVE  IsFiniteSet(Slots(ps)) /\ Slots(ps) \subseteq Pcbs /\ Cardinality(Slots(ps)) \in Nat
<1>1. Slots(ps) \subseteq Pcbs /\ IsFiniteSet(Pcbs)
  BY StackAssumption DEF Slots, InUse
<1> QED BY <1>1, FS_Subset, FS_CardinalityType

\* Without a listener there are no slots.
LEMMA NoArgNoSlots ==
  ASSUME NEW w, PoolInv(w), w.l.arg = None
  PROVE  /\ Slots(w.ps) = {} /\ w.l.accepts_pending = 0 /\ w.l = NoListener
         /\ \A p \in InUse(w.ps) : w.ps[p].listener = None
<1>1. \A p \in InUse(w.ps) : w.ps[p].listener = None
  BY DEF PoolInv
<1>2. Slots(w.ps) = {}
  BY <1>1 DEF Slots
<1>3. w.l.accepts_pending = 0
  BY <1>2, FS_EmptySet DEF PoolInv
<1>4. w.l = [arg |-> w.l.arg, accepts_pending |-> w.l.accepts_pending]
  BY PoolFields
<1> QED BY <1>1, <1>2, <1>3, <1>4 DEF NoListener

\* What FreeAll frees and what it leaves: a slot is given back exactly for the
\* freed pcbs that hold one.
LEMMA FreeAllFacts ==
  ASSUME NEW w, PoolInv(w), NEW D \in SUBSET Pcbs
  PROVE  LET v == FreeAll(w, D) IN
         /\ v.l = [w.l EXCEPT !.accepts_pending = @ - Cardinality(Slots(w.ps) \cap D)]
         /\ v.ps = [p \in Pcbs |-> IF p \in D THEN Free ELSE w.ps[p]]
         /\ v.cs = [c \in Conns |-> IF \E p \in D \cap InUse(w.ps) : w.ps[p].conn = c
                                      THEN "Dead" ELSE w.cs[c]]
         /\ v = [l |-> v.l, ps |-> v.ps, cs |-> v.cs]
<1> DEFINE used == D \cap InUse(w.ps)
           slots == {p \in used : tcp_pcb_purge(w, p).l # w.l}
<1>1. /\ w.l \in Listeners /\ w.ps \in PcbPool /\ w.l.accepts_pending \in Nat
      /\ w = [l |-> w.l, ps |-> w.ps, cs |-> w.cs]
      /\ w.l = [arg |-> w.l.arg, accepts_pending |-> w.l.accepts_pending]
  BY PoolFields, StackAssumption
<1>2. ASSUME NEW p \in used
      PROVE  tcp_pcb_purge(w, p).l # w.l <=> p \in Slots(w.ps)
  <2>1. CASE w.ps[p].st = "TIME_WAIT"
    BY <2>1 DEF tcp_pcb_purge, PoolInv
  <2>2. CASE w.ps[p].st # "TIME_WAIT" /\ p \notin Slots(w.ps)
    <3>1. ~(w.ps[p].pend /\ w.ps[p].listener # None)
      BY <2>2 DEF Slots
    <3> QED BY <2>2, <3>1 DEF tcp_pcb_purge, tcp_backlog_accepted
  <2>3. CASE w.ps[p].st # "TIME_WAIT" /\ p \in Slots(w.ps)
    <3>1. w.ps[p].pend /\ w.ps[p].listener # None
      BY <2>3 DEF Slots
    <3>2. tcp_pcb_purge(w, p) = [w EXCEPT !.l.accepts_pending = w.l.accepts_pending - 1, !.ps[p].pend = FALSE]
      BY <2>3, <3>1 DEF tcp_pcb_purge, tcp_backlog_accepted
    <3>3. tcp_pcb_purge(w, p).l = [w.l EXCEPT !.accepts_pending = w.l.accepts_pending - 1]
      BY <3>2, <1>1
    <3>4. tcp_pcb_purge(w, p).l.accepts_pending = w.l.accepts_pending - 1
      BY <3>3, <1>1
    <3>5. w.l.accepts_pending - 1 # w.l.accepts_pending
      BY <1>1
    <3> QED BY <3>4, <3>5, <2>3
  <2> QED BY <2>1, <2>2, <2>3
<1>3. slots = Slots(w.ps) \cap D
  <2>1. Slots(w.ps) \subseteq InUse(w.ps)
    BY DEF Slots
  <2> QED BY <1>2, <2>1
<1>4. FreeAll(w, D) =
        [l  |-> [w.l EXCEPT !.accepts_pending = @ - Cardinality(slots)],
         ps |-> [p \in Pcbs |-> IF p \in D THEN Free ELSE w.ps[p]],
         cs |-> [c \in Conns |-> IF \E p \in used : w.ps[p].conn = c THEN "Dead" ELSE w.cs[c]]]
  BY DEF FreeAll
<1> HIDE DEF slots
<1> QED BY <1>3, <1>4

\* FreeAll keeps the pool right, whatever pcbs it frees: the slots that are left
\* are those that are counted.
LEMMA FreeAllInv ==
  ASSUME NEW w, PoolInv(w), NEW D \in SUBSET Pcbs
  PROVE  LET v == FreeAll(w, D) IN
         /\ PoolInv(v)
         /\ v.l.arg = w.l.arg /\ v.l.accepts_pending <= w.l.accepts_pending
         /\ InUse(v.ps) = InUse(w.ps) \ D
         /\ \A p \in InUse(v.ps) : v.ps[p] = w.ps[p]
<1> DEFINE v == FreeAll(w, D)
           freed == Cardinality(Slots(w.ps) \cap D)
           n == w.l.accepts_pending
<1>1. /\ v.l = [w.l EXCEPT !.accepts_pending = @ - freed]
      /\ v.ps = [p \in Pcbs |-> IF p \in D THEN Free ELSE w.ps[p]]
      /\ v.cs = [c \in Conns |-> IF \E p \in D \cap InUse(w.ps) : w.ps[p].conn = c
                                   THEN "Dead" ELSE w.cs[c]]
      /\ v = [l |-> v.l, ps |-> v.ps, cs |-> v.cs]
  BY FreeAllFacts
<1>2. /\ w.l \in Listeners /\ w.ps \in PcbPool /\ w.cs \in ConnStates
      /\ w.l.arg \in {None} \cup Refs /\ n \in 0 .. BACKLOG /\ BACKLOG \in Nat
  BY PoolFields, StackAssumption
<1> HIDE DEF v
<1>3. InUse(v.ps) = InUse(w.ps) \ D /\ \A p \in InUse(v.ps) : v.ps[p] = w.ps[p]
  BY <1>1 DEF InUse, Free
<1>4. Slots(v.ps) = Slots(w.ps) \ D
  BY <1>3 DEF Slots
<1>5. /\ IsFiniteSet(Slots(w.ps)) /\ n = Cardinality(Slots(w.ps))
      /\ Cardinality(Slots(w.ps) \ D) = Cardinality(Slots(w.ps)) - freed
      /\ Cardinality(Slots(w.ps) \ D) \in Nat
      /\ freed \in Nat
  <2>1. IsFiniteSet(Slots(w.ps)) /\ n = Cardinality(Slots(w.ps))
    BY SlotsFinite DEF PoolInv
  <2>2. IsFiniteSet(Slots(w.ps) \ D) /\ Cardinality(Slots(w.ps) \ D) = Cardinality(Slots(w.ps)) - freed
    BY <2>1, FS_Difference
  <2>3. Slots(w.ps) \cap D \in SUBSET Slots(w.ps)
    OBVIOUS
  <2>4. IsFiniteSet(Slots(w.ps) \cap D)
    BY <2>1, <2>3, FS_Subset
  <2> QED BY <2>1, <2>2, <2>4, FS_CardinalityType
<1> HIDE DEF freed
<1>6. v.l.arg = w.l.arg /\ v.l.accepts_pending = n - freed
  BY <1>1, <1>2 DEF Listeners
<1>7. v.l.accepts_pending = Cardinality(Slots(v.ps)) /\ v.l.accepts_pending \in 0 .. BACKLOG
      /\ v.l.accepts_pending <= w.l.accepts_pending
  <2>1. n - freed = Cardinality(Slots(v.ps))
    BY <1>4, <1>5
  <2>2. n - freed \in 0 .. BACKLOG /\ n - freed <= n
    <3> DEFINE m == Cardinality(Slots(w.ps) \ D)
    <3>1. m \in Nat /\ m = n - freed
      BY <1>5
    <3> HIDE DEF m, n
    <3> QED BY <1>2, <1>5, <3>1
  <2> QED BY <1>6, <2>1, <2>2
<1>8. v \in [l : Listeners, ps : PcbPool, cs : ConnStates]
  <2>1. v.l \in Listeners
    <3>1. v.l = [w.l EXCEPT !.accepts_pending = v.l.accepts_pending]
      BY <1>1, <1>2, <1>6 DEF Listeners
    <3> QED BY <3>1, <1>2, <1>7 DEF Listeners
  <2>2. v.ps \in PcbPool
    BY <1>1, <1>2 DEF PcbPool
  <2>3. v.cs \in ConnStates
    BY <1>1, <1>2 DEF ConnStates
  <2> QED BY <1>1, <2>1, <2>2, <2>3
<1>9. ASSUME NEW p \in InUse(v.ps)
      PROVE  /\ v.ps[p].listener \in {None, v.l.arg}
             /\ v.ps[p].st = "TIME_WAIT" => p \notin Slots(v.ps)
             /\ v.ps[p].st = "SYN_RCVD" => v.ps[p].conn = None /\ v.ps[p].pend
  <2>1. p \in InUse(w.ps) /\ v.ps[p] = w.ps[p]
    BY <1>3
  <2>2. /\ w.ps[p].listener \in {None, w.l.arg}
        /\ w.ps[p].st = "TIME_WAIT" => p \notin Slots(w.ps)
        /\ w.ps[p].st = "SYN_RCVD" => w.ps[p].conn = None /\ w.ps[p].pend
    BY <2>1 DEF PoolInv
  <2> QED BY <2>1, <2>2, <1>4, <1>6
<1>10. ASSUME NEW c \in Conns, v.cs[c] = "New"
       PROVE  \E p \in InUse(v.ps) : v.ps[p].conn = c
  <2>1. w.cs[c] = "New" /\ ~\E p \in D \cap InUse(w.ps) : w.ps[p].conn = c
    BY <1>1, <1>10
  <2>2. PICK p \in InUse(w.ps) : w.ps[p].conn = c
    BY <2>1 DEF PoolInv
  <2> QED BY <2>1, <2>2, <1>3
<1> QED BY <1>3, <1>6, <1>7, <1>8, <1>9, <1>10 DEF PoolInv, v

\* A pcb may change its state and its connection while it keeps its slot, or
\* has none.
LEMMA PcbChange ==
  ASSUME NEW w, PoolInv(w), NEW p \in InUse(w.ps), NEW q \in Pcb,
         q.pend = w.ps[p].pend, q.listener = w.ps[p].listener, q.st # "SYN_RCVD",
         q.st = "TIME_WAIT" => p \notin Slots(w.ps),
         NEW cs \in ConnStates,
         \A c \in Conns : cs[c] = "New" =>
           q.conn = c \/ \E r \in InUse(w.ps) \ {p} : w.ps[r].conn = c
  PROVE  /\ PoolInv([l |-> w.l, ps |-> [w.ps EXCEPT ![p] = q], cs |-> cs])
         /\ InUse([w.ps EXCEPT ![p] = q]) = InUse(w.ps)
<1> DEFINE ps == [w.ps EXCEPT ![p] = q]
           v == [l |-> w.l, ps |-> ps, cs |-> cs]
<1>1. w.l \in Listeners /\ w.ps \in PcbPool /\ p \in Pcbs
  BY PoolFields, UsedPcb
<1>2. q.st # "free"
  BY DEF Pcb
<1>3. /\ ps \in PcbPool /\ ps[p] = q /\ \A r \in Pcbs \ {p} : ps[r] = w.ps[r]
  BY <1>1 DEF PcbPool
<1> HIDE DEF ps
<1>4. InUse(ps) = InUse(w.ps)
  <2>1. \A r \in Pcbs : ps[r].st # "free" <=> w.ps[r].st # "free"
    BY <1>2, <1>3 DEF InUse
  <2> QED BY <2>1 DEF InUse
<1>5. Slots(ps) = Slots(w.ps)
  <2>1. \A r \in InUse(w.ps) : ps[r].pend = w.ps[r].pend /\ ps[r].listener = w.ps[r].listener
    BY <1>3 DEF InUse
  <2> QED BY <1>4, <2>1 DEF Slots
<1>6. v.l = w.l /\ v.ps = ps /\ v.cs = cs /\ v \in [l : Listeners, ps : PcbPool, cs : ConnStates]
  BY <1>1, <1>3
<1> HIDE DEF v
<1>7. ASSUME NEW r \in InUse(ps)
      PROVE  /\ ps[r].listener \in {None, w.l.arg}
             /\ ps[r].st = "TIME_WAIT" => r \notin Slots(ps)
             /\ ps[r].st = "SYN_RCVD" => ps[r].conn = None /\ ps[r].pend
  <2>1. r \in InUse(w.ps) /\ r \in Pcbs
    BY <1>4 DEF InUse
  <2>2. w.ps[r].listener \in {None, w.l.arg}
    BY <2>1 DEF PoolInv
  <2>3. CASE r = p
    BY <2>2, <2>3, <1>3, <1>5
  <2>4. CASE r # p
    <3>1. ps[r] = w.ps[r]
      BY <2>1, <2>4, <1>3
    <3>2. /\ w.ps[r].st = "TIME_WAIT" => r \notin Slots(w.ps)
          /\ w.ps[r].st = "SYN_RCVD" => w.ps[r].conn = None /\ w.ps[r].pend
      BY <2>1 DEF PoolInv
    <3> QED BY <2>2, <3>1, <3>2, <1>5
  <2> QED BY <2>3, <2>4
<1>8. ASSUME NEW c \in Conns, cs[c] = "New" PROVE \E r \in InUse(ps) : ps[r].conn = c
  <2>1. CASE q.conn = c
    BY <2>1, <1>3, <1>4
  <2>2. CASE \E r \in InUse(w.ps) \ {p} : w.ps[r].conn = c
    <3>1. PICK r \in InUse(w.ps) \ {p} : w.ps[r].conn = c
      BY <2>2
    <3>2. r \in InUse(ps) /\ ps[r] = w.ps[r]
      BY <1>3, <1>4 DEF InUse
    <3> QED BY <3>1, <3>2
  <2> QED BY <1>8, <2>1, <2>2
<1>9. w.l.accepts_pending = Cardinality(Slots(ps))
  BY <1>5 DEF PoolInv
<1> QED BY <1>4, <1>6, <1>7, <1>8, <1>9 DEF PoolInv, v, ps

\* tcp_backlog_accepted takes the slot of p, if it has one, and nothing else.
LEMMA AcceptedFacts ==
  ASSUME NEW w, PoolInv(w), NEW p \in InUse(w.ps)
  PROVE  LET v == tcp_backlog_accepted(w, p) IN
         /\ p \notin Slots(w.ps) => v = w
         /\ p \in Slots(w.ps) =>
              v = [l  |-> [arg |-> w.l.arg, accepts_pending |-> w.l.accepts_pending - 1],
                   ps |-> [w.ps EXCEPT ![p] = [w.ps[p] EXCEPT !.pend = FALSE]],
                   cs |-> w.cs]
<1>1. /\ w = [l |-> w.l, ps |-> w.ps, cs |-> w.cs]
      /\ w.l = [arg |-> w.l.arg, accepts_pending |-> w.l.accepts_pending]
  BY PoolFields
<1>2. CASE p \notin Slots(w.ps)
  <2>1. ~(w.ps[p].pend /\ w.ps[p].listener # None)
    BY <1>2 DEF Slots
  <2> QED BY <1>2, <2>1 DEF tcp_backlog_accepted
<1>3. CASE p \in Slots(w.ps)
  <2>1. w.ps[p].pend /\ w.ps[p].listener # None
    BY <1>3 DEF Slots
  <2>2. tcp_backlog_accepted(w, p) =
          [w EXCEPT !.l.accepts_pending = w.l.accepts_pending - 1, !.ps[p].pend = FALSE]
    BY <2>1 DEF tcp_backlog_accepted
  <2>3. tcp_backlog_accepted(w, p) =
          [l  |-> [w.l EXCEPT !.accepts_pending = w.l.accepts_pending - 1],
           ps |-> [w.ps EXCEPT ![p].pend = FALSE], cs |-> w.cs]
    BY <1>1, <2>2
  <2>4. [w.l EXCEPT !.accepts_pending = w.l.accepts_pending - 1] =
          [arg |-> w.l.arg, accepts_pending |-> w.l.accepts_pending - 1]
    BY <1>1
  <2> QED BY <1>3, <2>3, <2>4
<1> QED BY <1>2, <1>3

\* A pcb whose connection was accepted gives its slot back, and the count goes
\* with it.
LEMMA AcceptedInv ==
  ASSUME NEW w, PoolInv(w), NEW p \in InUse(w.ps), w.ps[p].st # "SYN_RCVD"
  PROVE  LET v == tcp_backlog_accepted(w, p) IN
         /\ PoolInv(v)
         /\ v.l.arg = w.l.arg /\ InUse(v.ps) = InUse(w.ps) /\ v.cs = w.cs
         /\ p \notin Slots(v.ps)
         /\ \A r \in InUse(w.ps) : v.ps[r].st = w.ps[r].st /\ v.ps[r].conn = w.ps[r].conn
<1> DEFINE v == tcp_backlog_accepted(w, p)
<1>1. CASE p \notin Slots(w.ps)
  BY <1>1, AcceptedFacts
<1>2. CASE p \in Slots(w.ps)
  <2> DEFINE n == w.l.accepts_pending
             q == [w.ps[p] EXCEPT !.pend = FALSE]
  <2>1. /\ v.l = [arg |-> w.l.arg, accepts_pending |-> n - 1]
        /\ v.ps = [w.ps EXCEPT ![p] = q] /\ v.cs = w.cs
        /\ v = [l |-> v.l, ps |-> v.ps, cs |-> v.cs]
    <3>1. v = [l  |-> [arg |-> w.l.arg, accepts_pending |-> n - 1],
               ps |-> [w.ps EXCEPT ![p] = q], cs |-> w.cs]
      BY <1>2, AcceptedFacts
    <3> HIDE DEF v, q, n
    <3> QED BY <3>1
  <2>2. /\ w.ps \in PcbPool /\ w.cs \in ConnStates /\ w.l.arg \in {None} \cup Refs
        /\ n \in 0 .. BACKLOG /\ BACKLOG \in Nat
    BY PoolFields, StackAssumption
  <2>3. p \in Pcbs /\ w.ps[p] \in Pcb
    BY <2>2, UsedPcb
  <2>4. /\ q \in Pcb /\ q.st = w.ps[p].st /\ q.conn = w.ps[p].conn /\ q.listener = w.ps[p].listener
        /\ ~q.pend /\ q.st # "free"
    BY <2>3 DEF Pcb
  <2> HIDE DEF v, q, n
  <2>5. v.ps \in PcbPool /\ v.ps[p] = q /\ \A r \in Pcbs \ {p} : v.ps[r] = w.ps[r]
    BY <2>1, <2>2, <2>3, <2>4 DEF PcbPool
  <2>6. \A r \in Pcbs : v.ps[r].st = w.ps[r].st
    BY <2>4, <2>5
  <2>7. InUse(v.ps) = InUse(w.ps)
    BY <2>6 DEF InUse
  <2>8. Slots(v.ps) = Slots(w.ps) \ {p}
    BY <2>4, <2>5, <2>7 DEF Slots, InUse
  <2>9. Cardinality(Slots(v.ps)) = n - 1 /\ n - 1 \in Nat
    <3>1. IsFiniteSet(Slots(w.ps)) /\ n = Cardinality(Slots(w.ps))
      BY SlotsFinite DEF PoolInv, n
    <3>2. Cardinality(Slots(v.ps)) = Cardinality(Slots(w.ps)) - 1
      BY <1>2, <2>8, <3>1, FS_RemoveElement
    <3>3. Cardinality(Slots(v.ps)) \in Nat
      BY SlotsFinite
    <3> QED BY <3>1, <3>2, <3>3
  <2>10. v \in [l : Listeners, ps : PcbPool, cs : ConnStates]
    <3>1. v.l \in Listeners
      BY <2>1, <2>2, <2>9 DEF Listeners
    <3> QED BY <3>1, <2>1, <2>2, <2>5
  <2>11. ASSUME NEW r \in InUse(v.ps)
         PROVE  /\ v.ps[r].listener \in {None, v.l.arg}
                /\ v.ps[r].st = "TIME_WAIT" => r \notin Slots(v.ps)
                /\ v.ps[r].st = "SYN_RCVD" => v.ps[r].conn = None /\ v.ps[r].pend
    <3>1. /\ w.ps[r].listener \in {None, w.l.arg}
          /\ w.ps[r].st = "TIME_WAIT" => r \notin Slots(w.ps)
          /\ w.ps[r].st = "SYN_RCVD" => w.ps[r].conn = None /\ w.ps[r].pend
      BY <2>7 DEF PoolInv
    <3>2. v.l.arg = w.l.arg /\ r \in Pcbs
      BY <2>1 DEF InUse
    <3>3. CASE r = p
      BY <3>1, <3>2, <3>3, <2>4, <2>5, <2>8
    <3>4. CASE r # p
      BY <3>1, <3>2, <3>4, <2>5, <2>8
    <3> QED BY <3>3, <3>4
  <2>12. \A r \in InUse(w.ps) : v.ps[r].st = w.ps[r].st /\ v.ps[r].conn = w.ps[r].conn
    BY <2>4, <2>5 DEF InUse
  <2>13. \A c \in Conns : v.cs[c] = "New" => \E r \in InUse(v.ps) : v.ps[r].conn = c
    BY <2>1, <2>7, <2>12 DEF PoolInv
  <2>14. v.l.accepts_pending = Cardinality(Slots(v.ps)) /\ v.l.arg = w.l.arg
    BY <2>1, <2>9
  <2>15. PoolInv(v)
    BY <2>10, <2>11, <2>13, <2>14 DEF PoolInv
  <2> QED BY <2>1, <2>7, <2>8, <2>12, <2>14, <2>15 DEF v
<1> QED BY <1>1, <1>2

\* tunforge_accept takes the slot that the established pcb has just given back:
\* the backlog is as before.
LEMMA DelayedAgain ==
  ASSUME NEW w, PoolInv(w), NEW p \in Slots(w.ps)
  PROVE  tcp_backlog_delayed(tcp_backlog_accepted(w, p), p) = w
<1> DEFINE v == tcp_backlog_accepted(w, p)
           q == [w.ps[p] EXCEPT !.pend = FALSE]
           n == w.l.accepts_pending
<1>1. p \in InUse(w.ps) /\ w.ps[p].pend /\ w.ps[p].listener # None
  BY DEF Slots
<1>2. /\ w = [l |-> w.l, ps |-> w.ps, cs |-> w.cs] /\ w.ps \in PcbPool
      /\ w.l = [arg |-> w.l.arg, accepts_pending |-> n] /\ n \in 0 .. BACKLOG /\ BACKLOG \in Nat
  BY PoolFields, StackAssumption
<1>3. v = [l |-> [arg |-> w.l.arg, accepts_pending |-> n - 1], ps |-> [w.ps EXCEPT ![p] = q], cs |-> w.cs]
  BY <1>1, AcceptedFacts
<1>4. p \in Pcbs /\ w.ps[p] \in Pcb
  BY <1>1, <1>2, UsedPcb
<1>5. /\ q.pend = FALSE /\ q.listener = w.ps[p].listener
      /\ [q EXCEPT !.pend = TRUE] = w.ps[p]
  BY <1>1, <1>4 DEF Pcb
<1> HIDE DEF v, q
<1>6. v.ps = [w.ps EXCEPT ![p] = q] /\ v.ps[p] = q /\ v.l = [arg |-> w.l.arg, accepts_pending |-> n - 1]
      /\ v.cs = w.cs
  BY <1>2, <1>3, <1>4 DEF PcbPool
<1>7. tcp_backlog_delayed(v, p) = [v EXCEPT !.l.accepts_pending = v.l.accepts_pending + 1, !.ps[p].pend = TRUE]
  BY <1>1, <1>5, <1>6 DEF tcp_backlog_delayed
<1>8. tcp_backlog_delayed(v, p) =
        [l |-> [v.l EXCEPT !.accepts_pending = v.l.accepts_pending + 1],
         ps |-> [v.ps EXCEPT ![p] = [q EXCEPT !.pend = TRUE]], cs |-> w.cs]
  BY <1>3, <1>6, <1>7, ZenonT(60)
<1>9. [v.l EXCEPT !.accepts_pending = v.l.accepts_pending + 1] = w.l
  <2>1. (n - 1) + 1 = n
    BY <1>2
  <2> HIDE DEF n
  <2> QED BY <1>2, <1>6, <2>1
<1>10. [v.ps EXCEPT ![p] = [q EXCEPT !.pend = TRUE]] = w.ps
  BY <1>2, <1>4, <1>5, <1>6 DEF PcbPool
<1> QED BY <1>2, <1>8, <1>9, <1>10 DEF v

\* Closing the listener takes every slot with it.
LEMMA ListenClosedInv ==
  ASSUME NEW w, PoolInv(w)
  PROVE  /\ PoolInv(tcp_listen_closed(w))
         /\ tcp_listen_closed(w).l = NoListener
         /\ InUse(tcp_listen_closed(w).ps) = InUse(w.ps)
<1> DEFINE v == tcp_listen_closed(w)
           ps == [p \in Pcbs |-> IF w.ps[p].st = "free" THEN Free
                                 ELSE [w.ps[p] EXCEPT !.listener = None]]
<1>1. w.ps \in PcbPool /\ w.cs \in ConnStates /\ w = [l |-> w.l, ps |-> w.ps, cs |-> w.cs]
  BY PoolFields
<1>2. v = [w EXCEPT !.l = NoListener, !.ps = ps]
  BY DEF tcp_listen_closed
<1>3. ASSUME NEW p \in Pcbs
      PROVE  /\ ps[p] \in Pcb \cup {Free}
             /\ ps[p].st = w.ps[p].st
             /\ p \in InUse(w.ps) => ps[p].listener = None /\ ps[p].conn = w.ps[p].conn
                                     /\ ps[p].pend = w.ps[p].pend
  <2>1. CASE w.ps[p].st = "free"
    BY <2>1 DEF Free, InUse
  <2>2. CASE w.ps[p].st # "free"
    <3>1. p \in InUse(w.ps)
      BY <2>2 DEF InUse
    <3>2. w.ps[p] \in Pcb
      BY <1>1, <3>1, UsedPcb
    <3>3. ps[p] = [w.ps[p] EXCEPT !.listener = None]
      BY <2>2
    <3> HIDE DEF ps
    <3> QED BY <3>2, <3>3 DEF Pcb
  <2> QED BY <2>1, <2>2
<1>4. ps \in PcbPool
  <2>1. \A p \in Pcbs : ps[p] \in Pcb \cup {Free}
    BY <1>3
  <2> QED BY <2>1 DEF PcbPool
<1> HIDE DEF ps, v
<1>5. v.l = NoListener /\ v.ps = ps /\ v.cs = w.cs /\ v = [l |-> NoListener, ps |-> ps, cs |-> w.cs]
  BY <1>1, <1>2
<1>6. InUse(ps) = InUse(w.ps)
  BY <1>3 DEF InUse
<1>7. \A p \in InUse(ps) : p \in Pcbs /\ ps[p].listener = None
  BY <1>3, <1>6 DEF InUse
<1>8. Slots(ps) = {} /\ Cardinality(Slots(ps)) = 0
  <2>1. Slots(ps) = {}
    BY <1>7 DEF Slots
  <2> QED BY <2>1, FS_EmptySet
<1>9. NoListener \in Listeners /\ NoListener.accepts_pending = 0
  BY StackAssumption DEF NoListener, Listeners
<1>10. v \in [l : Listeners, ps : PcbPool, cs : ConnStates]
  BY <1>1, <1>4, <1>5, <1>9
<1>11. ASSUME NEW p \in InUse(ps)
       PROVE  ps[p].st = "SYN_RCVD" => ps[p].conn = None /\ ps[p].pend
  <2>1. w.ps[p].st = "SYN_RCVD" => w.ps[p].conn = None /\ w.ps[p].pend
    BY <1>6 DEF PoolInv
  <2> QED BY <2>1, <1>3, <1>6, <1>7
<1>12. ASSUME NEW c \in Conns, w.cs[c] = "New" PROVE \E p \in InUse(ps) : ps[p].conn = c
  <2>1. PICK p \in InUse(w.ps) : w.ps[p].conn = c
    BY <1>12 DEF PoolInv
  <2> QED BY <2>1, <1>3, <1>6, <1>7
<1>13. PoolInv(v)
  BY <1>5, <1>7, <1>8, <1>9, <1>10, <1>11, <1>12 DEF PoolInv
<1> QED BY <1>5, <1>6, <1>13 DEF v

\* A new listener starts with an empty backlog.
LEMMA ListenInv ==
  ASSUME NEW w, PoolInv(w), w.l.arg = None, NEW r \in Refs
  PROVE  PoolInv([w EXCEPT !.l = [arg |-> r, accepts_pending |-> 0]])
<1> DEFINE l == [arg |-> r, accepts_pending |-> 0]
           v == [w EXCEPT !.l = l]
<1>1. /\ w.ps \in PcbPool /\ w.cs \in ConnStates /\ w = [l |-> w.l, ps |-> w.ps, cs |-> w.cs]
      /\ Slots(w.ps) = {} /\ \A p \in InUse(w.ps) : w.ps[p].listener = None
  BY PoolFields, NoArgNoSlots
<1>2. l \in Listeners /\ l.accepts_pending = 0
  BY StackAssumption DEF Listeners
<1> HIDE DEF l
<1>3. v = [l |-> l, ps |-> w.ps, cs |-> w.cs] /\ v.l = l /\ v.ps = w.ps /\ v.cs = w.cs
  BY <1>1
<1> HIDE DEF v
<1>4. v \in [l : Listeners, ps : PcbPool, cs : ConnStates]
  BY <1>1, <1>2, <1>3
<1>5. Cardinality(Slots(w.ps)) = 0
  BY <1>1, FS_EmptySet
<1>6. PoolInv(v)
  BY <1>1, <1>2, <1>3, <1>4, <1>5 DEF PoolInv
<1> QED BY <1>6 DEF v, l

\* A SYN takes a free pcb and a slot of the backlog that is not full.
LEMMA SynInv ==
  ASSUME NEW w, PoolInv(w), NEW p \in Pcbs, p \notin InUse(w.ps),
         w.l.arg # None, w.l.accepts_pending < BACKLOG
  PROVE  LET npcb == [st |-> "SYN_RCVD", listener |-> w.l.arg, pend |-> TRUE, conn |-> None]
             v == [w EXCEPT !.l.accepts_pending = @ + 1, !.ps[p] = npcb]
         IN PoolInv(v) /\ v.l.arg = w.l.arg
<1> DEFINE q == [st |-> "SYN_RCVD", listener |-> w.l.arg, pend |-> TRUE, conn |-> None]
           n == w.l.accepts_pending
           v == [w EXCEPT !.l.accepts_pending = @ + 1, !.ps[p] = q]
<1>1. /\ w.ps \in PcbPool /\ w.cs \in ConnStates /\ w.l.arg \in {None} \cup Refs
      /\ n \in 0 .. BACKLOG /\ BACKLOG \in Nat
      /\ w = [l |-> w.l, ps |-> w.ps, cs |-> w.cs]
      /\ w.l = [arg |-> w.l.arg, accepts_pending |-> w.l.accepts_pending]
  BY PoolFields, StackAssumption
<1>2. /\ q \in Pcb /\ q.st = "SYN_RCVD" /\ q.listener = w.l.arg /\ q.pend = TRUE /\ q.conn = None
      /\ q.st # "free"
  BY <1>1 DEF Pcb
<1> HIDE DEF q
<1>3. /\ v.l = [arg |-> w.l.arg, accepts_pending |-> n + 1]
      /\ v.ps = [w.ps EXCEPT ![p] = q] /\ v.cs = w.cs
      /\ v = [l |-> v.l, ps |-> v.ps, cs |-> v.cs]
  <2> DEFINE m == n + 1
  <2>1. v = [w EXCEPT !.l.accepts_pending = m, !.ps[p] = q]
    OBVIOUS
  <2> HIDE DEF v, m
  <2>2. v = [l |-> [w.l EXCEPT !.accepts_pending = m], ps |-> [w.ps EXCEPT ![p] = q], cs |-> w.cs]
    BY <1>1, <2>1
  <2>3. [w.l EXCEPT !.accepts_pending = m] = [arg |-> w.l.arg, accepts_pending |-> m]
    BY <1>1
  <2>4. v = [l |-> [arg |-> w.l.arg, accepts_pending |-> m], ps |-> [w.ps EXCEPT ![p] = q], cs |-> w.cs]
    BY <2>2, <2>3
  <2> QED BY <2>4 DEF m
<1> HIDE DEF v
<1>4. v.ps \in PcbPool /\ v.ps[p] = q /\ \A r \in Pcbs \ {p} : v.ps[r] = w.ps[r]
  BY <1>1, <1>2, <1>3 DEF PcbPool
<1>5. InUse(v.ps) = InUse(w.ps) \cup {p} /\ \A r \in InUse(w.ps) : v.ps[r] = w.ps[r]
  BY <1>2, <1>4 DEF InUse
<1>6. Slots(v.ps) = Slots(w.ps) \cup {p} /\ p \notin Slots(w.ps)
  BY <1>2, <1>4, <1>5 DEF Slots
<1>7. Cardinality(Slots(v.ps)) = n + 1
  <2>1. IsFiniteSet(Slots(w.ps)) /\ n = Cardinality(Slots(w.ps))
    BY SlotsFinite DEF PoolInv
  <2> QED BY <2>1, <1>6, FS_AddElement
<1>8. n + 1 \in 0 .. BACKLOG
  <2> HIDE DEF n
  <2>1. n < BACKLOG
    BY DEF n
  <2> QED BY <1>1, <2>1
<1>9. v.l \in Listeners /\ v.l.arg = w.l.arg /\ v.l.accepts_pending = n + 1
  BY <1>1, <1>3, <1>8 DEF Listeners
<1>10. v \in [l : Listeners, ps : PcbPool, cs : ConnStates]
  BY <1>1, <1>3, <1>4, <1>9
<1>11. ASSUME NEW r \in InUse(v.ps)
       PROVE  /\ v.ps[r].listener \in {None, v.l.arg}
              /\ v.ps[r].st = "TIME_WAIT" => r \notin Slots(v.ps)
              /\ v.ps[r].st = "SYN_RCVD" => v.ps[r].conn = None /\ v.ps[r].pend
  <2>1. CASE r = p
    BY <2>1, <1>2, <1>4, <1>9
  <2>2. CASE r # p
    <3>1. r \in InUse(w.ps) /\ v.ps[r] = w.ps[r]
      BY <2>2, <1>5
    <3>2. /\ w.ps[r].listener \in {None, w.l.arg}
          /\ w.ps[r].st = "TIME_WAIT" => r \notin Slots(w.ps)
          /\ w.ps[r].st = "SYN_RCVD" => w.ps[r].conn = None /\ w.ps[r].pend
      BY <3>1 DEF PoolInv
    <3> QED BY <2>2, <3>1, <3>2, <1>6, <1>9
  <2> QED BY <2>1, <2>2
<1>12. \A c \in Conns : v.cs[c] = "New" => \E r \in InUse(v.ps) : v.ps[r].conn = c
  BY <1>3, <1>5 DEF PoolInv
<1>13. PoolInv(v)
  BY <1>7, <1>9, <1>10, <1>11, <1>12 DEF PoolInv
<1> QED BY <1>9, <1>13 DEF v, q, n

\* markActive gives the slot of the connection's pcb back.
LEMMA MarkActiveInv ==
  ASSUME NEW w, PoolInv(w), NEW c \in Conns
  PROVE  /\ PoolInv(markActive(w, c)) /\ markActive(w, c).l.arg = w.l.arg
         /\ InUse(markActive(w, c).ps) = InUse(w.ps)
<1>1. CASE w.cs[c] # "New"
  BY <1>1 DEF markActive
<1>2. CASE w.cs[c] = "New"
  <2> DEFINE p == CHOOSE q \in InUse(w.ps) : w.ps[q].conn = c
             cs == [w.cs EXCEPT ![c] = "Active"]
             u == [l |-> w.l, ps |-> w.ps, cs |-> cs]
  <2>1. p \in InUse(w.ps) /\ w.ps[p].conn = c
    BY <1>2 DEF PoolInv
  <2>2. /\ w.l \in Listeners /\ w.ps \in PcbPool /\ w.cs \in ConnStates
        /\ w = [l |-> w.l, ps |-> w.ps, cs |-> w.cs]
    BY PoolFields
  <2>3. markActive(w, c) = tcp_backlog_accepted(u, p)
    <3>1. [w EXCEPT !.cs[c] = "Active"] = u
      BY <2>2
    <3> HIDE DEF u
    <3> QED BY <1>2, <3>1 DEF markActive
  <2> HIDE DEF p
  <2>4. cs \in ConnStates /\ \A d \in Conns : cs[d] = "New" => w.cs[d] = "New"
    BY <2>2 DEF ConnStates
  <2>5. u.l = w.l /\ u.ps = w.ps /\ u.cs = cs /\ u \in [l : Listeners, ps : PcbPool, cs : ConnStates]
    BY <2>2, <2>4
  <2> HIDE DEF u, cs
  <2>6. PoolInv(u)
    BY <2>4, <2>5 DEF PoolInv
  <2>7. c # None
    BY DEF Conns, None
  <2>8. w.ps[p].st # "SYN_RCVD"
    BY <2>1, <2>7 DEF PoolInv
  <2> QED BY <2>1, <2>3, <2>5, <2>6, <2>8, AcceptedInv
<1> QED BY <1>1, <1>2

-----------------------------------------------------------------------------
(* The steps.                                                              *)

\* The types of the variables in three groups; those of the pool are in PoolInv.
TimeType ==
  /\ clock \in Times /\ tcpActive \in BOOLEAN /\ timeouts \in Seq(Timeout)
  /\ check \in Times \cup {NotChecking} /\ idle \in 0 .. MaxIdle

StackType ==
  /\ stack \in [stackRef : {None} \cup Refs, ready : BOOLEAN, state : {None} \cup Refs,
                timer : BOOLEAN]
  /\ refs \in [Refs -> [alive : BOOLEAN, retains : 0 .. 1]]
  /\ netif \in [listed : BOOLEAN, state : {None} \cup Refs]

QueueType ==
  /\ connQ \in Seq(Conns)
  /\ packetsQ \in Seq([op : {"abort", "markActive"}, conn : Conns])

\* The fields of World.
LEMMA WorldFields ==
  /\ World.l = listener /\ World.ps = pcbs /\ World.cs = conns
  /\ World' = [l |-> listener', ps |-> pcbs', cs |-> conns']
BY DEF World

\* TypeOK is its groups.
LEMMA TypeParts ==
  ASSUME PoolInv(World)
  PROVE  TypeOK <=> TimeType /\ StackType /\ QueueType
<1>1. listener \in Listeners /\ pcbs \in PcbPool /\ conns \in ConnStates
  BY PoolFields, WorldFields
<1> QED BY <1>1 DEF TypeOK, TimeType, StackType, QueueType, Times, Timeout, Listeners, PcbPool, ConnStates

\* The same in the next state.
LEMMA TypePartsNext ==
  ASSUME PoolInv(World'), TimeType', StackType', QueueType'
  PROVE  TypeOK'
<1>1. listener' \in Listeners /\ pcbs' \in PcbPool /\ conns' \in ConnStates
  <2>1. World'.l = listener' /\ World'.ps = pcbs' /\ World'.cs = conns'
    BY WorldFields
  <2> QED BY <2>1, PoolFields
<1> QED BY <1>1 DEF TypeOK, TimeType, StackType, QueueType, Times, Timeout, Listeners, PcbPool, ConnStates

\* What Becomes makes of the world.
LEMMA BecomesInv ==
  ASSUME NEW v, PoolInv(v), Becomes(v)
  PROVE  World' = v /\ PoolInv(World') /\ listener' = v.l /\ pcbs' = v.ps /\ conns' = v.cs
<1>1. v = [l |-> v.l, ps |-> v.ps, cs |-> v.cs]
  BY PoolFields
<1>2. World' = [l |-> v.l, ps |-> v.ps, cs |-> v.cs]
  BY WorldFields DEF Becomes
<1> QED BY <1>1, <1>2 DEF Becomes

\* The wiring is kept by a step that leaves the stack and the listener's arg.
LEMMA WiringKept ==
  ASSUME Wiring, Retained, UNCHANGED stackVars, listener'.arg = listener.arg
  PROVE  Wiring' /\ Retained'
BY DEF Wiring, Retained, stackVars

\* The invariant is kept by a step that leaves the timers and the stack alone,
\* keeps the pool right and takes no new pcb into use.
LEMMA QuietStep ==
  ASSUME StackInv, UNCHANGED <<timeVars, stackVars, check, idle>>, PoolInv(World'),
         listener'.arg = listener.arg, InUse(pcbs') \subseteq InUse(pcbs), QueueType'
  PROVE  StackInv'
<1>1. TypeOK /\ Wiring /\ Retained /\ PoolInv(World) /\ TimerInv /\ TimesInv
  BY DEF StackInv
<1>2. TimeType /\ StackType
  BY <1>1, TypeParts
<1>3. TimeType' /\ StackType'
  BY <1>2 DEF TimeType, StackType, timeVars, stackVars
<1>4. TypeOK'
  BY <1>3, TypePartsNext
<1>5. Wiring' /\ Retained'
  BY <1>1, WiringKept
<1>6. TimerInv'
  BY <1>1 DEF TimerInv, timeVars
<1>7. TimesInv'
  BY <1>1 DEF TimesInv, timeVars, stackVars
<1> QED BY <1>4, <1>5, <1>6, <1>7 DEF StackInv

\* The same for a step that calls tcp_timer_needed, between two rounds of the
\* dispatch timer: it may take a pcb into use.
LEMMA NeededStep ==
  ASSUME StackInv, UNCHANGED <<stackVars, clock, check, idle>>, PoolInv(World'),
         listener'.arg = listener.arg, QueueType', tcp_timer_needed, check = NotChecking, stack.ready
  PROVE  StackInv'
<1>1. TypeOK /\ Wiring /\ Retained /\ PoolInv(World) /\ TimerInv /\ TimesInv
  BY DEF StackInv
<1>2. TimeType /\ StackType
  BY <1>1, TypeParts
<1>3. clock \in Times /\ timeouts \in Seq(Timeout) /\ tcpActive \in BOOLEAN /\ idle \in 0 .. MaxIdle
  BY <1>2 DEF TimeType
<1>4. AtMostOnce(timeouts) /\ (tcpActive <=> HasTcp(timeouts))
  BY <1>1 DEF TimerInv
<1>5. stack.timer /\ Timely(timeouts, clock, idle)
  BY <1>1 DEF Wiring, TimesInv
<1>6. Ahead(clock, clock) <= MaxIdle
  BY <1>3, AheadSelf, Bounds
<1>7. /\ timeouts' \in Seq(Timeout) /\ tcpActive' = TRUE
      /\ AtMostOnce(timeouts') /\ HasTcp(timeouts') /\ Timely(timeouts', clock, idle)
  <2>1. tcpActive' = TRUE /\ timeouts' = IF tcpActive THEN timeouts ELSE sys_timeout(timeouts, "tcp")
    BY DEF tcp_timer_needed
  <2>2. CASE tcpActive
    BY <2>1, <2>2, <1>3, <1>4, <1>5
  <2>3. CASE ~tcpActive
    <3>1. timeouts' = sys_timeout(timeouts, "tcp") /\ ~HasTcp(timeouts)
      BY <2>1, <2>3, <1>4
    <3>2. Timely(timeouts', clock, idle)
      BY <3>1, <1>3, <1>5, <1>6, SysTimeoutTimely
    <3>3. After(clock, Interval("tcp")) \in Times
      BY <1>3, <1>6, PosOfNext
    <3>4. /\ timeouts' \in Seq(Timeout) /\ AtMostOnce(timeouts') /\ HasTcp(timeouts')
      BY <3>1, <3>3, <1>3, <1>4, InsertOnce DEF sys_timeout
    <3> QED BY <2>1, <3>2, <3>4
  <2> QED BY <2>2, <2>3
<1>8. TimeType' /\ StackType'
  BY <1>2, <1>7 DEF TimeType, StackType, stackVars
<1>9. TypeOK'
  BY <1>8, TypePartsNext
<1>10. Wiring' /\ Retained'
  BY <1>1, WiringKept
<1>11. TimerInv'
  BY <1>7 DEF TimerInv
<1>12. TimesInv'
  BY <1>5, <1>7 DEF TimesInv, stackVars
<1> QED BY <1>9, <1>10, <1>11, <1>12 DEF StackInv

\* A pcb that tcp_alloc gives is one of the pool.
LEMMA AllocableInPool == Allocable \subseteq Pcbs
BY DEF Allocable, InState

\* The parts of the invariant that the steps of the packets queue begin with.
LEMMA StackParts ==
  ASSUME StackInv
  PROVE  /\ PoolInv(World) /\ TimeType /\ StackType /\ QueueType /\ pcbs \in PcbPool
         /\ listener.arg \in {None} \cup Refs
BY TypeParts, PoolFields, WorldFields DEF StackInv

\* FreeAll as a step.
LEMMA FreeAllStep ==
  ASSUME StackInv, NEW D \in SUBSET Pcbs, Becomes(FreeAll(World, D))
  PROVE  /\ PoolInv(World') /\ listener'.arg = listener.arg
         /\ InUse(pcbs') = InUse(pcbs) \ D
<1> DEFINE v == FreeAll(World, D)
<1>1. PoolInv(v) /\ v.l.arg = listener.arg /\ InUse(v.ps) = InUse(pcbs) \ D
  BY FreeAllInv, WorldFields DEF StackInv
<1> HIDE DEF v
<1>2. PoolInv(World') /\ listener' = v.l /\ pcbs' = v.ps
  BY <1>1, BecomesInv DEF v
<1> QED BY <1>1, <1>2

\* InputSyn keeps the invariant: a slot is counted for the new pcb, and given
\* back when the SYN|ACK fails.
LEMMA InputSynInv ==
  ASSUME StackInv, NEW p \in Pcbs, NEW nomem \in BOOLEAN, InputSyn(p, nomem)
  PROVE  StackInv'
<1> DEFINE w == FreeAll(World, {p})
           npcb == [st |-> "SYN_RCVD", listener |-> listener.arg, pend |-> TRUE, conn |-> None]
           v == [w EXCEPT !.l.accepts_pending = @ + 1, !.ps[p] = npcb]
<1>1. /\ QueueFree /\ stack.ready /\ UNCHANGED <<stackVars, clock, check, idle>>
      /\ listener # NoListener /\ BacklogOpen
      /\ Becomes(IF nomem THEN FreeAll(v, {p}) ELSE v)
      /\ tcp_timer_needed /\ UNCHANGED queueVars
  BY DEF InputSyn, Input
<1>2. PoolInv(World) /\ QueueType /\ {p} \in SUBSET Pcbs
  BY StackParts
<1>3. listener.arg # None
  BY <1>1, <1>2, NoArgNoSlots, WorldFields
<1>4. /\ PoolInv(w) /\ w.l.arg = listener.arg /\ p \notin InUse(w.ps)
      /\ w.l.accepts_pending <= listener.accepts_pending
  BY <1>2, FreeAllInv, WorldFields
<1>5. w.l.accepts_pending < BACKLOG
  <2>1. w.l.accepts_pending \in 0 .. BACKLOG /\ listener.accepts_pending \in 0 .. BACKLOG
    BY <1>2, <1>4, PoolFields, WorldFields
  <2>2. listener.accepts_pending < BACKLOG
    BY <1>1 DEF BacklogOpen
  <2> HIDE DEF w
  <2> QED BY <1>4, <2>1, <2>2, StackAssumption
<1> HIDE DEF w
<1>6. PoolInv(v) /\ v.l.arg = listener.arg
  BY <1>3, <1>4, <1>5, SynInv
<1> HIDE DEF v
<1>7. PoolInv(FreeAll(v, {p})) /\ FreeAll(v, {p}).l.arg = listener.arg
  BY <1>2, <1>6, FreeAllInv
<1>8. PoolInv(World') /\ listener'.arg = listener.arg
  <2>1. CASE nomem
    BY <1>1, <1>7, <2>1, BecomesInv
  <2>2. CASE ~nomem
    BY <1>1, <1>6, <2>2, BecomesInv
  <2> QED BY <2>1, <2>2
<1>9. QueueType'
  BY <1>1, <1>2 DEF QueueType, queueVars
<1> QED BY <1>1, <1>8, <1>9, NeededStep DEF QueueFree

\* InputAck keeps the invariant: the slot of the half-open pcb passes to its
\* connection, or is given back with the pcb.
LEMMA InputAckInv ==
  ASSUME StackInv, NEW p \in Pcbs, NEW delegate \in BOOLEAN, InputAck(p, delegate)
  PROVE  StackInv'
<1>1. /\ pcbs[p].st = "SYN_RCVD" /\ UNCHANGED <<stackVars, clock, check, idle>>
      /\ UNCHANGED <<packetsQ, timeouts, tcpActive>>
  BY DEF InputAck, Input
<1>2. /\ PoolInv(World) /\ QueueType /\ {p} \in SUBSET Pcbs /\ pcbs \in PcbPool
      /\ conns \in ConnStates /\ p \in InUse(pcbs)
      /\ UNCHANGED <<timeVars, stackVars, check, idle>>
  BY <1>1, StackParts, PoolFields, WorldFields DEF InUse, timeVars
<1>3. CASE pcbs[p].listener = None \/ ~StackOf(pcbs[p].listener) \/ ~delegate
  <2>1. Becomes(FreeAll(World, {p})) /\ UNCHANGED connQ
    BY <1>3 DEF InputAck
  <2>2. QueueType'
    BY <1>1, <1>2, <2>1 DEF QueueType
  <2> QED BY <1>2, <2>1, <2>2, FreeAllStep, QuietStep
<1>4. CASE ~(pcbs[p].listener = None \/ ~StackOf(pcbs[p].listener) \/ ~delegate)
  <2> DEFINE c == Smallest(NewConns)
             u == tcp_backlog_delayed(tcp_backlog_accepted(World, p), p)
             q == [pcbs[p] EXCEPT !.st = "ESTABLISHED", !.conn = c]
             cs == [conns EXCEPT ![c] = "New"]
             v == [l |-> listener, ps |-> [pcbs EXCEPT ![p] = q], cs |-> cs]
  <2>1. /\ NewConns # {}
        /\ Becomes([u EXCEPT !.cs[c] = "New", !.ps[p] = [@ EXCEPT !.st = "ESTABLISHED", !.conn = c]])
        /\ connQ' = Append(connQ, c)
    BY <1>4 DEF InputAck
  <2>2. c \in Conns
    <3>1. NewConns \subseteq Conns /\ NewConns \subseteq Nat
      BY DEF NewConns, Conns
    <3>2. \E n \in NewConns : \A m \in NewConns : n <= m
      BY <2>1, <3>1, NatMin
    <3> QED BY <3>1, <3>2 DEF Smallest
  <2> HIDE DEF c
  <2>3. p \in Slots(World.ps)
    <3>1. pcbs[p].pend /\ pcbs[p].conn = None
      BY <1>1, <1>2, WorldFields DEF PoolInv
    <3> QED BY <1>2, <1>4, <3>1, WorldFields DEF Slots
  <2>4. u = World
    BY <1>2, <2>3, DelayedAgain
  <2>5. Becomes(v)
    <3> HIDE DEF u
    <3>1. u = [l |-> listener, ps |-> pcbs, cs |-> conns] /\ u.ps[p] = pcbs[p] /\ u.cs = conns
          /\ u.ps = pcbs /\ u.l = listener
      BY <2>4 DEF World
    <3> DEFINE x == [u EXCEPT !.cs[c] = "New", !.ps[p] = q]
    <3>2. Becomes(x)
      BY <2>1, <3>1
    <3> HIDE DEF q
    <3>3. x.l = listener /\ x.ps = [pcbs EXCEPT ![p] = q] /\ x.cs = cs
      BY <3>1
    <3> HIDE DEF x, cs
    <3> QED BY <3>2, <3>3 DEF Becomes
  <2>6. /\ q \in Pcb /\ q.pend = pcbs[p].pend /\ q.listener = pcbs[p].listener
        /\ q.st = "ESTABLISHED" /\ q.conn = c
    <3>1. pcbs[p] \in Pcb
      BY <1>2, UsedPcb
    <3> QED BY <2>2, <3>1 DEF Pcb
  <2>7. cs \in ConnStates /\ \A d \in Conns : cs[d] = "New" => d = c \/ conns[d] = "New"
    BY <1>2, <2>2 DEF ConnStates
  <2> HIDE DEF q, cs
  <2>8. ASSUME NEW d \in Conns, cs[d] = "New"
        PROVE  q.conn = d \/ \E r \in InUse(pcbs) \ {p} : pcbs[r].conn = d
    <3>1. CASE d = c
      BY <3>1, <2>6
    <3>2. CASE d # c
      <4>1. PICK r \in InUse(pcbs) : pcbs[r].conn = d
        BY <1>2, <2>7, <2>8, <3>2, WorldFields DEF PoolInv
      <4>2. pcbs[p].conn = None /\ d # None
        BY <1>1, <1>2, WorldFields DEF PoolInv, Conns, None
      <4> QED BY <4>1, <4>2
    <3> QED BY <3>1, <3>2
  <2>9. PoolInv(v) /\ InUse([pcbs EXCEPT ![p] = q]) = InUse(pcbs)
    BY <1>2, <2>6, <2>7, <2>8, PcbChange, WorldFields
  <2>10. /\ PoolInv(World') /\ listener' = listener /\ pcbs' = [pcbs EXCEPT ![p] = q]
    BY <2>5, <2>9, BecomesInv
  <2>11. QueueType'
    BY <1>1, <1>2, <2>1, <2>2 DEF QueueType
  <2> QED BY <1>2, <2>9, <2>10, <2>11, QuietStep
<1> QED BY <1>3, <1>4

\* InputEnd keeps the invariant.
LEMMA InputEndInv ==
  ASSUME StackInv, NEW p \in Pcbs, InputEnd(p)
  PROVE  StackInv'
<1>1. /\ Becomes(FreeAll(World, {p})) /\ UNCHANGED <<timeVars, stackVars, check, idle>>
      /\ UNCHANGED queueVars /\ {p} \in SUBSET Pcbs
  BY DEF InputEnd, Input, timeVars
<1>2. QueueType'
  BY <1>1, StackParts DEF QueueType, queueVars
<1> QED BY <1>1, <1>2, FreeAllStep, QuietStep

\* A pcb that changes its state only, to one behind SYN_RCVD and not to
\* TIME_WAIT, keeps the pool right.
LEMMA StateStep ==
  ASSUME StackInv, NEW p \in InUse(pcbs), NEW st \in {"FIN_WAIT", "CLOSING", "LAST_ACK"},
         Becomes([World EXCEPT !.ps[p].st = st])
  PROVE  PoolInv(World') /\ listener' = listener /\ InUse(pcbs') = InUse(pcbs)
<1> DEFINE q == [pcbs[p] EXCEPT !.st = st]
           v == [l |-> listener, ps |-> [pcbs EXCEPT ![p] = q], cs |-> conns]
<1>1. PoolInv(World) /\ pcbs \in PcbPool /\ conns \in ConnStates
  BY StackParts, PoolFields, WorldFields
<1>2. [World EXCEPT !.ps[p].st = st] = v
  BY DEF World
<1>3. pcbs[p] \in Pcb
  BY <1>1, UsedPcb
<1>4. /\ q \in Pcb /\ q.pend = pcbs[p].pend /\ q.listener = pcbs[p].listener
      /\ q.st = st /\ q.conn = pcbs[p].conn
  BY <1>3 DEF Pcb
<1> HIDE DEF q
<1>5. \A c \in Conns : conns[c] = "New" =>
        q.conn = c \/ \E r \in InUse(pcbs) \ {p} : pcbs[r].conn = c
  BY <1>1, <1>4, WorldFields DEF PoolInv
<1>6. PoolInv(v) /\ InUse([pcbs EXCEPT ![p] = q]) = InUse(pcbs)
  BY <1>1, <1>4, <1>5, PcbChange, WorldFields
<1> QED BY <1>2, <1>6, BecomesInv

\* InputClosing keeps the invariant.
LEMMA InputClosingInv ==
  ASSUME StackInv, NEW p \in Pcbs, InputClosing(p)
  PROVE  StackInv'
<1>1. /\ Becomes([World EXCEPT !.ps[p].st = "CLOSING"]) /\ pcbs[p].st = "FIN_WAIT"
      /\ UNCHANGED <<timeVars, stackVars, check, idle>> /\ UNCHANGED queueVars
  BY DEF InputClosing, Input, timeVars
<1>2. QueueType'
  BY <1>1, StackParts DEF QueueType, queueVars
<1>3. p \in InUse(pcbs)
  BY <1>1 DEF InUse
<1> QED BY <1>1, <1>2, <1>3, StateStep, QuietStep

\* InputTimeWait keeps the invariant: the pcb gives its slot back before it is
\* one that tcp_pcb_purge does nothing to.
LEMMA InputTimeWaitInv ==
  ASSUME StackInv, NEW p \in Pcbs, InputTimeWait(p)
  PROVE  StackInv'
<1> DEFINE u == tcp_pcb_purge(World, p)
           q == [u.ps[p] EXCEPT !.st = "TIME_WAIT"]
           v == [l |-> u.l, ps |-> [u.ps EXCEPT ![p] = q], cs |-> u.cs]
<1>1. /\ QueueFree /\ stack.ready /\ UNCHANGED <<stackVars, clock, check, idle>>
      /\ pcbs[p].st \in {"FIN_WAIT", "CLOSING"}
      /\ Becomes([u EXCEPT !.ps[p].st = "TIME_WAIT"])
      /\ tcp_timer_needed /\ UNCHANGED queueVars
  BY DEF InputTimeWait, Input
<1>2. PoolInv(World) /\ QueueType /\ p \in InUse(pcbs) /\ World.ps[p].st # "SYN_RCVD"
  BY <1>1, StackParts, WorldFields DEF InUse
<1>3. u = tcp_backlog_accepted(World, p)
  BY <1>1, WorldFields DEF tcp_pcb_purge
<1>4. /\ PoolInv(u) /\ u.l.arg = listener.arg /\ InUse(u.ps) = InUse(pcbs) /\ p \notin Slots(u.ps)
  BY <1>2, <1>3, AcceptedInv, WorldFields
<1> HIDE DEF u
<1>5. /\ u = [l |-> u.l, ps |-> u.ps, cs |-> u.cs] /\ u.ps \in PcbPool /\ u.cs \in ConnStates
  BY <1>4, PoolFields
<1>6. [u EXCEPT !.ps[p].st = "TIME_WAIT"] = v
  BY <1>5
<1>7. u.ps[p] \in Pcb
  BY <1>2, <1>4, <1>5, UsedPcb
<1>8. /\ q \in Pcb /\ q.pend = u.ps[p].pend /\ q.listener = u.ps[p].listener
      /\ q.st = "TIME_WAIT" /\ q.conn = u.ps[p].conn
  BY <1>7 DEF Pcb
<1> HIDE DEF q
<1>9. \A c \in Conns : u.cs[c] = "New" =>
        q.conn = c \/ \E r \in InUse(u.ps) \ {p} : u.ps[r].conn = c
  BY <1>4, <1>8 DEF PoolInv
<1>10. PoolInv(v)
  BY <1>2, <1>4, <1>5, <1>8, <1>9, PcbChange
<1>11. PoolInv(World') /\ listener'.arg = listener.arg
  BY <1>1, <1>4, <1>6, <1>10, BecomesInv
<1>12. QueueType'
  BY <1>1, <1>2 DEF QueueType, queueVars
<1> QED BY <1>1, <1>11, <1>12, NeededStep DEF QueueFree

\* AcceptBlock keeps the invariant: it only posts blocks.
LEMMA AcceptBlockInv ==
  ASSUME StackInv, NEW answer \in {"abort", "markActive", "nothing"}, AcceptBlock(answer)
  PROVE  StackInv'
<1>1. /\ connQ # <<>> /\ connQ' = Tail(connQ)
      /\ packetsQ' = IF answer = "nothing" THEN packetsQ
                     ELSE Append(packetsQ, [op |-> answer, conn |-> Head(connQ)])
      /\ UNCHANGED <<timeVars, stackVars, worldVars, check, idle>>
  BY DEF AcceptBlock
<1>2. PoolInv(World) /\ QueueType
  BY StackParts
<1>3. QueueType'
  <2>1. connQ' \in Seq(Conns) /\ Head(connQ) \in Conns
    BY <1>1, <1>2 DEF QueueType
  <2>2. packetsQ' \in Seq([op : {"abort", "markActive"}, conn : Conns])
    <3>1. CASE answer = "nothing"
      BY <1>1, <1>2, <3>1 DEF QueueType
    <3>2. CASE answer # "nothing"
      <4>1. [op |-> answer, conn |-> Head(connQ)] \in [op : {"abort", "markActive"}, conn : Conns]
        BY <2>1, <3>2
      <4> DEFINE b == [op |-> answer, conn |-> Head(connQ)]
                 B == [op : {"abort", "markActive"}, conn : Conns]
      <4>2. b \in B /\ packetsQ \in Seq(B) /\ packetsQ' = Append(packetsQ, b)
        BY <1>1, <1>2, <3>2, <4>1 DEF QueueType
      <4> HIDE DEF b, B
      <4>3. packetsQ' \in Seq(B)
        BY <4>2
      <4> QED BY <4>3 DEF B
    <3> QED BY <3>1, <3>2
  <2> QED BY <2>1, <2>2 DEF QueueType
<1>4. PoolInv(World') /\ listener' = listener /\ pcbs' = pcbs
  <2>1. World' = World
    BY <1>1 DEF World, worldVars
  <2> QED BY <1>1, <1>2, <2>1 DEF worldVars
<1> QED BY <1>1, <1>3, <1>4, QuietStep

\* PacketsBlock keeps the invariant: an abort ends the pcb of the connection, and
\* markActive gives its slot back.
LEMMA PacketsBlockInv ==
  ASSUME StackInv, PacketsBlock
  PROVE  StackInv'
<1> DEFINE b == Head(packetsQ)
<1>1. /\ packetsQ # <<>> /\ packetsQ' = Tail(packetsQ)
      /\ Becomes(IF b.op = "abort" THEN FreeAll(World, PcbOf(b.conn)) ELSE markActive(World, b.conn))
      /\ UNCHANGED <<timeVars, stackVars, connQ, check, idle>>
  BY DEF PacketsBlock
<1>2. PoolInv(World) /\ QueueType
  BY StackParts
<1>3. b \in [op : {"abort", "markActive"}, conn : Conns] /\ QueueType'
  <2> DEFINE B == [op : {"abort", "markActive"}, conn : Conns]
  <2>1. packetsQ \in Seq(B) /\ connQ \in Seq(Conns)
    BY <1>2 DEF QueueType
  <2> HIDE DEF B
  <2>2. b \in B /\ packetsQ' \in Seq(B) /\ connQ' \in Seq(Conns)
    BY <1>1, <2>1
  <2> QED BY <2>2 DEF B, QueueType
<1>4. b.conn \in Conns
  BY <1>3
<1> HIDE DEF b
<1>5. CASE b.op = "abort"
  <2>1. PcbOf(b.conn) \in SUBSET Pcbs
    BY DEF PcbOf, InUse
  <2> QED BY <1>1, <1>3, <1>5, <2>1, FreeAllStep, QuietStep
<1>6. CASE b.op # "abort"
  <2> DEFINE v == markActive(World, b.conn)
  <2>1. PoolInv(v) /\ v.l.arg = listener.arg /\ InUse(v.ps) = InUse(pcbs) /\ Becomes(v)
    BY <1>1, <1>2, <1>4, <1>6, MarkActiveInv, WorldFields
  <2> HIDE DEF v
  <2>2. PoolInv(World') /\ listener'.arg = listener.arg /\ InUse(pcbs') = InUse(pcbs)
    BY <2>1, BecomesInv
  <2> QED BY <1>1, <1>3, <2>2, QuietStep
<1> QED BY <1>5, <1>6

\* shutdownWrite keeps the invariant.
LEMMA ShutdownWriteInv ==
  ASSUME StackInv, NEW p \in Pcbs, NEW st \in {"FIN_WAIT", "LAST_ACK"}, shutdownWrite(p, st)
  PROVE  StackInv'
<1>1. /\ p \in InUse(pcbs) /\ Becomes([World EXCEPT !.ps[p].st = st])
      /\ UNCHANGED <<timeVars, stackVars, queueVars, check, idle>>
  BY DEF shutdownWrite, Call
<1>2. QueueType'
  BY <1>1, StackParts DEF QueueType, queueVars
<1> QED BY <1>1, <1>2, StateStep, QuietStep

\* gracefulClose keeps the invariant: the pcb keeps its slot until it is freed,
\* although the connection is gone.
LEMMA GracefulCloseInv ==
  ASSUME StackInv, NEW p \in Pcbs,
         NEW st \in {"FIN_WAIT", "CLOSING", "LAST_ACK", "TIME_WAIT", "free"}, gracefulClose(p, st)
  PROVE  StackInv'
<1> DEFINE c == pcbs[p].conn
           q == [pcbs[p] EXCEPT !.st = st, !.conn = None]
           cs == [conns EXCEPT ![c] = "Dead"]
           v == [l |-> listener, ps |-> [pcbs EXCEPT ![p] = q], cs |-> cs]
<1>1. /\ p \in InUse(pcbs) /\ c # None
      /\ st \in IF pcbs[p].st = "ESTABLISHED" THEN {"FIN_WAIT", "LAST_ACK", "free"} ELSE {pcbs[p].st}
      /\ Becomes(IF st = "free" THEN FreeAll(World, {p})
                 ELSE [World EXCEPT !.cs[c] = "Dead", !.ps[p] = [@ EXCEPT !.st = st, !.conn = None]])
      /\ UNCHANGED <<timeVars, stackVars, queueVars, check, idle>>
  BY DEF gracefulClose, Call
<1>2. QueueType' /\ {p} \in SUBSET Pcbs
  BY <1>1, StackParts DEF QueueType, queueVars
<1>3. CASE st = "free"
  BY <1>1, <1>2, <1>3, FreeAllStep, QuietStep
<1>4. CASE st # "free"
  <2>1. PoolInv(World) /\ pcbs \in PcbPool /\ conns \in ConnStates
    BY StackParts, PoolFields, WorldFields
  <2>2. pcbs[p] \in Pcb /\ c \in Conns
    BY <1>1, <2>1, UsedPcb
  <2>3. Becomes(v)
    <3> DEFINE x == [World EXCEPT !.cs[c] = "Dead", !.ps[p] = q]
    <3>1. Becomes(x)
      BY <1>1, <1>4, WorldFields
    <3>2. World = [l |-> listener, ps |-> pcbs, cs |-> conns]
      BY DEF World
    <3> HIDE DEF q, c
    <3>3. x.l = listener /\ x.ps = [pcbs EXCEPT ![p] = q] /\ x.cs = cs
      BY <3>2
    <3> HIDE DEF x, cs
    <3> QED BY <3>1, <3>3 DEF Becomes
  <2>4. /\ q \in Pcb /\ q.pend = pcbs[p].pend /\ q.listener = pcbs[p].listener /\ q.st = st
    <3>1. st \in {"SYN_RCVD", "ESTABLISHED", "FIN_WAIT", "CLOSING", "LAST_ACK", "TIME_WAIT"}
      BY <1>4
    <3> QED BY <2>2, <3>1 DEF Pcb
  <2>5. cs \in ConnStates /\ \A d \in Conns : cs[d] = "New" => d # c /\ conns[d] = "New"
    BY <2>1, <2>2 DEF ConnStates
  <2>6. st # "SYN_RCVD" /\ (st = "TIME_WAIT" => p \notin Slots(pcbs))
    <3>1. st = "TIME_WAIT" => pcbs[p].st = "TIME_WAIT"
      BY <1>1
    <3>2. pcbs[p].st = "TIME_WAIT" => p \notin Slots(pcbs)
      BY <1>1, <2>1, WorldFields DEF PoolInv
    <3> QED BY <3>1, <3>2
  <2> HIDE DEF q, cs
  <2>7. \A d \in Conns : cs[d] = "New" => \E r \in InUse(pcbs) \ {p} : pcbs[r].conn = d
    <3> SUFFICES ASSUME NEW d \in Conns, cs[d] = "New"
                 PROVE  \E r \in InUse(pcbs) \ {p} : pcbs[r].conn = d
      OBVIOUS
    <3>1. d # c /\ conns[d] = "New"
      BY <2>5
    <3>2. PICK r \in InUse(pcbs) : pcbs[r].conn = d
      BY <2>1, <3>1, WorldFields DEF PoolInv
    <3> QED BY <3>1, <3>2
  <2>8. PoolInv(v) /\ InUse([pcbs EXCEPT ![p] = q]) = InUse(pcbs)
    BY <1>1, <2>1, <2>4, <2>5, <2>6, <2>7, PcbChange, WorldFields
  <2>9. PoolInv(World') /\ listener' = listener /\ pcbs' = [pcbs EXCEPT ![p] = q]
    BY <2>3, <2>8, BecomesInv
  <2> QED BY <1>1, <1>2, <2>8, <2>9, QuietStep
<1> QED BY <1>3, <1>4

-----------------------------------------------------------------------------
(* The steps of the dispatch timer.                                        *)

\* A step that leaves the stack, the pool and the queues alone keeps their parts of
\* the invariant.
LEMMA TimeStep ==
  ASSUME StackInv, UNCHANGED <<stackVars, worldVars, queueVars>>, TimeType', TimerInv', TimesInv'
  PROVE  StackInv'
<1>1. PoolInv(World) /\ StackType /\ QueueType /\ Wiring /\ Retained
  BY StackParts DEF StackInv
<1>2. World' = World /\ listener' = listener
  BY DEF World, worldVars
<1>3. StackType' /\ QueueType'
  BY <1>1 DEF StackType, QueueType, stackVars, queueVars
<1>4. Wiring' /\ Retained'
  BY <1>1, <1>2, WiringKept
<1>5. TypeOK'
  BY <1>1, <1>2, <1>3, TypePartsNext
<1> QED BY <1>1, <1>2, <1>4, <1>5 DEF StackInv

\* TimerEvent keeps the invariant: what was timely for the clock is timely for
\* the time that sys_check_timeouts takes.
LEMMA TimerEventInv ==
  ASSUME StackInv, TimerEvent
  PROVE  StackInv'
<1>1. /\ check = NotChecking /\ stack.timer /\ check' = clock /\ idle' = 0
      /\ UNCHANGED <<timeVars, stackVars, worldVars, queueVars>>
  BY DEF TimerEvent, QueueFree
<1>2. /\ clock \in Times /\ timeouts \in Seq(Timeout) /\ tcpActive \in BOOLEAN /\ idle \in 0 .. MaxIdle
  BY StackParts DEF TimeType
<1>3. clock # NotChecking
  BY <1>2 DEF Times, NotChecking
<1>4. Timely(timeouts, clock, idle) /\ TimerInv
  BY <1>1 DEF StackInv, TimesInv
<1>5. Timely(timeouts, clock, MaxIdle)
  <2>1. ASSUME NEW i \in 1 .. Len(timeouts) PROVE Pos(timeouts[i].time, clock) > 2 * MaxIdle - MaxIdle
    <3> DEFINE x == Pos(timeouts[i].time, clock)
    <3>1. x \in Times
      BY <1>2, Member, PosCases
    <3>2. x > 2 * MaxIdle - idle
      BY <1>4 DEF Timely
    <3>3. MaxIdle \in Nat /\ TICKS \in Nat
      BY Bounds
    <3> HIDE DEF x
    <3>4. x > 2 * MaxIdle - MaxIdle
      BY <1>2, <3>1, <3>2, <3>3 DEF Times
    <3> QED BY <3>4 DEF x
  <2> QED BY <1>4, <2>1 DEF Timely
<1>6. TimeType'
  BY <1>1, <1>2, Bounds DEF TimeType, timeVars
<1>7. TimerInv'
  BY <1>1, <1>4 DEF TimerInv, timeVars, worldVars
<1>8. TimesInv'
  <2>1. stack'.timer /\ clock' = clock /\ timeouts' = timeouts
    BY <1>1 DEF stackVars, timeVars
  <2>2. Ahead(clock, clock) = 0
    BY <1>2, AheadSelf
  <2> QED BY <1>1, <1>3, <1>5, <2>1, <2>2 DEF TimesInv
<1> QED BY <1>1, <1>6, <1>7, <1>8, TimeStep

\* The timeout that sys_check_timeouts serves was due when it began, by less
\* than a round; what is left of the list is timely.
LEMMA RunningFacts ==
  ASSUME StackInv, check # NotChecking, Expired(check)
  PROVE  /\ clock \in Times /\ check \in Times /\ timeouts \in Seq(Timeout) /\ timeouts # <<>>
         /\ stack.timer /\ Ahead(clock, check) <= idle /\ Ahead(clock, check) <= MaxIdle
         /\ Head(timeouts) \in Timeout /\ Head(timeouts).time \in Times
         /\ Head(timeouts).h \in {"tcp", "reass"}
         /\ Pos(Head(timeouts).time, check) > MaxIdle
         /\ Pos(Head(timeouts).time, check) <= 2 * MaxIdle
         /\ Tail(timeouts) \in Seq(Timeout) /\ Timely(Tail(timeouts), check, MaxIdle)
         /\ AtMostOnce(timeouts) /\ (tcpActive <=> HasTcp(timeouts))
         /\ (InUse(pcbs) # {} => tcpActive) /\ tcpActive \in BOOLEAN
<1>1. /\ clock \in Times /\ check \in Times /\ timeouts \in Seq(Timeout) /\ idle \in 0 .. MaxIdle
      /\ tcpActive \in BOOLEAN
  BY StackParts DEF TimeType
<1>2. /\ stack.timer /\ Ahead(clock, check) <= idle /\ Timely(timeouts, check, MaxIdle)
      /\ AtMostOnce(timeouts) /\ (tcpActive <=> HasTcp(timeouts))
      /\ (InUse(pcbs) # {} => tcpActive)
  BY DEF StackInv, TimesInv, TimerInv
<1>3. timeouts # <<>> /\ ~TIME_LESS_THAN(check, Head(timeouts).time)
  BY DEF Expired
<1>4. 1 \in 1 .. Len(timeouts) /\ Head(timeouts) = timeouts[1] /\ Tail(timeouts) \in Seq(Timeout)
  BY <1>1, <1>3, TailFacts
<1>5. Head(timeouts) \in Timeout /\ Head(timeouts).time \in Times /\ Head(timeouts).h \in {"tcp", "reass"}
  BY <1>1, <1>4, Member
<1> DEFINE x == Pos(Head(timeouts).time, check)
<1>6. x > 2 * MaxIdle - MaxIdle /\ x < 2 * MaxIdle + Reach(Head(timeouts).h)
  BY <1>2, <1>4 DEF Timely
<1>7. ~(x > 2 * MaxIdle)
  BY <1>1, <1>3, <1>5, <1>6, DuePos
<1>8. x \in Times
  BY <1>1, <1>5, PosCases
<1>9. MaxIdle \in Nat /\ TICKS \in Nat
  BY Bounds
<1>10. x > MaxIdle /\ x <= 2 * MaxIdle
  <2> HIDE DEF x
  <2> QED BY <1>6, <1>7, <1>8, <1>9 DEF Times
<1>11. Ahead(clock, check) <= MaxIdle
  <2> DEFINE a == Ahead(clock, check)
  <2>1. a \in Times /\ a <= idle
    BY <1>1, <1>2, AheadCases
  <2> HIDE DEF a
  <2>2. a <= MaxIdle
    BY <1>1, <1>9, <2>1 DEF Times
  <2> QED BY <2>2 DEF a
<1>12. Timely(Tail(timeouts), check, MaxIdle)
  BY <1>1, <1>2, <1>3, TailTimely
<1> QED BY <1>1, <1>2, <1>3, <1>4, <1>5, <1>10, <1>11, <1>12

\* What is left when one timeout was served and the next set, for the time of
\* this sys_check_timeouts.
LEMMA ServedTimes ==
  ASSUME StackInv, check # NotChecking, Expired(check), UNCHANGED <<clock, stackVars, check, idle>>,
         timeouts' \in Seq(Timeout), tcpActive' \in BOOLEAN, Timely(timeouts', check, MaxIdle)
  PROVE  TimeType' /\ TimesInv'
<1>1. stack.timer /\ Ahead(clock, check) <= idle /\ TimeType
  BY RunningFacts, StackParts
<1>2. TimeType'
  BY <1>1 DEF TimeType
<1>3. TimesInv'
  BY <1>1 DEF TimesInv, stackVars
<1> QED BY <1>2, <1>3

\* TcpTimer keeps the invariant: the timer is set again exactly when a pcb is
\* left.
LEMMA TcpTimerInv ==
  ASSUME StackInv, NEW D \in SUBSET Pcbs, TcpTimer(D)
  PROVE  StackInv'
<1> DEFINE needed == InUse(pcbs) # D
<1>1. /\ check # NotChecking /\ Expired(check) /\ Head(timeouts).h = "tcp" /\ D \subseteq InUse(pcbs)
      /\ Becomes(FreeAll(World, D)) /\ NextTurn(needed)
      /\ UNCHANGED <<clock, stackVars, queueVars, check, idle>>
  BY DEF TcpTimer, Running
<1>2. /\ clock \in Times /\ check \in Times /\ timeouts \in Seq(Timeout) /\ timeouts # <<>>
      /\ Ahead(clock, check) <= MaxIdle
      /\ Tail(timeouts) \in Seq(Timeout) /\ Timely(Tail(timeouts), check, MaxIdle)
      /\ AtMostOnce(timeouts)
  BY <1>1, RunningFacts
<1>3. AtMostOnce(Tail(timeouts)) /\ ~HasTcp(Tail(timeouts))
  BY <1>1, <1>2, TailOnce
<1>4. /\ tcpActive' = needed
      /\ timeouts' = IF needed THEN sys_timeout(Tail(timeouts), "tcp") ELSE Tail(timeouts)
  BY <1>1 DEF NextTurn
<1>5. /\ timeouts' \in Seq(Timeout) /\ Timely(timeouts', check, MaxIdle) /\ AtMostOnce(timeouts')
      /\ HasTcp(timeouts') <=> needed
  <2>1. CASE needed
    <3>1. MaxIdle \in 0 .. MaxIdle
      BY Bounds
    <3>2. timeouts' = sys_timeout(Tail(timeouts), "tcp")
      BY <1>4, <2>1
    <3>3. Timely(timeouts', check, MaxIdle)
      BY <1>2, <3>1, <3>2, SysTimeoutTimely
    <3>4. After(clock, Interval("tcp")) \in Times
      BY <1>2, PosOfNext
    <3>5. timeouts' \in Seq(Timeout) /\ AtMostOnce(timeouts') /\ HasTcp(timeouts')
      BY <1>2, <1>3, <3>2, <3>4, InsertOnce DEF sys_timeout
    <3> QED BY <2>1, <3>3, <3>5
  <2>2. CASE ~needed
    BY <1>2, <1>3, <1>4, <2>2
  <2> QED BY <2>1, <2>2
<1>6. PoolInv(World') /\ listener'.arg = listener.arg /\ InUse(pcbs') = InUse(pcbs) \ D
  BY <1>1, FreeAllStep
<1>7. TimeType' /\ TimesInv'
  BY <1>1, <1>4, <1>5, ServedTimes
<1>8. TimerInv'
  <2>1. InUse(pcbs') # {} => needed
    BY <1>1, <1>6
  <2> QED BY <1>4, <1>5, <2>1 DEF TimerInv
<1>9. StackType' /\ QueueType'
  BY <1>1, StackParts DEF StackType, QueueType, stackVars, queueVars
<1>10. Wiring' /\ Retained'
  BY <1>1, <1>6, WiringKept DEF StackInv
<1>11. TypeOK'
  BY <1>6, <1>7, <1>9, TypePartsNext
<1> QED BY <1>6, <1>7, <1>8, <1>10, <1>11 DEF StackInv

\* ReassTimer keeps the invariant.
LEMMA ReassTimerInv ==
  ASSUME StackInv, ReassTimer
  PROVE  StackInv'
<1> DEFINE t == Head(timeouts)
<1>1. /\ check # NotChecking /\ Expired(check) /\ t.h = "reass" /\ NextTurn(TRUE)
      /\ UNCHANGED <<clock, stackVars, worldVars, queueVars, check, idle>>
  BY DEF ReassTimer, Running
<1>2. /\ clock \in Times /\ check \in Times /\ timeouts \in Seq(Timeout) /\ timeouts # <<>>
      /\ Ahead(clock, check) <= MaxIdle
      /\ t.time \in Times /\ Pos(t.time, check) > MaxIdle /\ Pos(t.time, check) <= 2 * MaxIdle
      /\ Tail(timeouts) \in Seq(Timeout) /\ Timely(Tail(timeouts), check, MaxIdle)
      /\ AtMostOnce(timeouts) /\ (tcpActive <=> HasTcp(timeouts))
      /\ (InUse(pcbs) # {} => tcpActive) /\ tcpActive \in BOOLEAN
  BY <1>1, RunningFacts
<1>3. AtMostOnce(Tail(timeouts)) /\ (HasTcp(Tail(timeouts)) <=> HasTcp(timeouts))
  BY <1>1, <1>2, TailOnce
<1>4. tcpActive' = tcpActive /\ timeouts' = lwip_cyclic_timer(Tail(timeouts), "reass", t.time)
  BY <1>1 DEF NextTurn
<1> HIDE DEF t
<1>5. Timely(timeouts', check, MaxIdle)
  BY <1>2, <1>4, CyclicTimely
<1>6. /\ timeouts' \in Seq(Timeout) /\ AtMostOnce(timeouts')
      /\ HasTcp(timeouts') <=> HasTcp(timeouts)
  <2>1. /\ After(clock, Interval("reass")) \in Times /\ After(t.time, Interval("reass")) \in Times
    <3>1. Interval("reass") \in Times
      <4> DEFINE n == Interval("reass")
      <4>1. n \in Nat /\ 2 * MaxIdle + n < TICKS \div 2
        BY Bounds
      <4> HIDE DEF n
      <4>2. n \in Times
        BY <4>1, Bounds DEF Times
      <4> QED BY <4>2 DEF n
    <3> QED BY <1>2, <3>1, AfterCases
  <2>2. CASE TIME_LESS_THAN(After(t.time, Interval("reass")), clock)
    <3>1. timeouts' = sys_timeout_abs(Tail(timeouts), "reass", After(clock, Interval("reass")))
      BY <1>4, <2>2 DEF lwip_cyclic_timer, sys_timeout
    <3> QED BY <1>2, <1>3, <2>1, <3>1, InsertOnce
  <2>3. CASE ~TIME_LESS_THAN(After(t.time, Interval("reass")), clock)
    <3>1. timeouts' = sys_timeout_abs(Tail(timeouts), "reass", After(t.time, Interval("reass")))
      BY <1>4, <2>3 DEF lwip_cyclic_timer
    <3> QED BY <1>2, <1>3, <2>1, <3>1, InsertOnce
  <2> QED BY <2>2, <2>3
<1>7. TimeType' /\ TimesInv'
  BY <1>1, <1>2, <1>4, <1>5, <1>6, ServedTimes
<1>8. TimerInv'
  BY <1>1, <1>2, <1>4, <1>6 DEF TimerInv, worldVars
<1> QED BY <1>1, <1>7, <1>8, TimeStep

\* CheckDone keeps the invariant: what is left was not due when
\* sys_check_timeouts began, and is over by no more than has passed since.
LEMMA CheckDoneInv ==
  ASSUME StackInv, CheckDone
  PROVE  StackInv'
<1>1. /\ check # NotChecking /\ ~Expired(check) /\ check' = NotChecking
      /\ UNCHANGED <<timeVars, stackVars, worldVars, queueVars, idle>>
  BY DEF CheckDone
<1>2. /\ clock \in Times /\ check \in Times /\ timeouts \in Seq(Timeout) /\ idle \in 0 .. MaxIdle
      /\ TimeType
  BY <1>1, StackParts DEF TimeType
<1>3. /\ stack.timer /\ Ahead(clock, check) <= idle /\ Timely(timeouts, check, MaxIdle) /\ TimerInv
  BY <1>1 DEF StackInv, TimesInv
<1>4. timeouts # <<>> => TIME_LESS_THAN(check, Head(timeouts).time)
  BY <1>1 DEF Expired
<1>5. Timely(timeouts, clock, idle)
  BY <1>2, <1>3, <1>4, DoneTimely
<1>6. TimeType'
  BY <1>1, <1>2 DEF TimeType, timeVars
<1>7. TimerInv'
  BY <1>1, <1>3 DEF TimerInv, timeVars, worldVars
<1>8. TimesInv'
  BY <1>1, <1>3, <1>5 DEF TimesInv, timeVars, stackVars
<1> QED BY <1>1, <1>6, <1>7, <1>8, TimeStep

\* TimePasses keeps the invariant, also where the clock wraps around or comes to
\* stand still, and also while timeouts are served.
LEMMA TimePassesInv ==
  ASSUME StackInv, TimePasses
  PROVE  StackInv'
<1>1. /\ stack.timer => idle < MaxIdle
      /\ Tick /\ idle' = IF stack.timer THEN idle + 1 ELSE 0
      /\ UNCHANGED <<timeouts, tcpActive, stackVars, worldVars, queueVars, check>>
  BY DEF TimePasses
<1>2. /\ clock \in Times /\ check \in Times \cup {NotChecking} /\ timeouts \in Seq(Timeout)
      /\ idle \in 0 .. MaxIdle /\ tcpActive \in BOOLEAN /\ TimerInv /\ TimesInv
  BY StackParts DEF TimeType, StackInv
<1>3. TICKS \in Nat /\ MaxIdle \in Nat /\ 1 \in Times
  <2>1. TICKS > 1
    BY TimeoutsAssumption
  <2> QED BY <2>1, Bounds DEF Times
<1>4. clock' \in Times /\ (clock' = After(clock, 1) \/ clock' = clock)
  <2>1. clock' = After(clock, 1) \/ clock' = clock
    BY <1>1 DEF Tick
  <2> QED BY <1>2, <1>3, <2>1, AfterCases
<1>5. idle' \in 0 .. MaxIdle
  BY <1>1, <1>2, <1>3
<1>6. TimeType'
  BY <1>1, <1>2, <1>4, <1>5 DEF TimeType
<1>7. TimerInv'
  BY <1>1, <1>2 DEF TimerInv, worldVars
<1>8. TimesInv'
  <2>1. stack' = stack /\ check' = check /\ timeouts' = timeouts
    BY <1>1 DEF stackVars
  <2>2. CASE ~stack.timer
    BY <1>2, <2>1, <2>2 DEF TimesInv
  <2>3. CASE stack.timer /\ check = NotChecking
    <3>1. Timely(timeouts, clock, idle) /\ idle' = idle + 1 /\ idle \in Nat /\ idle < MaxIdle
      BY <1>1, <1>2, <2>3 DEF TimesInv
    <3>2. Timely(timeouts, clock', idle + 1)
      BY <1>2, <1>4, <3>1, TickTimely
    <3> QED BY <2>1, <2>3, <3>1, <3>2 DEF TimesInv
  <2>4. CASE stack.timer /\ check # NotChecking
    <3>1. /\ check \in Times /\ Ahead(clock, check) <= idle /\ Timely(timeouts, check, MaxIdle)
          /\ idle' = idle + 1 /\ idle < MaxIdle
      BY <1>1, <1>2, <2>4 DEF TimesInv
    <3>2. Ahead(clock', check) <= idle + 1
      <4> DEFINE a == Ahead(clock, check)
                 b == Ahead(clock', check)
                 x == clock
                 y == clock'
      <4>1. a \in Times /\ (a = x - check \/ a = x - check + TICKS) /\ a <= idle
        BY <1>2, <3>1, AheadCases
      <4>2. b \in Times /\ (b = y - check \/ b = y - check + TICKS)
        BY <1>4, <3>1, AheadCases
      <4>3. y = x + 1 \/ y = x + 1 - TICKS \/ y = x
        BY <1>2, <1>3, <1>4, AfterCases
      <4>4. x \in Times /\ y \in Times
        BY <1>2, <1>4
      <4>5. 2 * MaxIdle < TICKS
        <5> DEFINE n == Interval("tcp")
        <5>1. n \in Nat /\ 2 * MaxIdle + n < TICKS \div 2
          BY Bounds
        <5> HIDE DEF n
        <5> QED BY <5>1, Bounds
      <4> HIDE DEF a, b, x, y
      <4>6. b <= idle + 1
        BY <1>2, <1>3, <3>1, <4>1, <4>2, <4>3, <4>4, <4>5 DEF Times
      <4> QED BY <4>6 DEF b
    <3> QED BY <2>1, <2>4, <3>1, <3>2 DEF TimesInv
  <2> QED BY <2>2, <2>3, <2>4
<1> QED BY <1>1, <1>6, <1>7, <1>8, TimeStep

-----------------------------------------------------------------------------
(* start and stop.                                                         *)

\* The list, whether the stack was started or not, can be shifted.
LEMMA ListShiftable ==
  ASSUME StackInv, check = NotChecking
  PROVE  Shiftable(timeouts)
<1>1. clock \in Times /\ timeouts \in Seq(Timeout)
  BY StackParts DEF TimeType
<1>2. CASE stack.timer
  BY <1>1, <1>2, TimelyShiftable DEF StackInv, TimesInv
<1>3. CASE ~stack.timer
  BY <1>3 DEF StackInv, TimesInv
<1> QED BY <1>2, <1>3

\* start keeps the parts of the invariant that are about the list.
LEMMA StartTimes ==
  ASSUME StackInv, start, stack'.timer, InUse(pcbs') \subseteq InUse(pcbs)
  PROVE  TimeType' /\ TimerInv' /\ TimesInv'
<1>1. /\ check = NotChecking /\ timeouts' = sys_restart_timeouts(timeouts)
      /\ idle' = TCP_TMR_INTERVAL /\ UNCHANGED <<clock, tcpActive, queueVars, check>>
  BY DEF start, QueueFree
<1>2. /\ clock \in Times /\ timeouts \in Seq(Timeout) /\ tcpActive \in BOOLEAN /\ TimerInv
  BY StackParts DEF TimeType, StackInv
<1>3. timeouts' \in Seq(Timeout) /\ Timely(timeouts', clock, TCP_TMR_INTERVAL)
  BY <1>1, <1>2, ListShiftable, RestartFacts, RestartTimely
<1>4. AtMostOnce(timeouts') /\ (HasTcp(timeouts') <=> HasTcp(timeouts))
  BY <1>1, <1>2, RestartOnce DEF TimerInv
<1>5. TCP_TMR_INTERVAL \in 0 .. MaxIdle
  BY Bounds
<1>6. TimeType'
  BY <1>1, <1>2, <1>3, <1>5 DEF TimeType
<1>7. TimerInv'
  BY <1>1, <1>2, <1>4 DEF TimerInv
<1>8. TimesInv'
  BY <1>1, <1>3 DEF TimesInv
<1> QED BY <1>6, <1>7, <1>8

\* The fields of the stack's own variables.
LEMMA StackFields ==
  ASSUME StackType
  PROVE  /\ stack.stackRef \in {None} \cup Refs /\ stack.state \in {None} \cup Refs
         /\ stack.ready \in BOOLEAN /\ stack.timer \in BOOLEAN
         /\ netif.state \in {None} \cup Refs /\ netif.listed \in BOOLEAN
         /\ \A r \in Refs : refs[r].alive \in BOOLEAN /\ refs[r].retains \in 0 .. 1
BY DEF StackType

\* start keeps the invariant: a stack that was started is left as it is, and
\* another gets a ref that nothing refers to, or its own that is alive.
LEMMA StartInv ==
  ASSUME StackInv, start
  PROVE  StackInv'
<1>1. /\ check = NotChecking /\ (StackRefAlive \/ NewRefs # {})
      /\ UNCHANGED <<clock, tcpActive, queueVars, check>>
  BY DEF start, QueueFree
<1>2. /\ StackType /\ QueueType /\ PoolInv(World) /\ Wiring /\ Retained
  BY StackParts DEF StackInv
<1>3. /\ stack.stackRef \in {None} \cup Refs /\ stack.state \in {None} \cup Refs
      /\ stack.ready \in BOOLEAN /\ stack.timer \in BOOLEAN
  BY <1>2, StackFields
<1>4. QueueType'
  BY <1>1, <1>2 DEF QueueType, queueVars
<1>5. CASE stack.ready
  <2>1. /\ stack' = [stack EXCEPT !.stackRef = StartRef, !.timer = TRUE]
        /\ refs' = [refs EXCEPT ![StartRef].alive = TRUE]
        /\ UNCHANGED <<netif, worldVars>>
    BY <1>5 DEF start
  <2>2. stack.stackRef # None /\ stack.stackRef \in Refs /\ refs[stack.stackRef].alive = TRUE /\ stack.timer = TRUE
    BY <1>2, <1>3, <1>5, StackFields DEF Wiring
  <2>3. StartRef = stack.stackRef
    BY <2>2 DEF StartRef, StackRefAlive
  <2>4. stack' = stack
    BY <1>2, <2>1, <2>2, <2>3 DEF StackType
  <2>5. refs' = refs
    BY <1>2, <2>1, <2>2, <2>3 DEF StackType
  <2>6. World' = World /\ listener' = listener /\ pcbs' = pcbs
    BY <2>1 DEF World, worldVars
  <2>7. TimeType' /\ TimerInv' /\ TimesInv'
    BY <2>2, <2>4, <2>6, StartTimes
  <2>8. StackType' /\ UNCHANGED stackVars
    BY <1>2, <2>1, <2>4, <2>5 DEF StackType, stackVars
  <2>9. Wiring' /\ Retained'
    BY <1>2, <2>6, <2>8, WiringKept
  <2>10. TypeOK'
    BY <1>2, <1>4, <2>6, <2>7, <2>8, TypePartsNext
  <2> QED BY <1>2, <2>6, <2>7, <2>9, <2>10 DEF StackInv
<1>6. CASE ~stack.ready
  <2> DEFINE r == StartRef
  <2>1. setupLockedOnLWIPQueue(r)
    BY <1>6 DEF start
  <2>2. r \in Refs /\ r # None
    <3>1. \A x \in Refs : x # None
      BY DEF Refs, None
    <3>2. CASE StackRefAlive
      BY <1>3, <3>1, <3>2 DEF StartRef, StackRefAlive
    <3>3. CASE ~StackRefAlive
      <4>1. NewRefs # {} /\ NewRefs \subseteq Refs /\ NewRefs \subseteq Nat
        BY <1>1, <3>3 DEF NewRefs, Refs
      <4>2. \E n \in NewRefs : \A m \in NewRefs : n <= m
        BY <4>1, NatMin
      <4> QED BY <3>1, <3>3, <4>1, <4>2 DEF StartRef, Smallest
    <3> QED BY <3>2, <3>3
  <2> HIDE DEF r
  <2>3. /\ stack' = [stackRef |-> r, ready |-> TRUE, state |-> r, timer |-> TRUE]
        /\ refs' = [refs EXCEPT ![r] = [alive |-> TRUE, retains |-> @.retains + 1]]
        /\ netif' = [listed |-> TRUE, state |-> r]
    BY <2>1 DEF setupLockedOnLWIPQueue
  <2>4. listener.arg = None /\ netif.listed = FALSE
    BY <1>2, <1>3, <1>6 DEF Wiring
  <2>5. \A x \in Refs : refs[x].retains = 0
    BY <1>2, <2>4 DEF Retained
  <2>6. /\ refs'[r] = [alive |-> TRUE, retains |-> 1]
        /\ \A x \in Refs \ {r} : refs'[x] = refs[x]
        /\ refs' \in [Refs -> [alive : BOOLEAN, retains : 0 .. 1]]
    <3>1. refs[r].retains + 1 = 1
      BY <2>2, <2>5
    <3>2. refs' = [refs EXCEPT ![r] = [alive |-> TRUE, retains |-> 1]]
      BY <2>3, <3>1
    <3> QED BY <1>2, <2>2, <3>2 DEF StackType
  <2>7. /\ PoolInv(World') /\ InUse(pcbs') \subseteq InUse(pcbs)
        /\ listener'.arg = None \/ listener'.arg = r
    <3>1. CASE Allocable = {} /\ UNCHANGED worldVars
      <4>1. World' = World /\ pcbs' = pcbs /\ listener' = listener
        BY <3>1 DEF World, worldVars
      <4> QED BY <1>2, <2>4, <4>1
    <3>2. ASSUME NEW p \in Allocable,
                 Becomes([FreeAll(World, {p}) EXCEPT !.l = [arg |-> r, accepts_pending |-> 0]])
          PROVE  /\ PoolInv(World') /\ InUse(pcbs') \subseteq InUse(pcbs) /\ listener'.arg = r
      <4> DEFINE v == FreeAll(World, {p})
                 l == [arg |-> r, accepts_pending |-> 0]
                 u == [v EXCEPT !.l = l]
      <4>1. {p} \in SUBSET Pcbs
        BY AllocableInPool
      <4>2. PoolInv(v) /\ v.l.arg = None /\ InUse(v.ps) = InUse(pcbs) \ {p}
        BY <1>2, <2>4, <4>1, FreeAllInv, WorldFields
      <4> HIDE DEF v
      <4>3. PoolInv(u)
        BY <2>2, <4>2, ListenInv
      <4>4. u.l = l /\ u.ps = v.ps
        <5>1. v = [l |-> v.l, ps |-> v.ps, cs |-> v.cs]
          BY <4>2, PoolFields
        <5> QED BY <5>1
      <4>5. Becomes(u)
        BY <3>2 DEF v
      <4> HIDE DEF u
      <4>6. PoolInv(World') /\ listener' = u.l /\ pcbs' = u.ps
        BY <4>3, <4>5, BecomesInv
      <4> QED BY <4>2, <4>4, <4>6
    <3> QED BY <2>1, <3>1, <3>2 DEF setupLockedOnLWIPQueue
  <2>8. TimeType' /\ TimerInv' /\ TimesInv'
    BY <2>3, <2>7, StartTimes
  <2>9. StackType'
    BY <2>2, <2>3, <2>6 DEF StackType
  <2>10. Wiring'
    BY <2>2, <2>3, <2>6, <2>7 DEF Wiring
  <2>11. Retained'
    <3>1. ASSUME NEW x \in Refs
          PROVE  refs'[x].retains = IF netif'.listed /\ netif'.state = x THEN 1 ELSE 0
      <4>1. CASE x = r
        BY <2>3, <2>6, <4>1
      <4>2. CASE x # r
        BY <2>3, <2>5, <2>6, <4>2
      <4> QED BY <4>1, <4>2
    <3> QED BY <3>1 DEF Retained
  <2>12. TypeOK'
    BY <1>4, <2>7, <2>8, <2>9, TypePartsNext
  <2> QED BY <2>7, <2>8, <2>10, <2>11, <2>12 DEF StackInv
<1> QED BY <1>5, <1>6

\* stop keeps the invariant: the listener goes with its slots and the ref with
\* its retain; connections that stay have no way back to the stack.
LEMMA StopInv ==
  ASSUME StackInv, NEW D \in SUBSET Pcbs, stop(D)
  PROVE  StackInv'
<1> DEFINE w == StopListener(World)
<1>1. /\ check = NotChecking
      /\ stack' = [stackRef |-> None, ready |-> FALSE, state |-> None, timer |-> FALSE]
      /\ refs' = StopRefs
      /\ Becomes(FreeAll(w, D))
      /\ netif' = IF netif.state = stack.state THEN [listed |-> FALSE, state |-> None] ELSE netif
      /\ idle' = 0
      /\ UNCHANGED <<timeVars, queueVars, check>>
  BY DEF stop, QueueFree
<1>2. /\ StackType /\ QueueType /\ TimeType /\ PoolInv(World) /\ Wiring /\ Retained /\ TimerInv
  BY StackParts DEF StackInv
<1>3. PoolInv(w) /\ w.l.arg = None /\ InUse(w.ps) = InUse(pcbs)
  <2>1. CASE listener = NoListener
    BY <1>2, <2>1, WorldFields DEF StopListener, NoListener
  <2>2. CASE listener # NoListener
    BY <1>2, <2>2, ListenClosedInv, WorldFields DEF StopListener, NoListener
  <2> QED BY <2>1, <2>2
<1> HIDE DEF w
<1>4. PoolInv(World') /\ listener'.arg = None /\ InUse(pcbs') \subseteq InUse(pcbs)
  <2> DEFINE v == FreeAll(w, D)
  <2>1. PoolInv(v) /\ v.l.arg = None /\ InUse(v.ps) = InUse(pcbs) \ D
    BY <1>3, FreeAllInv
  <2>2. Becomes(v)
    BY <1>1
  <2> HIDE DEF v
  <2>3. PoolInv(World') /\ listener' = v.l /\ pcbs' = v.ps
    BY <2>1, <2>2, BecomesInv
  <2> QED BY <2>1, <2>3
<1>5. netif' = [listed |-> FALSE, state |-> None]
  BY <1>1, <1>2 DEF Wiring
<1>6. ASSUME NEW r \in Refs
      PROVE  /\ refs'[r] = [alive |-> refs[r].alive /\ r # stack.stackRef, retains |-> 0]
             /\ refs'[r] \in [alive : BOOLEAN, retains : 0 .. 1]
  <2>1. refs'[r] = [alive   |-> refs[r].alive /\ r # stack.stackRef,
                    retains |-> IF r = stack.state THEN refs[r].retains - 1 ELSE refs[r].retains]
    BY <1>1 DEF StopRefs
  <2>2. (IF r = stack.state THEN refs[r].retains - 1 ELSE refs[r].retains) = 0
    <3>1. r # None
      BY DEF Refs, None
    <3>2. stack.ready \in BOOLEAN /\ refs[r].retains \in 0 .. 1
      BY <1>2, StackFields
    <3>3. CASE stack.ready
      <4>1. netif.listed = TRUE /\ netif.state = stack.state
        BY <1>2, <3>2, <3>3 DEF Wiring
      <4>2. refs[r].retains = IF r = stack.state THEN 1 ELSE 0
        BY <1>2, <4>1 DEF Retained
      <4> QED BY <4>2
    <3>4. CASE ~stack.ready
      <4>1. ~netif.listed /\ stack.state = None
        BY <1>2, <3>4 DEF Wiring
      <4>2. refs[r].retains = 0
        BY <1>2, <4>1 DEF Retained
      <4> QED BY <3>1, <4>1, <4>2
    <3> QED BY <3>3, <3>4
  <2> QED BY <2>1, <2>2
<1>7. StackType'
  <2>1. refs' \in [Refs -> [alive : BOOLEAN, retains : 0 .. 1]]
    <3>1. refs' = [r \in Refs |-> refs'[r]]
      BY <1>1 DEF StopRefs
    <3> QED BY <1>6, <3>1
  <2>2. stack' = [stackRef |-> None, ready |-> FALSE, state |-> None, timer |-> FALSE]
    BY <1>1
  <2> QED BY <1>5, <2>1, <2>2 DEF StackType
<1>8. TimeType' /\ QueueType'
  BY <1>1, <1>2, Bounds DEF TimeType, QueueType, timeVars, queueVars
<1>9. TypeOK'
  BY <1>4, <1>7, <1>8, TypePartsNext
<1>10. Wiring'
  <2>1. /\ stack'.stackRef = None /\ stack'.ready = FALSE /\ stack'.state = None
        /\ stack'.timer = FALSE /\ netif'.listed = FALSE /\ netif'.state = None
    BY <1>1, <1>5
  <2> QED BY <1>4, <2>1 DEF Wiring
<1>11. Retained'
  <2>1. netif'.listed = FALSE
    BY <1>5
  <2>2. ASSUME NEW r \in Refs PROVE refs'[r].retains = 0
    <3>1. refs'[r] = [alive |-> refs[r].alive /\ r # stack.stackRef, retains |-> 0]
      BY <1>6
    <3> QED BY <3>1
  <2> QED BY <2>1, <2>2 DEF Retained
<1>12. TimerInv'
  BY <1>1, <1>2, <1>4 DEF TimerInv, timeVars
<1>13. TimesInv'
  BY <1>1, ListShiftable DEF TimesInv, timeVars
<1> QED BY <1>4, <1>9, <1>10, <1>11, <1>12, <1>13 DEF StackInv

\* The invariant holds when TFIPStack and lwIP are set up.
LEMMA InitInv ==
  ASSUME Init
  PROVE  StackInv
<1>1. /\ clock = 0 /\ timeouts = <<[h |-> "reass", time |-> IP_TMR_INTERVAL]>> /\ tcpActive = FALSE
      /\ stack = [stackRef |-> 1, ready |-> FALSE, state |-> None, timer |-> FALSE]
      /\ refs = [r \in Refs |-> [alive |-> r = 1, retains |-> 0]]
      /\ netif = [listed |-> FALSE, state |-> None]
      /\ listener = NoListener /\ pcbs = [p \in Pcbs |-> Free] /\ conns = [c \in Conns |-> "Dead"]
      /\ connQ = <<>> /\ packetsQ = <<>> /\ check = NotChecking /\ idle = 0
  BY DEF Init, TimeoutsInit
<1>2. PoolInv(World)
  <2>1. InUse(pcbs) = {} /\ Slots(pcbs) = {}
    BY <1>1 DEF InUse, Slots, Free
  <2>2. Cardinality(Slots(pcbs)) = 0
    BY <2>1, FS_EmptySet
  <2>3. listener \in Listeners /\ listener.accepts_pending = 0
    BY <1>1, StackAssumption DEF Listeners, NoListener
  <2>4. pcbs \in PcbPool /\ conns \in ConnStates /\ \A c \in Conns : conns[c] # "New"
    BY <1>1 DEF PcbPool, ConnStates
  <2>5. World \in [l : Listeners, ps : PcbPool, cs : ConnStates]
    BY <2>3, <2>4 DEF World
  <2> QED BY <2>1, <2>2, <2>3, <2>4, <2>5, WorldFields DEF PoolInv
<1>3. IP_TMR_INTERVAL \in Times /\ 0 \in Times
  BY TimeoutsAssumption DEF Times
<1>4. [h |-> "reass", time |-> IP_TMR_INTERVAL] \in Timeout
  BY <1>3 DEF Timeout
<1>5. timeouts \in Seq(Timeout) /\ Len(timeouts) = 1 /\ timeouts[1] = [h |-> "reass", time |-> IP_TMR_INTERVAL]
  <2> DEFINE t == [h |-> "reass", time |-> IP_TMR_INTERVAL]
  <2>1. t \in Timeout /\ timeouts = <<t>>
    BY <1>1, <1>4
  <2> HIDE DEF t
  <2>2. timeouts \in Seq(Timeout) /\ Len(timeouts) = 1 /\ timeouts[1] = t
    BY <2>1
  <2> QED BY <2>2 DEF t
<1>6. TimeType
  <2>1. clock \in Times /\ tcpActive \in BOOLEAN /\ check = NotChecking /\ idle = 0
    BY <1>1, <1>3
  <2>2. idle \in 0 .. MaxIdle
    BY <2>1, Bounds
  <2> QED BY <1>5, <2>1, <2>2 DEF TimeType
<1>7. 1 \in Refs /\ 1 # None
  BY StackAssumption DEF Refs, None
<1>8. StackType
  BY <1>1, <1>7 DEF StackType
<1>9. QueueType
  BY <1>1 DEF QueueType
<1>10. TypeOK
  BY <1>2, <1>6, <1>8, <1>9, TypeParts
<1>11. Wiring
  BY <1>1, <1>7 DEF Wiring, NoListener
<1>12. Retained
  BY <1>1 DEF Retained
<1>13. TimerInv
  <2>1. InUse(pcbs) = {}
    BY <1>1 DEF InUse, Free
  <2>2. \A i \in 1 .. Len(timeouts) : timeouts[i].h # "tcp"
    BY <1>5
  <2> QED BY <1>1, <2>1, <2>2 DEF TimerInv, AtMostOnce, HasTcp
<1>14. Shiftable(timeouts)
  <2>1. Ahead(timeouts[1].time, timeouts[1].time) = 0
    BY <1>3, <1>5, AheadSelf
  <2>2. Reach(timeouts[1].h) > 0
    BY Bounds
  <2> QED BY <1>5, <2>1, <2>2 DEF Shiftable
<1>15. TimesInv
  BY <1>1, <1>14 DEF TimesInv
<1> QED BY <1>2, <1>10, <1>11, <1>12, <1>13, <1>15 DEF StackInv

\* Every step keeps the invariant.
LEMMA StackStep ==
  ASSUME StackInv, [Next]_vars
  PROVE  StackInv'
<1>1. CASE UNCHANGED vars
  <2>1. /\ UNCHANGED <<timeVars, stackVars, check, idle>> /\ UNCHANGED worldVars /\ UNCHANGED queueVars
    BY <1>1 DEF vars
  <2>2. World' = World /\ listener' = listener /\ pcbs' = pcbs
    BY <2>1 DEF World, worldVars
  <2>3. PoolInv(World) /\ QueueType
    BY StackParts
  <2>4. QueueType'
    BY <2>1, <2>3 DEF QueueType, queueVars
  <2> QED BY <2>1, <2>2, <2>3, <2>4, QuietStep
<1>2. CASE start
  BY <1>2, StartInv
<1>3. CASE \E D \in SUBSET Pcbs : stop(D)
  BY <1>3, StopInv
<1>4. CASE \E p \in Pcbs, nomem \in BOOLEAN : InputSyn(p, nomem)
  BY <1>4, InputSynInv
<1>5. CASE \E p \in Pcbs, delegate \in BOOLEAN : InputAck(p, delegate)
  BY <1>5, InputAckInv
<1>6. CASE \E p \in Pcbs : InputEnd(p)
  BY <1>6, InputEndInv
<1>7. CASE \E p \in Pcbs : InputClosing(p)
  BY <1>7, InputClosingInv
<1>8. CASE \E p \in Pcbs : InputTimeWait(p)
  BY <1>8, InputTimeWaitInv
<1>9. CASE \E answer \in {"abort", "markActive", "nothing"} : AcceptBlock(answer)
  BY <1>9, AcceptBlockInv
<1>10. CASE PacketsBlock
  BY <1>10, PacketsBlockInv
<1>11. CASE \E p \in Pcbs, st \in {"FIN_WAIT", "LAST_ACK"} : shutdownWrite(p, st)
  BY <1>11, ShutdownWriteInv
<1>12. CASE \E p \in Pcbs, st \in {"FIN_WAIT", "CLOSING", "LAST_ACK", "TIME_WAIT", "free"} :
              gracefulClose(p, st)
  BY <1>12, GracefulCloseInv
<1>13. CASE TimerEvent
  BY <1>13, TimerEventInv
<1>14. CASE \E D \in SUBSET Pcbs : TcpTimer(D)
  BY <1>14, TcpTimerInv
<1>15. CASE ReassTimer
  BY <1>15, ReassTimerInv
<1>16. CASE CheckDone
  BY <1>16, CheckDoneInv
<1>17. CASE TimePasses
  BY <1>17, TimePassesInv
<1> QED BY <1>1, <1>2, <1>3, <1>4, <1>5, <1>6, <1>7, <1>8, <1>9, <1>10, <1>11, <1>12, <1>13,
           <1>14, <1>15, <1>16, <1>17 DEF Next

-----------------------------------------------------------------------------
(* Theorems.                                                               *)

\* StackInv is an invariant of every behaviour of the stack.
THEOREM StackInvariance == Spec => []StackInv
<1>1. Init => StackInv
  BY InitInv
<1>2. StackInv /\ [Next]_vars => StackInv'
  BY StackStep
<1> QED BY <1>1, <1>2, PTL DEF Spec

\* The variables of the stack stay in their types; in particular accepts_pending
\* stays between 0 and the backlog and no ref is released twice.
THEOREM StackTypeCorrect == Spec => []TypeOK
<1>1. StackInv => TypeOK
  BY DEF StackInv
<1> QED BY <1>1, StackInvariance, PTL

\* Every arg from which lwIP gets back to the stack leads to a ref that is still owned,
\* for every order of start, stop, SYNs and ACKs.
THEOREM ArgsStayOwned == Spec => []ArgsOwned
<1>1. ASSUME StackInv PROVE ArgsOwned
  <2>1. Wiring /\ Retained /\ PoolInv(World) /\ StackType
    BY <1>1, StackParts DEF StackInv
  <2>2. stack.ready => Owned(stack.state)
    BY <2>1 DEF Wiring, Owned
  <2>3. netif.listed => Owned(netif.state)
    BY <2>1, <2>2 DEF Wiring
  <2>4. listener.arg # None => Owned(listener.arg)
    BY <2>1, <2>2 DEF Wiring
  <2>5. listener # NoListener => listener.arg # None
    BY <2>1, NoArgNoSlots, WorldFields
  <2>6. ASSUME NEW p \in InState(pcbs, {"SYN_RCVD"}), pcbs[p].listener # None
        PROVE  Owned(pcbs[p].listener)
    <3>1. p \in InUse(pcbs)
      BY DEF InState, InUse
    <3>2. pcbs[p].listener \in {None, listener.arg}
      BY <2>1, <3>1, WorldFields DEF PoolInv
    <3> QED BY <2>4, <2>6, <3>2
  <2> QED BY <2>1, <2>3, <2>4, <2>5, <2>6 DEF ArgsOwned, Retained
<1> QED BY <1>1, StackInvariance, PTL

\* accepts_pending counts exactly the connections that hold a slot, for every pool, every
\* backlog and every order of SYNs, failures, resets, aborts, timeouts and restarts.
THEOREM BacklogIsCounted == Spec => []BacklogCounted
<1>1. ASSUME StackInv PROVE BacklogCounted
  <2>1. PoolInv(World)
    BY <1>1 DEF StackInv
  <2> QED BY <2>1, WorldFields DEF BacklogCounted, PoolInv, Slots
<1> QED BY <1>1, StackInvariance, PTL

\* The TCP timer is in the list exactly once while it is active, and active while there
\* is a pcb, for every number of pcbs and every number of restarts.
THEOREM TcpTimerIsKept == Spec => []TcpTimerKept
<1>1. ASSUME StackInv PROVE TcpTimerKept
  <2>1. timeouts \in Seq(Timeout) /\ TimerInv
    BY <1>1, StackParts DEF TimeType, StackInv
  <2>2. Cardinality({i \in DOMAIN timeouts : timeouts[i].h = "tcp"}) = IF HasTcp(timeouts) THEN 1 ELSE 0
    BY <2>1, CountOnce DEF TimerInv
  <2> QED BY <2>1, <2>2 DEF TcpTimerKept, TimerInv
<1> QED BY <1>1, StackInvariance, PTL

\* While the stack is started no timeout is two rounds of the dispatch timer late or too far
\* ahead, for every range of the clock that is wide enough for TIME_LESS_THAN: wraparounds,
\* restarts and time that passes while timeouts are served do not add up.
THEOREM TimeoutsComeOnTime == Spec => []TimeoutsOnTime
<1>1. ASSUME StackInv PROVE TimeoutsOnTime
  <2> SUFFICES ASSUME stack.timer, NEW i \in DOMAIN timeouts
               PROVE  \/ Ahead(clock, timeouts[i].time) < 2 * MaxIdle
                      \/ Ahead(timeouts[i].time, clock) < Interval(timeouts[i].h) + 2 * MaxIdle
    BY DEF TimeoutsOnTime
  <2>1. /\ clock \in Times /\ timeouts \in Seq(Timeout) /\ idle \in 0 .. MaxIdle
        /\ check \in Times \cup {NotChecking} /\ TimesInv /\ i \in 1 .. Len(timeouts)
    BY <1>1, StackParts DEF TimeType, StackInv
  <2>2. CASE check = NotChecking
    <3>1. Timely(timeouts, clock, idle)
      BY <2>1, <2>2 DEF TimesInv
    <3>2. Ahead(clock, clock) <= MaxIdle
      BY <2>1, AheadSelf, Bounds
    <3> QED BY <2>1, <3>1, <3>2, TimelyOnTime
  <2>3. CASE check # NotChecking
    <3>1. /\ Timely(timeouts, check, MaxIdle) /\ check \in Times /\ Ahead(clock, check) <= idle
      BY <2>1, <2>3 DEF TimesInv
    <3>2. MaxIdle \in 0 .. MaxIdle
      BY Bounds
    <3>3. Ahead(clock, check) <= MaxIdle
      <4> DEFINE a == Ahead(clock, check)
      <4>1. a \in Times /\ a <= idle
        BY <2>1, <3>1, AheadCases
      <4> HIDE DEF a
      <4>2. a <= MaxIdle
        BY <2>1, <4>1, Bounds DEF Times
      <4> QED BY <4>2 DEF a
    <3> QED BY <2>1, <3>1, <3>2, <3>3, TimelyOnTime
  <2> QED BY <2>2, <2>3
<1> QED BY <1>1, StackInvariance, PTL
=============================================================================
