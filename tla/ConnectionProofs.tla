--------------------------- MODULE ConnectionProofs ---------------------------
(***************************************************************************)
(* What every operation of TFTCPConnection and LwipTcp preserves, proved   *)
(* for all values of the constants.  WorldInv is the invariant of a world  *)
(* between two steps of the packets queue; Step relates the world before   *)
(* an operation to the world after it.  TunForgeTCPProofs lifts both to    *)
(* the behaviours of TunForgeTCP.                                          *)
(*                                                                         *)
(* Some operations pass through worlds that break the invariant: abort and *)
(* gracefulClose clear self.pcb while the connection is still alive, and   *)
(* tcp_input has taken a segment's bytes from the window before it hands   *)
(* them over.  The first are covered by lemmas on terminateLocked and      *)
(* tcp_free with weaker hypotheses, the second by the parameter k of       *)
(* WorldInv: the bytes the window still owes to a segment in processing.   *)
(***************************************************************************)
EXTENDS LwipTcp, TLAPS

\* A connection that may use its pcb, and a pcb whose callbacks lead to it.
Live(w) ==
  /\ w.conn.alive
  /\ w.conn.pcb
  /\ ~w.conn.didNotifyTerminated
  /\ w.conn.state \in {"New", "Active"}
  /\ ~w.conn.pendingClose
  /\ w.pcb.state # "FREED"
  /\ w.pcb.callbacks
  /\ w.conn.refAlive
  /\ w.conn.exists

\* A connection whose termination has been notified.
Dead(w) ==
  /\ ~w.conn.alive
  /\ ~w.conn.pcb
  /\ w.conn.didNotifyTerminated
  /\ w.conn.state = "Closed"
  /\ ~w.conn.pendingClose

\* The flow-control balance of a live connection, but for k bytes of the segment
\* that is being processed.  Without a read handler the bytes of a segment are
\* counted in inflightAckBytes and given back to the window too: then nothing is
\* lost, but the two may count a byte twice.
Owes(w, k) ==
  w.conn.alive /\ w.pcb.state # "TIME_WAIT" =>
    LET sum == w.pcb.rcv_wnd + w.pcb.refused + (IF w.pcb.refusedFin THEN 1 ELSE 0)
                 + w.conn.inflight + k
    IN /\ sum >= TCP_WND
       /\ w.conn.handlers # "noread" => sum = TCP_WND

\* Refused data is the run of one segment, and a FIN is kept only behind it.
RefusedRun(w) ==
  /\ w.pcb.refused <= MaxRun
  /\ w.pcb.refusedFin => w.pcb.refused > 0

\* Nothing was activated before the upper layer set its handlers.
UnsetIsNew(w) == w.conn.alive /\ w.conn.handlers = "unset" => w.conn.state = "New"

\* The backlog slot is returned by activation and with the pcb.
Slot(w) ==
  w.conn.state = "Active" \/ w.pcb.state \in {"TIME_WAIT", "FREED"} => ~w.pcb.backlogpend

\* Before the accept block has run it is alone on the connections queue (without
\* handlers nothing is posted), and afterwards no accept block is posted.
AcceptFirst(w) ==
  IF w.conn.handlers = "unset"
    THEN w.queue = <<[kind |-> "accept", n |-> 0]>>
    ELSE \A i \in 1 .. Len(w.queue) : w.queue[i].kind # "accept"

\* Only a terminated connection has its onTerminated block queued, as the last one.
TerminatedLast(w) ==
  /\ \A i \in 1 .. Len(w.queue) :
       w.queue[i].kind = "terminated" => w.conn.didNotifyTerminated /\ i = Len(w.queue)

\* The invariant of the connections queue.
QueueInv(w) == AcceptFirst(w) /\ TerminatedLast(w)

\* The invariant of a world in which the window owes k bytes.
WorldInv(w, k) ==
  /\ w \in World
  /\ Live(w) \/ Dead(w)
  /\ Owes(w, k)
  /\ RefusedRun(w)
  /\ UnsetIsNew(w)
  /\ Slot(w)
  /\ QueueInv(w)

\* The effect on the rest of the system: an operation sets no handler, deallocates
\* nothing, and on a dead connection posts nothing.
Step(w, v) ==
  /\ v.conn.handlers = w.conn.handlers
  /\ v.conn.exists = w.conn.exists
  /\ Dead(w) => Dead(v) /\ v.queue = w.queue

-----------------------------------------------------------------------------
(* Notifications.                                                          *)

\* The components of a world have their types.
LEMMA Parts ==
  ASSUME NEW w \in World
  PROVE  /\ w.conn \in Conn
         /\ w.pcb \in Pcb
         /\ w.queue \in Seq(Block)
         /\ w.pbufs \in Int
         /\ w.stale \in BOOLEAN
         /\ w.dropped \in Nat
BY DEF World

\* Post changes the queue only, by one block at its end.
LEMMA PostLemma ==
  ASSUME NEW w \in World, NEW kind \in BlockKinds, NEW n \in Nat
  PROVE  /\ Post(w, kind, n) \in World
         /\ Post(w, kind, n).conn = w.conn
         /\ Post(w, kind, n).pcb = w.pcb
         /\ kind # "accept" /\ AcceptFirst(w) => AcceptFirst(Post(w, kind, n))
         /\ (\A i \in 1 .. Len(w.queue) : w.queue[i].kind # "terminated")
            /\ (kind = "terminated" => w.conn.didNotifyTerminated)
             => TerminatedLast(Post(w, kind, n))
<1> DEFINE b == [kind |-> kind, n |-> n]
           q == Append(w.queue, b)
<1>1. b \in Block /\ b.kind = kind
  BY DEF Block
<1>2. w.queue \in Seq(Block)
  BY Parts
<1>3. q \in Seq(Block)
  BY <1>1, <1>2
<1>4. /\ Len(q) = Len(w.queue) + 1
      /\ \A i \in 1 .. Len(w.queue) : q[i] = w.queue[i]
      /\ q[Len(q)] = b
  BY <1>1, <1>2
<1>5. Len(w.queue) \in Nat
  BY <1>2
<1> HIDE DEF q, b
<1>6. Post(w, kind, n) = IF w.conn.handlers = "unset" THEN w ELSE [w EXCEPT !.queue = q]
  BY DEF Post, q, b
<1>7. [w EXCEPT !.queue = q] \in World
  BY <1>3 DEF World
<1>8. /\ [w EXCEPT !.queue = q].conn = w.conn
      /\ [w EXCEPT !.queue = q].pcb = w.pcb
      /\ [w EXCEPT !.queue = q].queue = q
  BY DEF World
<1>9. ASSUME kind # "accept", AcceptFirst(w)
      PROVE  AcceptFirst(Post(w, kind, n))
  <2>1. CASE w.conn.handlers = "unset"
    BY <1>6, <1>9, <2>1
  <2>2. CASE w.conn.handlers # "unset"
    <3>1. \A i \in 1 .. Len(q) : q[i].kind # "accept"
      BY <1>1, <1>4, <1>5, <1>9, <2>2 DEF AcceptFirst
    <3> QED BY <1>6, <1>8, <2>2, <3>1 DEF AcceptFirst
  <2> QED BY <2>1, <2>2
<1>10. ASSUME \A i \in 1 .. Len(w.queue) : w.queue[i].kind # "terminated",
              kind = "terminated" => w.conn.didNotifyTerminated
       PROVE  TerminatedLast(Post(w, kind, n))
  <2>1. CASE w.conn.handlers = "unset"
    BY <1>6, <1>10, <2>1 DEF TerminatedLast
  <2>2. CASE w.conn.handlers # "unset"
    <3>1. \A i \in 1 .. Len(q) : q[i].kind = "terminated" => w.conn.didNotifyTerminated /\ i = Len(q)
      BY <1>1, <1>4, <1>5, <1>10
    <3> QED BY <1>6, <1>8, <2>2, <3>1 DEF TerminatedLast
  <2> QED BY <2>1, <2>2
<1> QED BY <1>6, <1>7, <1>8, <1>9, <1>10

\* Posting a block other than accept and terminated for a live connection.
LEMMA PostInv ==
  ASSUME NEW w, NEW k \in Nat, NEW kind \in BlockKinds \ {"accept", "terminated"}, NEW n \in Nat,
         WorldInv(w, k), w.conn.alive
  PROVE  WorldInv(Post(w, kind, n), k) /\ Step(w, Post(w, kind, n))
<1> DEFINE v == Post(w, kind, n)
<1>1. \A i \in 1 .. Len(w.queue) : w.queue[i].kind # "terminated"
  BY DEF WorldInv, Live, Dead, QueueInv, TerminatedLast
<1>2. /\ w \in World
      /\ kind \in BlockKinds
      /\ kind # "accept"
      /\ kind # "terminated"
      /\ AcceptFirst(w)
  BY DEF WorldInv, QueueInv
<1>3. /\ v \in World
      /\ v.conn = w.conn
      /\ v.pcb = w.pcb
      /\ AcceptFirst(v)
      /\ TerminatedLast(v)
  BY <1>1, <1>2, PostLemma
<1> HIDE DEF v
<1>4. WorldInv(v, k)
  BY <1>3 DEF WorldInv, QueueInv, Live, Dead, Owes, RefusedRun, UnsetIsNew, Slot
<1>5. Step(w, v)
  BY <1>3 DEF Step, Dead
<1> QED BY <1>4, <1>5 DEF v

\* Two connections agree on every field the invariant depends on.
Agree(c, d) ==
  /\ d.alive = c.alive
  /\ d.pcb = c.pcb
  /\ d.didNotifyTerminated = c.didNotifyTerminated
  /\ d.state = c.state
  /\ d.pendingClose = c.pendingClose
  /\ d.refAlive = c.refAlive
  /\ d.exists = c.exists
  /\ d.inflight = c.inflight
  /\ d.handlers = c.handlers

\* Changes of conn outside Agree, of pbufs, stale and dropped preserve the invariant.
LEMMA AgreeInv ==
  ASSUME NEW w, NEW v, NEW k \in Nat, WorldInv(w, k),
         v \in World, v.pcb = w.pcb, v.queue = w.queue, Agree(w.conn, v.conn)
  PROVE  WorldInv(v, k) /\ Step(w, v)
BY DEF Agree, WorldInv, QueueInv, AcceptFirst, TerminatedLast, Live, Dead, Owes, RefusedRun,
       UnsetIsNew, Slot, Step

\* Steps compose.
LEMMA StepTrans ==
  ASSUME NEW u, NEW v, NEW w, Step(u, v), Step(v, w)
  PROVE  Step(u, w)
BY DEF Step

\* Doing nothing is a step.
LEMMA StepRefl ==
  ASSUME NEW w
  PROVE  Step(w, w)
BY DEF Step

\* The invariant of the queue depends on the queue and two fields of conn.
LEMMA QueueFrame ==
  ASSUME NEW w, NEW v, QueueInv(w), v.queue = w.queue, v.conn.handlers = w.conn.handlers,
         v.conn.didNotifyTerminated = w.conn.didNotifyTerminated
  PROVE  QueueInv(v)
BY DEF QueueInv, AcceptFirst, TerminatedLast

\* updateWritableLocked preserves the invariant and the pcb.
LEMMA UpdateWritable ==
  ASSUME NEW w, NEW k \in Nat, NEW x \in BOOLEAN, WorldInv(w, k), w.conn.alive
  PROVE  /\ WorldInv(updateWritableLocked(w, x), k)
         /\ Step(w, updateWritableLocked(w, x))
         /\ updateWritableLocked(w, x).pcb = w.pcb
         /\ updateWritableLocked(w, x).conn.alive
         /\ ~updateWritableLocked(w, x).conn.pendingClose
<1> DEFINE v == [w EXCEPT !.conn.writable = x]
           n == IF x THEN 1 ELSE 0
<1>1. w \in World
  BY DEF WorldInv
<1>2. v \in World /\ v.pcb = w.pcb /\ v.queue = w.queue /\ Agree(w.conn, v.conn)
  BY <1>1 DEF World, Conn, Agree
<1>3. n \in Nat /\ "writable" \in BlockKinds \ {"accept", "terminated"}
  BY DEF BlockKinds
<1> HIDE DEF v, n
<1>4. WorldInv(v, k) /\ Step(w, v) /\ v.conn.alive
  BY <1>2, AgreeInv DEF Agree
<1>5. WorldInv(Post(v, "writable", n), k) /\ Step(v, Post(v, "writable", n))
  BY <1>3, <1>4, PostInv
<1>6. Post(v, "writable", n).pcb = w.pcb /\ Post(v, "writable", n).conn = v.conn
  BY <1>2, <1>3, PostLemma
<1>7. Step(w, Post(v, "writable", n))
  BY <1>4, <1>5, StepTrans
<1>8. ~w.conn.pendingClose /\ ~v.conn.pendingClose
  BY <1>4 DEF WorldInv, Live, Dead
<1>9. updateWritableLocked(w, x) = IF w.conn.writable = x THEN w ELSE Post(v, "writable", n)
  BY DEF updateWritableLocked, v, n
<1> QED BY <1>4, <1>5, <1>6, <1>7, <1>8, <1>9, StepRefl

\* handlePeerFINLocked preserves the invariant and the pcb.
LEMMA HandlePeerFIN ==
  ASSUME NEW w, NEW k \in Nat, WorldInv(w, k), w.conn.alive
  PROVE  /\ WorldInv(handlePeerFINLocked(w), k)
         /\ Step(w, handlePeerFINLocked(w))
         /\ handlePeerFINLocked(w).pcb = w.pcb
<1> DEFINE v == [w EXCEPT !.conn.readEOF = TRUE]
<1>1. w \in World
  BY DEF WorldInv
<1>2. v \in World /\ v.pcb = w.pcb /\ v.queue = w.queue /\ Agree(w.conn, v.conn)
  BY <1>1 DEF World, Conn, Agree
<1>3. 0 \in Nat /\ "eof" \in BlockKinds \ {"accept", "terminated"}
  BY DEF BlockKinds
<1> HIDE DEF v
<1>4. WorldInv(v, k) /\ Step(w, v) /\ v.conn.alive
  BY <1>2, AgreeInv DEF Agree
<1>5. WorldInv(Post(v, "eof", 0), k) /\ Step(v, Post(v, "eof", 0))
  BY <1>3, <1>4, PostInv
<1>6. Post(v, "eof", 0).pcb = w.pcb
  BY <1>2, <1>3, PostLemma
<1>7. Step(w, Post(v, "eof", 0))
  BY <1>4, <1>5, StepTrans
<1>8. handlePeerFINLocked(w) = IF w.conn.readEOF THEN w ELSE Post(v, "eof", 0)
  BY DEF handlePeerFINLocked, v
<1> QED BY <1>5, <1>6, <1>7, <1>8, StepRefl

\* terminateLocked on a connection that let go of its pcb: it is dead, and its last
\* block is posted.
LEMMA TerminateLemma ==
  ASSUME NEW w \in World, NEW reason \in Reasons, QueueInv(w), ~w.conn.pcb,
         ~w.conn.didNotifyTerminated
  PROVE  LET v == terminateLocked(w, reason) IN
         /\ v \in World
         /\ Dead(v)
         /\ QueueInv(v)
         /\ v.pcb = w.pcb
         /\ v.conn.exists = w.conn.exists
         /\ v.conn.handlers = w.conn.handlers
<1> DEFINE u == [w EXCEPT !.conn.didNotifyTerminated = TRUE, !.conn.alive = FALSE,
                          !.conn.state = "Closed", !.conn.reason = reason,
                          !.conn.pendingClose = FALSE]
<1>1. /\ u \in World
      /\ u.pcb = w.pcb
      /\ u.queue = w.queue
      /\ u.conn.exists = w.conn.exists
      /\ u.conn.handlers = w.conn.handlers
      /\ u.conn.didNotifyTerminated
      /\ Dead(u)
  BY ZenonT(60) DEF World, Conn, ConnStates, Dead
<1> HIDE DEF u
<1>2. \A i \in 1 .. Len(u.queue) : u.queue[i].kind # "terminated"
  BY <1>1 DEF QueueInv, TerminatedLast
<1>3. AcceptFirst(u)
  BY <1>1 DEF QueueInv, AcceptFirst
<1>4. 0 \in Nat /\ "terminated" \in BlockKinds
  BY DEF BlockKinds
<1>5. /\ Post(u, "terminated", 0) \in World
      /\ Post(u, "terminated", 0).conn = u.conn
      /\ Post(u, "terminated", 0).pcb = u.pcb
      /\ AcceptFirst(Post(u, "terminated", 0))
      /\ TerminatedLast(Post(u, "terminated", 0))
  BY <1>1, <1>2, <1>3, <1>4, PostLemma
<1>6. terminateLocked(w, reason) = Post(u, "terminated", 0)
  BY DEF terminateLocked, Terminated, u
<1> QED BY <1>1, <1>5, <1>6 DEF Dead, QueueInv

\* The ext arg's destroy callback terminates a connection that its ref leads to and
\* that was not terminated before; otherwise it only invalidates the ref.
LEMMA ExtargDestroy ==
  ASSUME NEW w \in World, QueueInv(w)
  PROVE  LET v == tf_tcp_extarg_destroy(w) IN
         /\ v \in World
         /\ QueueInv(v)
         /\ v.pcb = w.pcb
         /\ v.conn.exists = w.conn.exists
         /\ v.conn.handlers = w.conn.handlers
         /\ w.conn.didNotifyTerminated \/ ~w.conn.refAlive =>
              v.conn = [w.conn EXCEPT !.refAlive = FALSE] /\ v.queue = w.queue
         /\ w.conn.refAlive /\ w.conn.exists /\ ~w.conn.didNotifyTerminated => Dead(v)
<1> DEFINE i == [w EXCEPT !.conn.refAlive = FALSE]
           u == [i EXCEPT !.conn.pcb = FALSE]
<1>1. /\ i \in World
      /\ i.pcb = w.pcb
      /\ i.queue = w.queue
      /\ i.conn = [w.conn EXCEPT !.refAlive = FALSE]
      /\ i.conn.exists = w.conn.exists
      /\ i.conn.handlers = w.conn.handlers
      /\ i.conn.didNotifyTerminated = w.conn.didNotifyTerminated
  BY DEF World, Conn
<1> HIDE DEF i
<1>2. /\ u \in World
      /\ u.pcb = w.pcb
      /\ u.queue = w.queue
      /\ u.conn.exists = w.conn.exists
      /\ u.conn.handlers = w.conn.handlers
      /\ u.conn.didNotifyTerminated = w.conn.didNotifyTerminated
      /\ ~u.conn.pcb
  BY <1>1, ZenonT(60) DEF World, Conn
<1> HIDE DEF u
<1>3. QueueInv(i) /\ QueueInv(u)
  BY <1>1, <1>2 DEF QueueInv, AcceptFirst, TerminatedLast
<1>4. tf_tcp_extarg_destroy(w) =
        IF w.conn.refAlive /\ w.conn.exists
          THEN IF i.conn.didNotifyTerminated THEN i ELSE terminateLocked(u, "Destroyed")
          ELSE i
  BY DEF tf_tcp_extarg_destroy, receivedPcbDestroyed, i, u
<1>5. CASE w.conn.refAlive /\ w.conn.exists /\ ~w.conn.didNotifyTerminated
  <2> DEFINE v == terminateLocked(u, "Destroyed")
  <2>1. "Destroyed" \in Reasons
    BY DEF Reasons
  <2>2. /\ v \in World
        /\ Dead(v)
        /\ QueueInv(v)
        /\ v.pcb = u.pcb
        /\ v.conn.exists = u.conn.exists
        /\ v.conn.handlers = u.conn.handlers
    BY <1>2, <1>3, <1>5, <2>1, TerminateLemma
  <2>3. tf_tcp_extarg_destroy(w) = v
    BY <1>1, <1>4, <1>5
  <2> QED BY <1>2, <1>5, <2>2, <2>3
<1>6. CASE ~(w.conn.refAlive /\ w.conn.exists /\ ~w.conn.didNotifyTerminated)
  <2>1. tf_tcp_extarg_destroy(w) = i
    BY <1>1, <1>4, <1>6
  <2> QED BY <1>1, <1>3, <1>6, <2>1
<1> QED BY <1>5, <1>6

\* A freed block keeps what lives outside it.
LEMMA MempFree ==
  ASSUME NEW p \in Pcb
  PROVE  /\ memp_free(p) \in Pcb
         /\ memp_free(p).state = "FREED"
         /\ memp_free(p).backlogpend = p.backlogpend
         /\ memp_free(p).refused = p.refused
         /\ memp_free(p).refusedFin = p.refusedFin
<1>1. 0 \in 0 .. TCP_WND /\ 0 \in 0 .. TCP_SND_BUF
  BY LwipAssumption
<1>2. "FREED" \in PcbStates
  BY DEF PcbStates
<1> QED BY <1>1, <1>2 DEF memp_free, Pcb

\* tcp_free, from any world: the pcb is freed and the ext arg destroyed.
LEMMA FreeLemma ==
  ASSUME NEW w \in World, QueueInv(w)
  PROVE  LET v == tcp_free(w) IN
         /\ v \in World
         /\ QueueInv(v)
         /\ v.pcb.state = "FREED"
         /\ v.pcb.backlogpend = w.pcb.backlogpend
         /\ v.pcb.refused = w.pcb.refused
         /\ v.pcb.refusedFin = w.pcb.refusedFin
         /\ v.conn.exists = w.conn.exists
         /\ v.conn.handlers = w.conn.handlers
         /\ w.conn.didNotifyTerminated \/ ~w.conn.refAlive =>
              v.conn = [w.conn EXCEPT !.refAlive = FALSE] /\ v.queue = w.queue
         /\ w.conn.refAlive /\ w.conn.exists /\ ~w.conn.didNotifyTerminated => Dead(v)
<1> DEFINE d == tf_tcp_extarg_destroy(w)
           v == [d EXCEPT !.pcb = memp_free(d.pcb)]
<1>1. /\ d \in World
      /\ QueueInv(d)
      /\ d.pcb = w.pcb
      /\ d.conn.exists = w.conn.exists
      /\ d.conn.handlers = w.conn.handlers
      /\ w.conn.didNotifyTerminated \/ ~w.conn.refAlive =>
           d.conn = [w.conn EXCEPT !.refAlive = FALSE] /\ d.queue = w.queue
      /\ w.conn.refAlive /\ w.conn.exists /\ ~w.conn.didNotifyTerminated => Dead(d)
  BY ExtargDestroy
<1> HIDE DEF d
<1>2. /\ memp_free(d.pcb) \in Pcb
      /\ memp_free(d.pcb).state = "FREED"
      /\ memp_free(d.pcb).backlogpend = d.pcb.backlogpend
      /\ memp_free(d.pcb).refused = d.pcb.refused
      /\ memp_free(d.pcb).refusedFin = d.pcb.refusedFin
  <2>1. d.pcb \in Pcb
    BY <1>1, Parts
  <2> QED BY <2>1, MempFree
<1>3. /\ v \in World
      /\ v.conn = d.conn
      /\ v.queue = d.queue
      /\ v.pcb = memp_free(d.pcb)
  BY <1>1, <1>2 DEF World
<1>4. QueueInv(v)
  BY <1>1, <1>3 DEF QueueInv, AcceptFirst, TerminatedLast
<1>5. tcp_free(w) = v
  BY DEF tcp_free, d
<1> HIDE DEF v
<1> QED BY <1>1, <1>2, <1>3, <1>4, <1>5 DEF Dead

\* A dead connection whose pcb has returned its slot satisfies the invariant.
LEMMA DeadInv ==
  ASSUME NEW v \in World, NEW k, Dead(v), QueueInv(v), RefusedRun(v), ~v.pcb.backlogpend
  PROVE  WorldInv(v, k)
BY DEF WorldInv, Dead, Owes, UnsetIsNew, Slot

\* tcp_pcb_purge returns the slot and drops refused data, or changes nothing.
LEMMA PurgeLemma ==
  ASSUME NEW p \in Pcb
  PROVE  LET q == tcp_pcb_purge(p) IN
         /\ q \in Pcb
         /\ q.state = p.state
         /\ q.callbacks = p.callbacks
         /\ q.rxclosed = p.rxclosed
         /\ q.rcv_wnd = p.rcv_wnd
         /\ q.snd_buf = p.snd_buf
         /\ (p.state \in {"TIME_WAIT", "FREED"} => ~p.backlogpend) => ~q.backlogpend
         /\ (p.refusedFin => p.refused > 0) => (q.refusedFin => q.refused > 0)
         /\ p.refused <= MaxRun => q.refused <= MaxRun
<1>1. 0 \in 0 .. TCP_WND /\ 0 <= MaxRun
  BY LwipAssumption
<1>2. CASE p.state \in ActiveStates
  BY <1>1, <1>2 DEF tcp_pcb_purge, Pcb
<1>3. CASE p.state \notin ActiveStates
  <2>1. p.state \in {"TIME_WAIT", "FREED"} /\ tcp_pcb_purge(p) = p
    BY <1>3 DEF tcp_pcb_purge, Pcb, PcbStates
  <2> QED BY <2>1
<1> QED BY <1>2, <1>3

-----------------------------------------------------------------------------
(* The ways a pcb ends.                                                    *)

\* Purging and freeing the pcb, the way lwIP removes it, leaves a dead connection.
LEMMA FreeInv ==
  ASSUME NEW w, NEW k, NEW j, WorldInv(w, k)
  PROVE  LET v == tcp_free([w EXCEPT !.pcb = tcp_pcb_purge(w.pcb)]) IN
         /\ WorldInv(v, j)
         /\ Step(w, v)
         /\ Dead(v)
         /\ v.pcb.state = "FREED"
<1> DEFINE u == [w EXCEPT !.pcb = tcp_pcb_purge(w.pcb)]
           v == tcp_free(u)
<1>1. w \in World /\ w.pcb \in Pcb /\ QueueInv(w)
  BY Parts DEF WorldInv
<1>2. /\ tcp_pcb_purge(w.pcb) \in Pcb
      /\ ~tcp_pcb_purge(w.pcb).backlogpend
      /\ tcp_pcb_purge(w.pcb).refusedFin => tcp_pcb_purge(w.pcb).refused > 0
      /\ tcp_pcb_purge(w.pcb).refused <= MaxRun
  BY <1>1, PurgeLemma DEF WorldInv, Slot, RefusedRun
<1>3. /\ u \in World
      /\ u.conn = w.conn
      /\ u.queue = w.queue
      /\ u.pcb = tcp_pcb_purge(w.pcb)
  BY <1>1, <1>2 DEF World
<1> HIDE DEF u
<1>4. QueueInv(u)
  BY <1>1, <1>3 DEF QueueInv, AcceptFirst, TerminatedLast
<1>5. /\ v \in World
      /\ QueueInv(v)
      /\ v.pcb.state = "FREED"
      /\ v.pcb.backlogpend = u.pcb.backlogpend
      /\ v.pcb.refused = u.pcb.refused
      /\ v.pcb.refusedFin = u.pcb.refusedFin
      /\ v.conn.exists = u.conn.exists
      /\ v.conn.handlers = u.conn.handlers
      /\ u.conn.didNotifyTerminated \/ ~u.conn.refAlive =>
           v.conn = [u.conn EXCEPT !.refAlive = FALSE] /\ v.queue = u.queue
      /\ u.conn.refAlive /\ u.conn.exists /\ ~u.conn.didNotifyTerminated => Dead(v)
  BY <1>3, <1>4, FreeLemma
<1> HIDE DEF v
<1>6. Dead(w) => Dead(v) /\ v.queue = w.queue
  <2>1. w.conn \in Conn
    BY <1>1, Parts
  <2> QED BY <1>3, <1>5, <2>1 DEF Dead, Conn
<1>7. Dead(v)
  BY <1>3, <1>5, <1>6 DEF WorldInv, Live
<1>8. Step(w, v)
  BY <1>3, <1>5, <1>6 DEF Step
<1>9. WorldInv(v, j)
  BY <1>2, <1>3, <1>5, <1>7, DeadInv DEF RefusedRun
<1> QED BY <1>5, <1>7, <1>8, <1>9 DEF u, v

\* In TIME_WAIT the pcb is freed without a purge, which would change nothing.
LEMMA FreeInvTimeWait ==
  ASSUME NEW w, NEW k, NEW j, WorldInv(w, k), w.pcb.state = "TIME_WAIT"
  PROVE  WorldInv(tcp_free(w), j) /\ Step(w, tcp_free(w)) /\ Dead(tcp_free(w))
<1>1. w \in World
  BY DEF WorldInv
<1>2. tcp_pcb_purge(w.pcb) = w.pcb
  BY DEF tcp_pcb_purge, ActiveStates
<1>3. [w EXCEPT !.pcb = tcp_pcb_purge(w.pcb)] = w
  BY <1>1, <1>2 DEF World
<1> QED BY <1>3, FreeInv

\* tf_tcp_err terminates the connection and leaves the pcb alone.
LEMMA ErrInv ==
  ASSUME NEW w, NEW k \in Nat, NEW err, WorldInv(w, k)
  PROVE  LET v == tf_tcp_err(w, err) IN
         /\ WorldInv(v, k)
         /\ Step(w, v)
         /\ v.pcb = w.pcb
<1> DEFINE u == [w EXCEPT !.conn.pcb = FALSE]
           reason == IF err = "ERR_RST" THEN "Reset" ELSE "Abort"
           v == terminateLocked(u, reason)
<1>1. CASE ~(w.conn.refAlive /\ w.conn.exists /\ w.conn.alive)
  BY <1>1, StepRefl DEF tf_tcp_err
<1>2. CASE w.conn.refAlive /\ w.conn.exists /\ w.conn.alive
  <2>1. w \in World /\ QueueInv(w) /\ Live(w)
    BY <1>2 DEF WorldInv, Dead
  <2>2. /\ u \in World
        /\ u.pcb = w.pcb
        /\ u.queue = w.queue
        /\ ~u.conn.pcb
        /\ ~u.conn.didNotifyTerminated
        /\ u.conn.didNotifyTerminated = w.conn.didNotifyTerminated
        /\ u.conn.exists = w.conn.exists
        /\ u.conn.handlers = w.conn.handlers
    BY <2>1 DEF World, Conn, Live
  <2>3. reason \in Reasons
    BY DEF Reasons
  <2>4. tf_tcp_err(w, err) = v
    BY <1>2 DEF tf_tcp_err
  <2> HIDE DEF u, reason
  <2>5. QueueInv(u)
    BY <2>1, <2>2 DEF QueueInv, AcceptFirst, TerminatedLast
  <2>6. /\ v \in World
        /\ Dead(v)
        /\ QueueInv(v)
        /\ v.pcb = u.pcb
        /\ v.conn.exists = u.conn.exists
        /\ v.conn.handlers = u.conn.handlers
    BY <2>2, <2>3, <2>5, TerminateLemma
  <2> HIDE DEF v
  <2>7. Step(w, v)
    BY <1>2, <2>2, <2>6 DEF Step, Dead
  <2>8. WorldInv(v, k)
    BY <2>2, <2>6 DEF WorldInv, Dead, Owes, RefusedRun, UnsetIsNew, Slot
  <2> QED BY <2>2, <2>4, <2>6, <2>7, <2>8
<1> QED BY <1>1, <1>2

\* A call of errf, also one with a stale arg, preserves the invariant.
LEMMA EventErrInv ==
  ASSUME NEW w, NEW k \in Nat, NEW errf, NEW err, WorldInv(w, k)
  PROVE  LET v == TCP_EVENT_ERR(w, errf, err) IN
         /\ WorldInv(v, k)
         /\ Step(w, v)
         /\ v.pcb = w.pcb
<1> DEFINE s == [w EXCEPT !.stale = TRUE]
<1>1. w \in World
  BY DEF WorldInv
<1>2. s \in World /\ s.conn = w.conn /\ s.pcb = w.pcb /\ s.queue = w.queue
  BY <1>1 DEF World
<1>3. WorldInv(s, k) /\ Step(w, s)
  BY <1>2, AgreeInv DEF Agree
<1> QED BY <1>2, <1>3, ErrInv, StepRefl DEF TCP_EVENT_ERR

\* tcp_abandon (tcp_abort) preserves the invariant whatever the window owed.
LEMMA AbandonInv ==
  ASSUME NEW w, NEW k, NEW j \in Nat, WorldInv(w, k)
  PROVE  WorldInv(tcp_abandon(w), j) /\ Step(w, tcp_abandon(w))
<1> DEFINE u == tcp_free([w EXCEPT !.pcb = tcp_pcb_purge(w.pcb)])
           v == TCP_EVENT_ERR(u, w.pcb.callbacks, "ERR_ABRT")
<1>1. WorldInv(u, j) /\ Step(w, u)
  BY FreeInv
<1>2. tcp_abandon(w) = IF w.pcb.state = "TIME_WAIT" THEN tcp_free(w) ELSE v
  BY DEF tcp_abandon
<1> HIDE DEF u
<1>3. WorldInv(v, j) /\ Step(w, v)
  BY <1>1, EventErrInv, StepTrans
<1> QED BY <1>2, <1>3, FreeInvTimeWait

\* The removal in tcp_slowtmr preserves the invariant.
LEMMA SlowtmrRemoveInv ==
  ASSUME NEW w, NEW k, NEW j \in Nat, WorldInv(w, k)
  PROVE  WorldInv(tcp_slowtmr_remove(w), j) /\ Step(w, tcp_slowtmr_remove(w))
<1> DEFINE u == tcp_free([w EXCEPT !.pcb = tcp_pcb_purge(w.pcb)])
<1>1. WorldInv(u, j) /\ Step(w, u)
  BY FreeInv
<1>2. tcp_slowtmr_remove(w) = TCP_EVENT_ERR(u, w.pcb.callbacks, "ERR_ABRT")
  BY DEF tcp_slowtmr_remove
<1> HIDE DEF u
<1> QED BY <1>1, <1>2, EventErrInv, StepTrans

\* abortLocked preserves the invariant: between clearing self.pcb and terminateLocked
\* no callback reaches the connection.
LEMMA AbortInv ==
  ASSUME NEW w, NEW k \in Nat, NEW reason \in Reasons, WorldInv(w, k)
  PROVE  WorldInv(abortLocked(w, reason), k) /\ Step(w, abortLocked(w, reason))
<1>1. CASE ~w.conn.alive \/ w.conn.state = "Closed"
  BY <1>1, StepRefl DEF abortLocked
<1>2. CASE w.conn.alive /\ w.conn.state # "Closed"
  <2> DEFINE c == [w EXCEPT !.conn.state = "Closing"]
             u == [clearCallbackLocked(c) EXCEPT !.conn.pcb = FALSE]
             f == [u EXCEPT !.pcb = tcp_pcb_purge(u.pcb)]
             a == tcp_abandon(u)
             v == terminateLocked(a, reason)
  <2>1. /\ w \in World
        /\ w.pcb \in Pcb
        /\ Live(w)
        /\ QueueInv(w)
        /\ w.pcb.state \in {"TIME_WAIT", "FREED"} => ~w.pcb.backlogpend
        /\ w.pcb.refusedFin => w.pcb.refused > 0
        /\ w.pcb.refused <= MaxRun
    BY <1>2, Parts DEF WorldInv, Dead, Slot, RefusedRun
  <2>2. /\ c \in World
        /\ c.conn.pcb
        /\ c.pcb = w.pcb
        /\ c.queue = w.queue
        /\ ~c.conn.didNotifyTerminated
        /\ c.conn.exists = w.conn.exists
        /\ c.conn.handlers = w.conn.handlers
    BY <2>1 DEF World, Conn, ConnStates, Live
  <2>3. abortLocked(w, reason) = v
    BY <1>2, <2>2 DEF abortLocked
  <2> HIDE DEF c
  <2>4. /\ u \in World
        /\ u.pcb = [w.pcb EXCEPT !.callbacks = FALSE]
        /\ u.queue = w.queue
        /\ ~u.conn.pcb
        /\ ~u.conn.refAlive
        /\ ~u.conn.didNotifyTerminated
        /\ u.conn.exists = w.conn.exists
        /\ u.conn.handlers = w.conn.handlers
    BY <2>2, ZenonT(60) DEF clearCallbackLocked, World, Conn, Pcb
  <2> HIDE DEF u
  <2>5. /\ u.pcb \in Pcb
        /\ u.pcb.state = w.pcb.state
        /\ ~u.pcb.callbacks
        /\ u.pcb.backlogpend = w.pcb.backlogpend
        /\ u.pcb.refused = w.pcb.refused
        /\ u.pcb.refusedFin = w.pcb.refusedFin
    BY <2>1, <2>4 DEF Pcb
  <2>6. QueueInv(u)
    BY <2>1, <2>4 DEF QueueInv, AcceptFirst, TerminatedLast, Live
  <2>7. /\ tcp_pcb_purge(u.pcb) \in Pcb
        /\ ~tcp_pcb_purge(u.pcb).backlogpend
        /\ tcp_pcb_purge(u.pcb).refusedFin => tcp_pcb_purge(u.pcb).refused > 0
        /\ tcp_pcb_purge(u.pcb).refused <= MaxRun
    BY <2>1, <2>5, PurgeLemma
  <2>8. /\ f \in World
        /\ f.conn = u.conn
        /\ f.queue = u.queue
        /\ f.pcb = tcp_pcb_purge(u.pcb)
    BY <2>4, <2>7 DEF World
  <2>9. a = IF u.pcb.state = "TIME_WAIT" THEN tcp_free(u) ELSE tcp_free(f)
    BY <2>5 DEF tcp_abandon, TCP_EVENT_ERR
  <2> HIDE DEF f
  <2>10. u.pcb.state = "TIME_WAIT" => ~u.pcb.backlogpend
    BY <2>1, <2>5
  <2>11. QueueInv(f)
    BY <2>6, <2>8 DEF QueueInv, AcceptFirst, TerminatedLast
  <2>12. PICK x \in {u, f} :
           /\ a = tcp_free(x)
           /\ ~x.pcb.backlogpend
    BY <2>7, <2>8, <2>9, <2>10
  <2>13. /\ x \in World
         /\ QueueInv(x)
         /\ x.conn = u.conn
         /\ x.queue = u.queue
         /\ x.pcb.refusedFin => x.pcb.refused > 0
         /\ x.pcb.refused <= MaxRun
    BY <2>1, <2>4, <2>5, <2>6, <2>7, <2>8, <2>11, <2>12
  <2>14. /\ a \in World
         /\ QueueInv(a)
         /\ a.pcb.backlogpend = x.pcb.backlogpend
         /\ a.pcb.refused = x.pcb.refused
         /\ a.pcb.refusedFin = x.pcb.refusedFin
         /\ a.conn.exists = u.conn.exists
         /\ a.conn.handlers = u.conn.handlers
         /\ a.conn = [u.conn EXCEPT !.refAlive = FALSE]
    BY <2>4, <2>12, <2>13, FreeLemma
  <2> HIDE DEF a
  <2>15. ~a.conn.pcb /\ ~a.conn.didNotifyTerminated
    BY <2>4, <2>14, Parts DEF Conn
  <2>16. /\ v \in World
         /\ Dead(v)
         /\ QueueInv(v)
         /\ v.pcb = a.pcb
         /\ v.conn.exists = a.conn.exists
         /\ v.conn.handlers = a.conn.handlers
    BY <2>14, <2>15, TerminateLemma
  <2> HIDE DEF v
  <2>17. WorldInv(v, k)
    BY <2>12, <2>13, <2>14, <2>16, DeadInv DEF RefusedRun
  <2>18. Step(w, v)
    BY <1>2, <2>4, <2>14, <2>16 DEF Step, Dead
  <2> QED BY <2>3, <2>17, <2>18
<1> QED BY <1>1, <1>2

\* Queueing our FIN, or failing to, changes the state and TF_CLOSEPEND only.
LEMMA FinLemma ==
  ASSUME NEW p \in Pcb, NEW nomem
  PROVE  LET q == tcp_close_shutdown_fin(p, nomem) IN
         /\ q \in Pcb
         /\ q.state = "FREED" <=> p.state = "FREED"
         /\ q.state = "TIME_WAIT" <=> p.state = "TIME_WAIT"
         /\ q.callbacks = p.callbacks
         /\ q.backlogpend = p.backlogpend
         /\ q.rcv_wnd = p.rcv_wnd
         /\ q.snd_buf = p.snd_buf
         /\ q.refused = p.refused
         /\ q.refusedFin = p.refusedFin
<1>1. CASE p.state \notin {"ESTABLISHED", "CLOSE_WAIT"}
  BY <1>1 DEF tcp_close_shutdown_fin
<1>2. CASE p.state \in {"ESTABLISHED", "CLOSE_WAIT"}
  <2> DEFINE st == IF p.state = "ESTABLISHED" THEN "FIN_WAIT_1" ELSE "LAST_ACK"
  <2>1. st \in PcbStates /\ st \in {"FIN_WAIT_1", "LAST_ACK"}
    BY DEF PcbStates, ActiveStates
  <2>2. tcp_close_shutdown_fin(p, nomem) =
          IF nomem THEN [p EXCEPT !.closepend = TRUE] ELSE [p EXCEPT !.state = st]
    BY <1>2 DEF tcp_close_shutdown_fin
  <2> HIDE DEF st
  <2>3. CASE nomem
    BY <1>2, <2>2, <2>3, ZenonT(60) DEF Pcb
  <2>4. CASE ~nomem
    BY <1>2, <2>1, <2>2, <2>4 DEF Pcb
  <2> QED BY <2>3, <2>4
<1> QED BY <1>1, <1>2

\* tryGracefulCloseLocked preserves the invariant, also when tcp_close frees the pcb
\* and its ext arg has already terminated the connection.
LEMMA GracefulCloseLocked ==
  ASSUME NEW w, NEW k \in Nat, NEW nomem \in BOOLEAN, WorldInv(w, k)
  PROVE  LET v == tryGracefulCloseLocked(w, nomem) IN WorldInv(v, k) /\ Step(w, v)
<1>1. CASE ~w.conn.alive \/ w.conn.state = "Closed"
  BY <1>1, StepRefl DEF tryGracefulCloseLocked
<1>2. CASE w.conn.alive /\ w.conn.state # "Closed"
  <2> DEFINE c == [w EXCEPT !.conn.state = "Closing"]
             p == [c.pcb EXCEPT !.rxclosed = TRUE]
             t == tcp_close(c, nomem)
             u == [t EXCEPT !.conn.pcb = FALSE, !.conn.pendingClose = FALSE]
             v == terminateLocked(u, "Close")
  <2>1. /\ w \in World
        /\ w.pcb \in Pcb
        /\ Live(w)
        /\ QueueInv(w)
        /\ w.pcb.state \in {"TIME_WAIT", "FREED"} => ~w.pcb.backlogpend
        /\ w.pcb.refusedFin => w.pcb.refused > 0
        /\ w.pcb.refused <= MaxRun
    BY <1>2, Parts DEF WorldInv, Dead, Slot, RefusedRun
  <2>2. /\ c \in World
        /\ c.conn.alive
        /\ c.conn.refAlive
        /\ c.conn.exists
        /\ ~c.conn.didNotifyTerminated
        /\ c.pcb = w.pcb
        /\ c.queue = w.queue
        /\ c.conn.exists = w.conn.exists
        /\ c.conn.handlers = w.conn.handlers
    BY <2>1 DEF World, Conn, ConnStates, Live
  <2>3. tryGracefulCloseLocked(w, nomem) = v
    BY <1>2, <2>1 DEF tryGracefulCloseLocked, tcp_close_err, Live
  <2> HIDE DEF c
  <2>4. QueueInv(c)
    BY <2>1, <2>2 DEF QueueInv, AcceptFirst, TerminatedLast, Live
  <2>5. /\ p \in Pcb
        /\ p.state = w.pcb.state
        /\ p.backlogpend = w.pcb.backlogpend
        /\ p.refused = w.pcb.refused
        /\ p.refusedFin = w.pcb.refusedFin
    BY <2>1, <2>2 DEF Pcb
  <2> HIDE DEF p
  <2>6. /\ t \in World
        /\ QueueInv(t)
        /\ t.conn.exists = w.conn.exists
        /\ t.conn.handlers = w.conn.handlers
        /\ Dead(t) \/ ~t.conn.didNotifyTerminated
        /\ t.pcb.state \in {"TIME_WAIT", "FREED"} => ~t.pcb.backlogpend
        /\ t.pcb.refusedFin => t.pcb.refused > 0
        /\ t.pcb.refused <= MaxRun
    <3>1. CASE /\ p.state \in {"ESTABLISHED", "CLOSE_WAIT"}
               /\ p.refused > 0 \/ p.rcv_wnd # TCP_WND
      <4> DEFINE f == [c EXCEPT !.pcb = tcp_pcb_purge(p)]
      <4>1. t = tcp_free(f)
        BY <3>1 DEF tcp_close, p
      <4>2. /\ tcp_pcb_purge(p) \in Pcb
            /\ ~tcp_pcb_purge(p).backlogpend
            /\ tcp_pcb_purge(p).refusedFin => tcp_pcb_purge(p).refused > 0
            /\ tcp_pcb_purge(p).refused <= MaxRun
        BY <2>1, <2>5, PurgeLemma
      <4>3. /\ f \in World
            /\ f.conn = c.conn
            /\ f.queue = c.queue
            /\ f.pcb = tcp_pcb_purge(p)
        BY <2>2, <4>2 DEF World
      <4> HIDE DEF f, t
      <4>4. QueueInv(f)
        BY <2>4, <4>3 DEF QueueInv, AcceptFirst, TerminatedLast
      <4>5. /\ t \in World
            /\ QueueInv(t)
            /\ t.pcb.backlogpend = f.pcb.backlogpend
            /\ t.pcb.refused = f.pcb.refused
            /\ t.pcb.refusedFin = f.pcb.refusedFin
            /\ t.conn.exists = f.conn.exists
            /\ t.conn.handlers = f.conn.handlers
            /\ Dead(t)
        BY <2>2, <4>1, <4>3, <4>4, FreeLemma
      <4> QED BY <2>2, <4>2, <4>3, <4>5
    <3>2. CASE ~(/\ p.state \in {"ESTABLISHED", "CLOSE_WAIT"}
                 /\ p.refused > 0 \/ p.rcv_wnd # TCP_WND)
      <4> DEFINE q == tcp_close_shutdown_fin(p, nomem)
      <4>1. t = [c EXCEPT !.pcb = q]
        BY <3>2 DEF tcp_close, p
      <4>2. /\ q \in Pcb
            /\ q.state = "FREED" <=> p.state = "FREED"
            /\ q.state = "TIME_WAIT" <=> p.state = "TIME_WAIT"
            /\ q.backlogpend = p.backlogpend
            /\ q.refused = p.refused
            /\ q.refusedFin = p.refusedFin
        BY <2>5, FinLemma
      <4> HIDE DEF q, t
      <4>3. /\ t \in World
            /\ t.conn = c.conn
            /\ t.queue = c.queue
            /\ t.pcb = q
        BY <2>2, <4>1, <4>2 DEF World
      <4>4. QueueInv(t)
        BY <2>4, <4>3 DEF QueueInv, AcceptFirst, TerminatedLast
      <4> QED BY <2>1, <2>2, <2>5, <4>2, <4>3, <4>4
    <3> QED BY <3>1, <3>2
  <2> HIDE DEF t
  <2>7. /\ u \in World
        /\ u.pcb = t.pcb
        /\ u.queue = t.queue
        /\ ~u.conn.pcb
        /\ u.conn.didNotifyTerminated = t.conn.didNotifyTerminated
        /\ u.conn.exists = t.conn.exists
        /\ u.conn.handlers = t.conn.handlers
        /\ Dead(t) => Dead(u)
    BY <2>6 DEF World, Conn, Dead
  <2> HIDE DEF u
  <2>8. QueueInv(u)
    BY <2>6, <2>7 DEF QueueInv, AcceptFirst, TerminatedLast
  <2>9. /\ v \in World
        /\ Dead(v)
        /\ QueueInv(v)
        /\ v.pcb = u.pcb
        /\ v.conn.exists = u.conn.exists
        /\ v.conn.handlers = u.conn.handlers
    <3>1. CASE u.conn.didNotifyTerminated
      <4>1. v = u
        BY <3>1 DEF terminateLocked
      <4> QED BY <2>6, <2>7, <2>8, <3>1, <4>1
    <3>2. CASE ~u.conn.didNotifyTerminated
      <4>1. "Close" \in Reasons
        BY DEF Reasons
      <4> QED BY <2>7, <2>8, <3>2, <4>1, TerminateLemma
    <3> QED BY <3>1, <3>2
  <2> HIDE DEF v
  <2>10. WorldInv(v, k)
    BY <2>6, <2>7, <2>9 DEF WorldInv, Dead, Owes, RefusedRun, UnsetIsNew, Slot
  <2>11. Step(w, v)
    BY <1>2, <2>6, <2>7, <2>9 DEF Step, Dead
  <2> QED BY <2>3, <2>10, <2>11
<1> QED BY <1>1, <1>2

-----------------------------------------------------------------------------
(* The public methods.                                                     *)

\* markActive preserves the invariant once the handlers are set.
LEMMA MarkActiveInv ==
  ASSUME NEW w, NEW k \in Nat, WorldInv(w, k), w.conn.handlers # "unset"
  PROVE  WorldInv(markActive(w), k) /\ Step(w, markActive(w))
<1>1. CASE ~w.conn.alive \/ ~w.conn.pcb \/ w.conn.state # "New"
  BY <1>1, StepRefl DEF markActive
<1>2. CASE w.conn.alive /\ w.conn.pcb /\ w.conn.state = "New"
  <2> DEFINE p == tcp_backlog_accepted(w.pcb)
             u == [w EXCEPT !.conn.state = "Active", !.pcb = p]
             a == [u EXCEPT !.conn.didNotifyActive = TRUE]
  <2>1. w \in World /\ w.pcb \in Pcb /\ Live(w) /\ QueueInv(w)
    BY <1>2, Parts DEF WorldInv, Dead
  <2>2. /\ p \in Pcb
        /\ p.state = w.pcb.state
        /\ p.callbacks = w.pcb.callbacks
        /\ ~p.backlogpend
        /\ p.rcv_wnd = w.pcb.rcv_wnd
        /\ p.refused = w.pcb.refused
        /\ p.refusedFin = w.pcb.refusedFin
    BY <2>1 DEF tcp_backlog_accepted, Pcb
  <2> HIDE DEF p
  <2>3. /\ u \in World
        /\ u.conn = [w.conn EXCEPT !.state = "Active"]
        /\ u.pcb = p
        /\ u.queue = w.queue
    BY <2>1, <2>2 DEF World, Conn, ConnStates
  <2>4. markActive(w) = notifyActiveOnceLocked(u)
    BY <1>2 DEF markActive, p
  <2> HIDE DEF u
  <2>5. /\ u.conn.state = "Active"
        /\ u.conn.alive
        /\ u.conn.pcb
        /\ ~u.conn.didNotifyTerminated
        /\ ~u.conn.pendingClose
        /\ u.conn.refAlive
        /\ u.conn.exists
        /\ u.conn.inflight = w.conn.inflight
        /\ u.conn.handlers = w.conn.handlers
        /\ u.conn.didNotifyTerminated = w.conn.didNotifyTerminated
        /\ u.conn.exists = w.conn.exists
    BY <2>1, <2>3, Parts, ZenonT(60) DEF Conn, Live
  <2>6. Live(u) /\ QueueInv(u)
    <3>1. Live(u)
      BY <2>1, <2>2, <2>3, <2>5 DEF Live
    <3> QED BY <2>1, <2>3, <2>5, <3>1, QueueFrame
  <2>7. Owes(u, k)
    BY <2>1, <2>2, <2>3, <2>5 DEF WorldInv, Owes, Live
  <2>8. WorldInv(u, k)
    BY <2>2, <2>3, <2>5, <2>6, <2>7 DEF WorldInv, RefusedRun, UnsetIsNew, Slot
  <2>9. Step(w, u)
    BY <2>1, <2>5 DEF Step, Live, Dead
  <2>10. a \in World /\ a.pcb = u.pcb /\ a.queue = u.queue /\ Agree(u.conn, a.conn)
    BY <2>3 DEF World, Conn, Agree
  <2>11. notifyActiveOnceLocked(u) =
           IF u.conn.didNotifyActive THEN u ELSE Post(a, "activated", 0)
    BY DEF notifyActiveOnceLocked
  <2> HIDE DEF a
  <2>12. WorldInv(a, k) /\ Step(u, a) /\ a.conn.alive
    BY <2>5, <2>8, <2>10, AgreeInv DEF Agree
  <2>13. "activated" \in BlockKinds \ {"accept", "terminated"} /\ 0 \in Nat
    BY DEF BlockKinds
  <2>14. WorldInv(Post(a, "activated", 0), k) /\ Step(a, Post(a, "activated", 0))
    BY <2>12, <2>13, PostInv
  <2>15. Step(w, Post(a, "activated", 0))
    BY <2>9, <2>12, <2>14, StepTrans
  <2> QED BY <2>4, <2>8, <2>9, <2>11, <2>14, <2>15
<1> QED BY <1>1, <1>2

\* setInboundDeliveryEnabled preserves the invariant.
LEMMA SetInboundInv ==
  ASSUME NEW w, NEW k \in Nat, NEW x \in BOOLEAN, WorldInv(w, k)
  PROVE  LET v == setInboundDeliveryEnabled(w, x) IN WorldInv(v, k) /\ Step(w, v)
<1> DEFINE v == [w EXCEPT !.conn.recvEnabled = x]
<1>1. w \in World
  BY DEF WorldInv
<1>2. v \in World /\ v.pcb = w.pcb /\ v.queue = w.queue /\ Agree(w.conn, v.conn)
  BY <1>1 DEF World, Conn, Agree
<1>3. setInboundDeliveryEnabled(w, x) = v
  BY DEF setInboundDeliveryEnabled
<1> HIDE DEF v
<1> QED BY <1>2, <1>3, AgreeInv

\* tcp_recved changes rcv_wnd only and keeps it within TCP_WND.
LEMMA RecvedLemma ==
  ASSUME NEW p \in Pcb, NEW len \in Nat
  PROVE  LET q == tcp_recved(p, len) IN
         /\ q \in Pcb
         /\ q.rcv_wnd = IF p.rcv_wnd + len > TCP_WND THEN TCP_WND ELSE p.rcv_wnd + len
         /\ q.state = p.state
         /\ q.callbacks = p.callbacks
         /\ q.backlogpend = p.backlogpend
         /\ q.rxclosed = p.rxclosed
         /\ q.snd_buf = p.snd_buf
         /\ q.refused = p.refused
         /\ q.refusedFin = p.refusedFin
<1> DEFINE r == IF p.rcv_wnd + len > TCP_WND THEN TCP_WND ELSE p.rcv_wnd + len
<1>1. p.rcv_wnd \in 0 .. TCP_WND /\ TCP_WND \in Nat
  BY LwipAssumption DEF Pcb
<1>2. r \in 0 .. TCP_WND
  BY <1>1
<1>3. tcp_recved(p, len) = [p EXCEPT !.rcv_wnd = r]
  BY DEF tcp_recved
<1> HIDE DEF r
<1>4. [p EXCEPT !.rcv_wnd = r] \in Pcb /\ [p EXCEPT !.rcv_wnd = r].rcv_wnd = r
  BY <1>2 DEF Pcb
<1> QED BY <1>3, <1>4 DEF r, Pcb

\* acknowledgeDeliveredBytes moves bytes from inflightAckBytes to the window: its MIN
\* makes tcp_recved's own clamp superfluous.
LEMMA AcknowledgeInv ==
  ASSUME NEW w, NEW k \in Nat, NEW bytes \in Nat, WorldInv(w, k)
  PROVE  LET v == acknowledgeDeliveredBytes(w, bytes) IN
         /\ WorldInv(v, k)
         /\ Step(w, v)
         /\ v.conn.alive = w.conn.alive
         /\ v.pcb.state = w.pcb.state
         /\ v.pcb.snd_buf = w.pcb.snd_buf
         /\ v.pcb.rxclosed = w.pcb.rxclosed
         /\ v.pcb.refused = w.pcb.refused
         /\ v.pcb.refusedFin = w.pcb.refusedFin
<1>1. CASE ~w.conn.alive \/ ~w.conn.pcb \/ w.conn.state # "Active" \/ bytes = 0
  BY <1>1, StepRefl DEF acknowledgeDeliveredBytes
<1>2. CASE ~(~w.conn.alive \/ ~w.conn.pcb \/ w.conn.state # "Active" \/ bytes = 0)
  <2> DEFINE credit == IF bytes < w.conn.inflight THEN bytes ELSE w.conn.inflight
             p == tcp_recved(w.pcb, credit)
             rest == w.conn.inflight - credit
             v == [w EXCEPT !.pcb = p, !.conn.inflight = rest]
  <2>1. /\ w \in World
        /\ w.pcb \in Pcb
        /\ w.conn \in Conn
        /\ w.conn.inflight \in Nat
        /\ w.pcb.rcv_wnd \in 0 .. TCP_WND
        /\ w.pcb.refused \in Nat
        /\ TCP_WND \in Nat
        /\ Live(w)
        /\ QueueInv(w)
    BY <1>2, Parts, LwipAssumption DEF WorldInv, Dead, Conn, Pcb
  <2>2. credit \in Nat /\ rest \in Nat /\ credit + rest = w.conn.inflight
    BY <2>1
  <2>3. acknowledgeDeliveredBytes(w, bytes) = v
    <3>1. w.conn.inflight + (0 - credit) = rest /\ ~(rest < 0)
      BY <2>1, <2>2
    <3>2. [w EXCEPT !.pcb = p].conn.inflight = w.conn.inflight
      BY <2>1 DEF World
    <3>3. updateInflightAckBytes([w EXCEPT !.pcb = p], 0 - credit) = v
      <4> HIDE DEF credit, p, rest
      <4> QED BY <2>1, <3>1, <3>2 DEF updateInflightAckBytes, World
    <3> QED BY <1>2, <3>3 DEF acknowledgeDeliveredBytes
  <2>4. /\ p \in Pcb
        /\ p.rcv_wnd = IF w.pcb.rcv_wnd + credit > TCP_WND THEN TCP_WND ELSE w.pcb.rcv_wnd + credit
        /\ p.state = w.pcb.state
        /\ p.callbacks = w.pcb.callbacks
        /\ p.backlogpend = w.pcb.backlogpend
        /\ p.rxclosed = w.pcb.rxclosed
        /\ p.snd_buf = w.pcb.snd_buf
        /\ p.refused = w.pcb.refused
        /\ p.refusedFin = w.pcb.refusedFin
    BY <2>1, <2>2, RecvedLemma
  <2> HIDE DEF p, credit, rest
  <2>5. /\ v \in World
        /\ v.pcb = p
        /\ v.queue = w.queue
        /\ v.conn = [w.conn EXCEPT !.inflight = rest]
    BY <2>1, <2>2, <2>4 DEF World, Conn
  <2> HIDE DEF v
  <2>6. /\ v.conn.inflight = rest
        /\ v.conn.alive = w.conn.alive
        /\ v.conn.pcb = w.conn.pcb
        /\ v.conn.didNotifyTerminated = w.conn.didNotifyTerminated
        /\ v.conn.state = w.conn.state
        /\ v.conn.pendingClose = w.conn.pendingClose
        /\ v.conn.refAlive = w.conn.refAlive
        /\ v.conn.exists = w.conn.exists
        /\ v.conn.handlers = w.conn.handlers
    BY <2>1, <2>5 DEF Conn
  <2>7. Owes(v, k)
    <3> DEFINE fin == IF w.pcb.refusedFin THEN 1 ELSE 0
               old == w.pcb.rcv_wnd + w.pcb.refused + fin + w.conn.inflight + k
               new == p.rcv_wnd + w.pcb.refused + fin + rest + k
    <3>1. SUFFICES ASSUME w.pcb.state # "TIME_WAIT"
                   PROVE  new >= TCP_WND /\ (w.conn.handlers # "noread" => new = TCP_WND)
      BY <2>4, <2>5, <2>6 DEF Owes
    <3>2. old >= TCP_WND /\ (w.conn.handlers # "noread" => old = TCP_WND)
      BY <2>1, <3>1 DEF WorldInv, Owes, Live
    <3>3. fin \in Nat
      OBVIOUS
    <3> HIDE DEF fin
    <3>4. CASE w.pcb.rcv_wnd + credit > TCP_WND
      BY <2>1, <2>2, <2>4, <3>2, <3>3, <3>4
    <3>5. CASE ~(w.pcb.rcv_wnd + credit > TCP_WND)
      <4>1. p.rcv_wnd = w.pcb.rcv_wnd + credit
        BY <2>4, <3>5
      <4> QED BY <2>1, <2>2, <3>2, <3>3, <4>1
    <3> QED BY <3>4, <3>5
  <2>8. WorldInv(v, k)
    <3>1. QueueInv(v)
      BY <2>1, <2>5, <2>6, QueueFrame
    <3>2. Live(v)
      BY <2>1, <2>4, <2>5, <2>6 DEF Live
    <3> QED BY <2>4, <2>5, <2>6, <2>7, <3>1, <3>2 DEF WorldInv, RefusedRun, UnsetIsNew, Slot
  <2>9. Step(w, v)
    BY <2>1, <2>6 DEF Step, Live, Dead
  <2> QED BY <2>3, <2>4, <2>5, <2>6, <2>8, <2>9
<1> QED BY <1>1, <1>2

\* A change of the pcb alone preserves the invariant under these conditions.
LEMMA PcbChange ==
  ASSUME NEW w, NEW k, NEW j, NEW p \in Pcb, WorldInv(w, k),
         p.state = "FREED" => w.pcb.state = "FREED",
         p.callbacks = w.pcb.callbacks,
         p.refused <= MaxRun,
         p.refusedFin => p.refused > 0,
         p.backlogpend => w.pcb.backlogpend,
         p.state \in {"TIME_WAIT", "FREED"} => ~p.backlogpend,
         Owes([w EXCEPT !.pcb = p], j)
  PROVE  /\ WorldInv([w EXCEPT !.pcb = p], j)
         /\ Step(w, [w EXCEPT !.pcb = p])
         /\ [w EXCEPT !.pcb = p].pcb = p
         /\ [w EXCEPT !.pcb = p].conn = w.conn
         /\ [w EXCEPT !.pcb = p].queue = w.queue
<1> DEFINE v == [w EXCEPT !.pcb = p]
<1>1. w \in World /\ QueueInv(w)
  BY DEF WorldInv
<1>2. v \in World /\ v.pcb = p /\ v.conn = w.conn /\ v.queue = w.queue
  BY <1>1 DEF World
<1> HIDE DEF v
<1>3. QueueInv(v)
  BY <1>1, <1>2, QueueFrame
<1>4. Live(v) \/ Dead(v)
  BY <1>2 DEF WorldInv, Live, Dead
<1>5. UnsetIsNew(v) /\ RefusedRun(v) /\ Slot(v)
  BY <1>2 DEF WorldInv, UnsetIsNew, RefusedRun, Slot
<1>6. Owes(v, j)
  BY DEF v
<1>7. WorldInv(v, j)
  BY <1>2, <1>3, <1>4, <1>5, <1>6 DEF WorldInv
<1>8. Step(w, v)
  BY <1>2 DEF Step, Dead
<1> QED BY <1>2, <1>7, <1>8 DEF v

\* The balance of a pcb whose window and refused data did not change.
LEMMA OwesFrame ==
  ASSUME NEW w, NEW k, NEW p \in Pcb, WorldInv(w, k),
         p.state = "TIME_WAIT" \/ w.pcb.state # "TIME_WAIT",
         p.rcv_wnd = w.pcb.rcv_wnd, p.refused = w.pcb.refused, p.refusedFin = w.pcb.refusedFin
  PROVE  Owes([w EXCEPT !.pcb = p], k)
<1> DEFINE v == [w EXCEPT !.pcb = p]
<1>1. v.pcb = p /\ v.conn = w.conn
  BY DEF WorldInv, World
<1> HIDE DEF v
<1>2. Owes(v, k)
  BY <1>1 DEF WorldInv, Owes
<1> QED BY <1>2 DEF v

\* tcp_close_shutdown_fin on the connection's pcb preserves the invariant.
LEMMA FinInv ==
  ASSUME NEW w, NEW k \in Nat, NEW nomem, WorldInv(w, k)
  PROVE  LET v == [w EXCEPT !.pcb = tcp_close_shutdown_fin(w.pcb, nomem)] IN
         WorldInv(v, k) /\ Step(w, v)
<1> DEFINE q == tcp_close_shutdown_fin(w.pcb, nomem)
<1>1. w.pcb \in Pcb
  BY Parts DEF WorldInv
<1>2. /\ q \in Pcb
      /\ q.state = "FREED" <=> w.pcb.state = "FREED"
      /\ q.state = "TIME_WAIT" <=> w.pcb.state = "TIME_WAIT"
      /\ q.callbacks = w.pcb.callbacks
      /\ q.backlogpend = w.pcb.backlogpend
      /\ q.rcv_wnd = w.pcb.rcv_wnd
      /\ q.refused = w.pcb.refused
      /\ q.refusedFin = w.pcb.refusedFin
  BY <1>1, FinLemma
<1> HIDE DEF q
<1>3. /\ q.refused <= MaxRun
      /\ q.refusedFin => q.refused > 0
      /\ q.state \in {"TIME_WAIT", "FREED"} => ~q.backlogpend
  BY <1>2 DEF WorldInv, RefusedRun, Slot
<1>4. Owes([w EXCEPT !.pcb = q], k)
  BY <1>2, OwesFrame
<1>5. WorldInv([w EXCEPT !.pcb = q], k) /\ Step(w, [w EXCEPT !.pcb = q])
  BY <1>2, <1>3, <1>4, PcbChange
<1> QED BY <1>5 DEF q

\* shutdownWrite preserves the invariant.
LEMMA ShutdownWriteInv ==
  ASSUME NEW w, NEW k \in Nat, NEW nomem, WorldInv(w, k)
  PROVE  LET v == shutdownWrite(w, nomem) IN WorldInv(v, k) /\ Step(w, v)
<1> DEFINE u == [w EXCEPT !.pcb = tcp_close_shutdown_fin(w.pcb, nomem)]
           v == [u EXCEPT !.conn.writeFIN = TRUE]
<1>1. WorldInv(u, k) /\ Step(w, u)
  BY FinInv
<1>2. [w EXCEPT !.conn.writeFIN = TRUE, !.pcb = tcp_shutdown(w.pcb, nomem)] = v
  BY DEF WorldInv, World, tcp_shutdown
<1>3. shutdownWrite(w, nomem) \in {w, v}
  BY <1>2 DEF shutdownWrite
<1> HIDE DEF u
<1>4. v \in World /\ v.pcb = u.pcb /\ v.queue = u.queue /\ Agree(u.conn, v.conn)
  BY <1>1 DEF WorldInv, World, Conn, Agree
<1> HIDE DEF v
<1>5. WorldInv(v, k) /\ Step(w, v)
  BY <1>1, <1>4, AgreeInv, StepTrans
<1> QED BY <1>3, <1>5, StepRefl

\* gracefulClose preserves the invariant.
LEMMA GracefulCloseInv ==
  ASSUME NEW w, NEW k \in Nat, NEW nomem \in BOOLEAN, WorldInv(w, k)
  PROVE  LET v == gracefulClose(w, nomem) IN WorldInv(v, k) /\ Step(w, v)
<1>1. w.conn.alive => w.conn.pcb
  BY DEF WorldInv, Live, Dead
<1>2. gracefulClose(w, nomem) \in {w, tryGracefulCloseLocked(w, nomem)}
  BY <1>1 DEF gracefulClose
<1> QED BY <1>2, GracefulCloseLocked, StepRefl

\* tf_tcp_write_ready is Boolean.
LEMMA WriteReady ==
  ASSUME NEW p
  PROVE  tf_tcp_write_ready(p) \in BOOLEAN
BY DEF tf_tcp_write_ready

\* writeBytes preserves the invariant on each of its results.
LEMMA WriteBytesInv ==
  ASSUME NEW w, NEW k \in Nat, NEW length \in Nat, NEW nomem \in BOOLEAN, WorldInv(w, k)
  PROVE  LET v == writeBytes(w, length, nomem) IN WorldInv(v, k) /\ Step(w, v)
<1> DEFINE q == tcp_write(w.pcb, length, nomem)
           u == [w EXCEPT !.pcb = q]
           err == tcp_write_err(w.pcb, length, nomem)
<1>1. w \in World /\ w.pcb \in Pcb
  BY Parts DEF WorldInv
<1>2. /\ q \in Pcb
      /\ q.state = w.pcb.state
      /\ q.callbacks = w.pcb.callbacks
      /\ q.backlogpend = w.pcb.backlogpend
      /\ q.rcv_wnd = w.pcb.rcv_wnd
      /\ q.refused = w.pcb.refused
      /\ q.refusedFin = w.pcb.refusedFin
  <2>1. CASE err = "ERR_OK"
    <3> DEFINE r == w.pcb.snd_buf - length
    <3>1. ~(length > w.pcb.snd_buf)
      BY <2>1 DEF tcp_write_err
    <3>2. w.pcb.snd_buf \in 0 .. TCP_SND_BUF /\ TCP_SND_BUF \in Nat
      BY <1>1, LwipAssumption DEF Pcb
    <3>3. r \in 0 .. TCP_SND_BUF
      BY <3>1, <3>2
    <3>4. q = [w.pcb EXCEPT !.snd_buf = r]
      BY <2>1 DEF tcp_write
    <3> HIDE DEF r, q
    <3> QED BY <1>1, <3>3, <3>4 DEF Pcb
  <2>2. CASE err # "ERR_OK"
    BY <1>1, <2>2 DEF tcp_write
  <2> QED BY <2>1, <2>2
<1> HIDE DEF q
<1>3. /\ q.refused <= MaxRun
      /\ q.refusedFin => q.refused > 0
      /\ q.state \in {"TIME_WAIT", "FREED"} => ~q.backlogpend
  BY <1>2 DEF WorldInv, RefusedRun, Slot
<1>4. Owes([w EXCEPT !.pcb = q], k)
  BY <1>2, OwesFrame
<1>5. WorldInv(u, k) /\ Step(w, u) /\ u.conn = w.conn
  BY <1>2, <1>3, <1>4, PcbChange
<1>6. writeBytes(w, length, nomem) \in
        {w, updateWritableLocked(u, tf_tcp_write_ready(u.pcb)), updateWritableLocked(u, FALSE),
         abortLocked(u, "Abort")}
  BY DEF writeBytes, q
<1>7. writeBytes(w, length, nomem) = w \/ w.conn.alive
  BY DEF writeBytes
<1> HIDE DEF u
<1>8. ASSUME w.conn.alive, NEW x \in BOOLEAN
      PROVE  WorldInv(updateWritableLocked(u, x), k) /\ Step(w, updateWritableLocked(u, x))
  BY <1>5, <1>8, UpdateWritable, StepTrans
<1>9. WorldInv(abortLocked(u, "Abort"), k) /\ Step(w, abortLocked(u, "Abort"))
  <2>1. "Abort" \in Reasons
    BY DEF Reasons
  <2> QED BY <1>5, <2>1, AbortInv, StepTrans
<1>10. tf_tcp_write_ready(u.pcb) \in BOOLEAN /\ FALSE \in BOOLEAN
  BY WriteReady
<1> QED BY <1>6, <1>7, <1>8, <1>9, <1>10, StepRefl

-----------------------------------------------------------------------------
(* lwIP's callbacks, input and timers.                                     *)

\* The fields of the pcb that delivering data and FIN leaves alone.
PcbKept(w, v) ==
  /\ v.pcb.state = w.pcb.state
  /\ v.pcb.snd_buf = w.pcb.snd_buf
  /\ v.pcb.rxclosed = w.pcb.rxclosed
  /\ v.pcb.refused = w.pcb.refused
  /\ v.pcb.refusedFin = w.pcb.refusedFin

\* The balance says nothing of a dead connection.
LEMMA DeadOwesNothing ==
  ASSUME NEW w, NEW k, NEW j, WorldInv(w, k), ~w.conn.alive
  PROVE  WorldInv(w, j)
BY DEF WorldInv, Owes

\* The callbacks of a live connection's pcb lead to it.
LEMMA LiveFromArg ==
  ASSUME NEW w, NEW k, WorldInv(w, k), w.conn.alive
  PROVE  tf_conn_from_arg(w) /\ w.pcb.callbacks
BY DEF WorldInv, Live, Dead, tf_conn_from_arg

\* tcp_recved on a pcb whose window is not the connection's business.
LEMMA RecvedInv ==
  ASSUME NEW w, NEW k, NEW j, NEW tot \in Nat, WorldInv(w, k),
         ~w.conn.alive \/ (j = k /\ k \in Nat /\ w.conn.handlers = "noread")
  PROVE  LET v == [w EXCEPT !.pcb = tcp_recved(w.pcb, tot)] IN
         WorldInv(v, j) /\ Step(w, v) /\ PcbKept(w, v)
<1> DEFINE q == tcp_recved(w.pcb, tot)
<1>1. w \in World /\ w.pcb \in Pcb
  BY Parts DEF WorldInv
<1>2. /\ q \in Pcb
      /\ q.state = w.pcb.state
      /\ q.callbacks = w.pcb.callbacks
      /\ q.backlogpend = w.pcb.backlogpend
      /\ q.rxclosed = w.pcb.rxclosed
      /\ q.snd_buf = w.pcb.snd_buf
      /\ q.refused = w.pcb.refused
      /\ q.refusedFin = w.pcb.refusedFin
  BY <1>1, RecvedLemma
<1> HIDE DEF q
<1>3. /\ q.refused <= MaxRun
      /\ q.refusedFin => q.refused > 0
      /\ q.state \in {"TIME_WAIT", "FREED"} => ~q.backlogpend
  BY <1>2 DEF WorldInv, RefusedRun, Slot
<1>4. Owes([w EXCEPT !.pcb = q], j)
  <2> DEFINE u   == [w EXCEPT !.pcb = q]
             fin == IF w.pcb.refusedFin THEN 1 ELSE 0
  <2>1. u.conn = w.conn /\ u.pcb = q
    BY <1>1 DEF World
  <2> HIDE DEF u
  <2>2. CASE ~w.conn.alive
    BY <2>1, <2>2 DEF Owes, u
  <2>3. CASE w.conn.alive
    <3>1. j = k /\ k \in Nat /\ w.conn.handlers = "noread"
      BY <2>3
    <3>2. SUFFICES ASSUME w.pcb.state # "TIME_WAIT"
                   PROVE  q.rcv_wnd + w.pcb.refused + fin + w.conn.inflight + k >= TCP_WND
      <4>1. /\ q.state = w.pcb.state
            /\ q.refused = w.pcb.refused
            /\ q.refusedFin = w.pcb.refusedFin
        BY <1>2
      <4>2. Owes(u, j)
        BY <2>1, <3>1, <3>2, <4>1 DEF Owes
      <4> QED BY <4>2 DEF u
    <3>3. w.pcb.rcv_wnd + w.pcb.refused + fin + w.conn.inflight + k >= TCP_WND
      BY <2>3, <3>2 DEF WorldInv, Owes
    <3>4. /\ fin \in Nat
          /\ w.pcb.rcv_wnd \in Nat
          /\ w.pcb.refused \in Nat
          /\ w.conn.inflight \in Nat
          /\ TCP_WND \in Nat
      BY <1>1, Parts, LwipAssumption DEF Pcb, Conn
    <3>5. q.rcv_wnd \in Nat /\ (q.rcv_wnd = TCP_WND \/ q.rcv_wnd = w.pcb.rcv_wnd + tot)
      <4>1. q.rcv_wnd = IF w.pcb.rcv_wnd + tot > TCP_WND THEN TCP_WND ELSE w.pcb.rcv_wnd + tot
        BY <1>1, RecvedLemma DEF q
      <4> QED BY <3>4, <4>1
    <3> HIDE DEF fin
    <3> QED BY <3>1, <3>3, <3>4, <3>5
  <2> QED BY <2>2, <2>3
<1>5. /\ WorldInv([w EXCEPT !.pcb = q], j)
      /\ Step(w, [w EXCEPT !.pcb = q])
      /\ [w EXCEPT !.pcb = q].pcb = q
  BY <1>2, <1>3, <1>4, PcbChange
<1> QED BY <1>2, <1>5 DEF q, PcbKept

\* Counting a segment in inflightAckBytes settles what the window owes for it.
LEMMA InflightInv ==
  ASSUME NEW w, NEW k \in Nat, NEW tot \in Nat, WorldInv(w, tot + k), w.conn.alive
  PROVE  LET v == updateInflightAckBytes(w, tot) IN
         /\ WorldInv(v, k)
         /\ Step(w, v)
         /\ v.pcb = w.pcb
         /\ v.conn.alive
         /\ v.conn.state = w.conn.state
         /\ v.conn.handlers = w.conn.handlers
<1> DEFINE m == w.conn.inflight + tot
           v == [w EXCEPT !.conn.inflight = m]
<1>1. /\ w \in World
      /\ w.conn \in Conn
      /\ w.conn.inflight \in Nat
      /\ w.pcb.rcv_wnd \in Nat
      /\ w.pcb.refused \in Nat
      /\ Live(w)
      /\ QueueInv(w)
  BY Parts, LwipAssumption DEF WorldInv, Dead, Conn, Pcb
<1>2. m \in Nat /\ ~(m < 0)
  BY <1>1
<1>3. updateInflightAckBytes(w, tot) = v
  BY <1>2 DEF updateInflightAckBytes
<1> HIDE DEF m
<1>4. /\ v \in World
      /\ v.pcb = w.pcb
      /\ v.queue = w.queue
      /\ v.conn = [w.conn EXCEPT !.inflight = m]
  BY <1>1, <1>2 DEF World, Conn
<1> HIDE DEF v
<1>5. /\ v.conn.inflight = m
      /\ v.conn.alive = w.conn.alive
      /\ v.conn.pcb = w.conn.pcb
      /\ v.conn.didNotifyTerminated = w.conn.didNotifyTerminated
      /\ v.conn.state = w.conn.state
      /\ v.conn.pendingClose = w.conn.pendingClose
      /\ v.conn.refAlive = w.conn.refAlive
      /\ v.conn.exists = w.conn.exists
      /\ v.conn.handlers = w.conn.handlers
  BY <1>1, <1>4 DEF Conn
<1>6. Owes(v, k)
  <2> DEFINE fin == IF w.pcb.refusedFin THEN 1 ELSE 0
             old == w.pcb.rcv_wnd + w.pcb.refused + fin + w.conn.inflight + (tot + k)
             new == w.pcb.rcv_wnd + w.pcb.refused + fin + m + k
  <2>1. SUFFICES ASSUME w.pcb.state # "TIME_WAIT"
                 PROVE  new >= TCP_WND /\ (w.conn.handlers # "noread" => new = TCP_WND)
    BY <1>4, <1>5 DEF Owes
  <2>2. old >= TCP_WND /\ (w.conn.handlers # "noread" => old = TCP_WND)
    BY <1>1, <2>1 DEF WorldInv, Owes, Live
  <2>3. fin \in Nat
    OBVIOUS
  <2> HIDE DEF fin
  <2>4. old = new
    BY <1>1, <2>3 DEF m
  <2> QED BY <2>2, <2>4
<1>7. Live(v)
  BY <1>1, <1>4, <1>5 DEF Live
<1>8. QueueInv(v)
  BY <1>1, <1>4, <1>5, QueueFrame
<1>9. WorldInv(v, k)
  BY <1>4, <1>5, <1>6, <1>7, <1>8 DEF WorldInv, RefusedRun, UnsetIsNew, Slot
<1>10. Step(w, v)
  BY <1>5 DEF Step, Dead
<1> QED BY <1>3, <1>4, <1>5, <1>9, <1>10

\* Counting dropped bytes changes nothing else.
LEMMA DroppedInv ==
  ASSUME NEW w, NEW k \in Nat, NEW tot \in Nat, WorldInv(w, k)
  PROVE  LET v == Dropped(w, tot) IN
         /\ WorldInv(v, k)
         /\ Step(w, v)
         /\ v.conn = w.conn
         /\ v.pcb = w.pcb
         /\ v.queue = w.queue
         /\ v.pbufs = w.pbufs
         /\ v.dropped = w.dropped + tot
<1> DEFINE d == w.dropped + tot
           v == [w EXCEPT !.dropped = d]
<1>1. w \in World /\ d \in Nat
  BY Parts DEF WorldInv
<1>2. Dropped(w, tot) = v
  BY DEF Dropped
<1> HIDE DEF d
<1>3. /\ v \in World /\ v.conn = w.conn /\ v.pcb = w.pcb /\ v.queue = w.queue
      /\ v.pbufs = w.pbufs /\ v.dropped = d
  BY <1>1 DEF World
<1> HIDE DEF v
<1>4. WorldInv(v, k) /\ Step(w, v)
  BY <1>3, AgreeInv DEF Agree
<1> QED BY <1>2, <1>3, <1>4 DEF d

\* Deliver preserves the invariant for every read handler and allocation outcome.
LEMMA DeliverInv ==
  ASSUME NEW w, NEW k \in Nat, NEW tot \in Nat, NEW nomem \in BOOLEAN, WorldInv(w, k),
         w.conn.alive, w.conn.state = "Active"
  PROVE  LET v == Deliver(w, tot, nomem) IN WorldInv(v, k) /\ Step(w, v) /\ PcbKept(w, v)
<1>1. /\ w \in World
      /\ w.conn.handlers # "unset"
      /\ w.conn.handlers \in {"bytes", "copy", "noread"}
      /\ w.pbufs \in Int
  BY Parts DEF WorldInv, UnsetIsNew, Conn, Handlers
<1>2. CASE w.conn.handlers = "bytes" /\ ~nomem
  <2> DEFINE m == w.pbufs + 1
             u == [w EXCEPT !.pbufs = m]
  <2>1. Deliver(w, tot, nomem) = Post(u, "data", tot)
    BY <1>2 DEF Deliver
  <2>2. m \in Int
    BY <1>1
  <2> HIDE DEF m
  <2>3. u \in World /\ u.conn = w.conn /\ u.pcb = w.pcb /\ u.queue = w.queue
    BY <1>1, <2>2 DEF World
  <2> HIDE DEF u
  <2>4. WorldInv(u, k) /\ Step(w, u)
    BY <2>3, AgreeInv DEF Agree
  <2>5. "data" \in BlockKinds \ {"accept", "terminated"} /\ "data" \in BlockKinds
    BY DEF BlockKinds
  <2>6. /\ WorldInv(Post(u, "data", tot), k)
        /\ Step(u, Post(u, "data", tot))
    BY <2>3, <2>4, <2>5, PostInv
  <2>7. Post(u, "data", tot).pcb = w.pcb
    BY <2>3, <2>5, PostLemma
  <2> QED BY <2>1, <2>4, <2>6, <2>7, StepTrans DEF PcbKept
<1>3. CASE w.conn.handlers = "copy" /\ ~nomem
  <2> DEFINE u == acknowledgeDeliveredBytes(w, tot)
  <2>1. Deliver(w, tot, nomem) = Post(u, "copied", tot)
    BY <1>3 DEF Deliver
  <2>2. /\ WorldInv(u, k)
        /\ Step(w, u)
        /\ u.conn.alive
        /\ u.pcb.state = w.pcb.state
        /\ u.pcb.snd_buf = w.pcb.snd_buf
        /\ u.pcb.rxclosed = w.pcb.rxclosed
        /\ u.pcb.refused = w.pcb.refused
        /\ u.pcb.refusedFin = w.pcb.refusedFin
    BY AcknowledgeInv
  <2> HIDE DEF u
  <2>3. "copied" \in BlockKinds \ {"accept", "terminated"} /\ "copied" \in BlockKinds
    BY DEF BlockKinds
  <2>4. /\ WorldInv(Post(u, "copied", tot), k)
        /\ Step(u, Post(u, "copied", tot))
    BY <2>2, <2>3, PostInv
  <2>5. Post(u, "copied", tot).pcb = u.pcb
    BY <2>2, <2>3, PostLemma DEF WorldInv
  <2> QED BY <2>1, <2>2, <2>4, <2>5, StepTrans DEF PcbKept
<1>4. CASE w.conn.handlers \in {"bytes", "copy"} /\ nomem
  <2>1. Deliver(w, tot, nomem) = Dropped(w, tot)
    BY <1>4 DEF Deliver
  <2> QED BY <2>1, DroppedInv DEF PcbKept
<1>5. CASE w.conn.handlers = "noread"
  <2> DEFINE u == [w EXCEPT !.pcb = tcp_recved(w.pcb, tot)]
  <2>1. Deliver(w, tot, nomem) = Dropped(u, tot)
    BY <1>5 DEF Deliver
  <2>2. WorldInv(u, k) /\ Step(w, u) /\ PcbKept(w, u)
    BY <1>5, RecvedInv
  <2> HIDE DEF u
  <2>3. WorldInv(Dropped(u, tot), k) /\ Step(u, Dropped(u, tot)) /\ Dropped(u, tot).pcb = u.pcb
    BY <2>2, DroppedInv
  <2> QED BY <2>1, <2>2, <2>3, StepTrans DEF PcbKept
<1> QED BY <1>1, <1>2, <1>3, <1>4, <1>5

\* Data that the recv callback takes is settled.
LEMMA EventRecvInv ==
  ASSUME NEW w, NEW k \in Nat, NEW tot \in Nat, NEW nomem \in BOOLEAN, WorldInv(w, tot + k),
         TCP_EVENT_RECV_err(w) = "ERR_OK"
  PROVE  LET v == TCP_EVENT_RECV(w, tot, nomem) IN
         WorldInv(v, k) /\ Step(w, v) /\ PcbKept(w, v)
<1>1. CASE ~w.conn.alive
  <2>1. WorldInv(w, k)
    BY <1>1, DeadOwesNothing
  <2>2. ~tf_conn_from_arg(w)
    BY <1>1 DEF tf_conn_from_arg
  <2>3. TCP_EVENT_RECV(w, tot, nomem) \in {w, [w EXCEPT !.pcb = tcp_recved(w.pcb, tot)]}
    BY <2>2 DEF TCP_EVENT_RECV, tf_tcp_recv
  <2>4. Step(w, w) /\ PcbKept(w, w)
    BY StepRefl DEF PcbKept
  <2> DEFINE x == [w EXCEPT !.pcb = tcp_recved(w.pcb, tot)]
  <2>5. WorldInv(x, k) /\ Step(w, x) /\ PcbKept(w, x)
    BY <1>1, <2>1, RecvedInv
  <2> HIDE DEF x
  <2> QED BY <2>1, <2>3, <2>4, <2>5 DEF x
<1>2. CASE w.conn.alive
  <2> DEFINE u == updateInflightAckBytes(w, tot)
  <2>1. tf_conn_from_arg(w) /\ w.pcb.callbacks
    BY <1>2, LiveFromArg
  <2>2. shouldAllowRecv(w)
    BY <2>1 DEF TCP_EVENT_RECV_err, tf_tcp_recv_err
  <2>3. w.conn.state = "Active"
    BY <2>2 DEF shouldAllowRecv
  <2>4. TCP_EVENT_RECV(w, tot, nomem) = Deliver(u, tot, nomem)
    BY <2>1, <2>2 DEF TCP_EVENT_RECV, tf_tcp_recv
  <2>5. /\ WorldInv(u, k)
        /\ Step(w, u)
        /\ u.pcb = w.pcb
        /\ u.conn.alive
        /\ u.conn.state = "Active"
    BY <1>2, <2>3, InflightInv
  <2> HIDE DEF u
  <2>6. /\ WorldInv(Deliver(u, tot, nomem), k)
        /\ Step(u, Deliver(u, tot, nomem))
        /\ PcbKept(u, Deliver(u, tot, nomem))
    BY <2>5, DeliverInv
  <2> QED BY <2>4, <2>5, <2>6, StepTrans DEF PcbKept
<1> QED BY <1>1, <1>2

\* The recv callback with p = NULL preserves the invariant.
LEMMA EventClosedInv ==
  ASSUME NEW w, NEW k \in Nat, WorldInv(w, k)
  PROVE  LET v == TCP_EVENT_CLOSED(w) IN WorldInv(v, k) /\ Step(w, v) /\ v.pcb = w.pcb
<1>1. TCP_EVENT_CLOSED(w) = w \/ (w.conn.alive /\ TCP_EVENT_CLOSED(w) = handlePeerFINLocked(w))
  BY DEF TCP_EVENT_CLOSED, tf_tcp_recv_fin, tf_conn_from_arg
<1> QED BY <1>1, HandlePeerFIN, StepRefl

\* The sent callback preserves the invariant.
LEMMA EventSentInv ==
  ASSUME NEW w, NEW k \in Nat, NEW len \in Nat, WorldInv(w, k)
  PROVE  LET v == TCP_EVENT_SENT(w, len) IN WorldInv(v, k) /\ Step(w, v) /\ v.pcb = w.pcb
<1> DEFINE u == updateWritableLocked(w, tf_tcp_write_ready(w.pcb))
           v == Post(u, "sent", len)
<1>1. TCP_EVENT_SENT(w, len) = w \/ (w.conn.alive /\ TCP_EVENT_SENT(w, len) = v)
  BY DEF TCP_EVENT_SENT, tf_tcp_sent, tf_conn_from_arg
<1>2. CASE w.conn.alive /\ TCP_EVENT_SENT(w, len) = v
  <2>1. WorldInv(u, k) /\ Step(w, u) /\ u.pcb = w.pcb /\ u.conn.alive
    BY <1>2, WriteReady, UpdateWritable
  <2> HIDE DEF u
  <2>2. "sent" \in BlockKinds \ {"accept", "terminated"} /\ "sent" \in BlockKinds
    BY DEF BlockKinds
  <2>3. WorldInv(v, k) /\ Step(u, v)
    BY <2>1, <2>2, PostInv
  <2>4. v.pcb = u.pcb
    BY <2>1, <2>2, PostLemma DEF WorldInv
  <2> QED BY <1>2, <2>1, <2>3, <2>4, StepTrans
<1> QED BY <1>1, <1>2, StepRefl

\* The poll callback preserves the invariant; its close retry is never reached.
LEMMA EventPollInv ==
  ASSUME NEW w, NEW k \in Nat, NEW timedOut, NEW nomem \in BOOLEAN, WorldInv(w, k)
  PROVE  LET v == TCP_EVENT_POLL(w, timedOut, nomem) IN WorldInv(v, k) /\ Step(w, v)
<1> DEFINE u == updateWritableLocked(w, tf_tcp_write_ready(w.pcb))
<1>1. CASE ~w.conn.alive
  <2>1. TCP_EVENT_POLL(w, timedOut, nomem) = w
    BY <1>1 DEF TCP_EVENT_POLL, tf_tcp_poll, tf_conn_from_arg
  <2> QED BY <2>1, StepRefl
<1>2. CASE w.conn.alive
  <2>1. WorldInv(u, k) /\ Step(w, u) /\ ~u.conn.pendingClose
    BY <1>2, WriteReady, UpdateWritable
  <2>2. WorldInv(abortLocked(w, "Abort"), k) /\ Step(w, abortLocked(w, "Abort"))
    <3>1. "Abort" \in Reasons
      BY DEF Reasons
    <3> QED BY <3>1, AbortInv
  <2>3. TCP_EVENT_POLL(w, timedOut, nomem) \in {w, abortLocked(w, "Abort"), u}
    BY <2>1 DEF TCP_EVENT_POLL, tf_tcp_poll
  <2> HIDE DEF u
  <2> QED BY <2>1, <2>2, <2>3, StepRefl
<1> QED BY <1>1, <1>2

\* Reporting a FIN gives its sequence number back to the window.
LEMMA ReportFinInv ==
  ASSUME NEW w, WorldInv(w, 1)
  PROVE  LET v == ReportFin(w) IN WorldInv(v, 0) /\ Step(w, v) /\ PcbKept(w, v)
<1> DEFINE r == IF w.pcb.rcv_wnd = TCP_WND THEN TCP_WND ELSE w.pcb.rcv_wnd + 1
           q == [w.pcb EXCEPT !.rcv_wnd = r]
           u == [w EXCEPT !.pcb = q]
<1>1. /\ w \in World
      /\ w.pcb \in Pcb
      /\ w.pcb.rcv_wnd \in 0 .. TCP_WND
      /\ w.pcb.refused \in Nat
      /\ w.conn.inflight \in Nat
      /\ TCP_WND \in Nat
  BY Parts, LwipAssumption DEF WorldInv, Pcb, Conn
<1>2. r \in 0 .. TCP_WND
  BY <1>1
<1>3. ReportFin(w) = TCP_EVENT_CLOSED(u)
  BY DEF ReportFin, CreditFin
<1> HIDE DEF r
<1>4. /\ q \in Pcb
      /\ q.rcv_wnd = r
      /\ q.state = w.pcb.state
      /\ q.callbacks = w.pcb.callbacks
      /\ q.backlogpend = w.pcb.backlogpend
      /\ q.rxclosed = w.pcb.rxclosed
      /\ q.snd_buf = w.pcb.snd_buf
      /\ q.refused = w.pcb.refused
      /\ q.refusedFin = w.pcb.refusedFin
  BY <1>1, <1>2 DEF Pcb
<1> HIDE DEF q
<1>5. /\ q.refused <= MaxRun
      /\ q.refusedFin => q.refused > 0
      /\ q.state \in {"TIME_WAIT", "FREED"} => ~q.backlogpend
  BY <1>4 DEF WorldInv, RefusedRun, Slot
<1>6. Owes(u, 0)
  <2>1. u.conn = w.conn /\ u.pcb = q
    BY <1>1 DEF World
  <2> HIDE DEF u
  <2> DEFINE fin == IF w.pcb.refusedFin THEN 1 ELSE 0
             old == w.pcb.rcv_wnd + w.pcb.refused + fin + w.conn.inflight + 1
             new == r + w.pcb.refused + fin + w.conn.inflight + 0
  <2>2. SUFFICES ASSUME w.conn.alive, w.pcb.state # "TIME_WAIT"
                 PROVE  new >= TCP_WND /\ (w.conn.handlers # "noread" => new = TCP_WND)
    BY <1>4, <2>1 DEF Owes
  <2>3. old >= TCP_WND /\ (w.conn.handlers # "noread" => old = TCP_WND)
    BY <2>2 DEF WorldInv, Owes
  <2>4. fin \in Nat
    OBVIOUS
  <2> HIDE DEF fin
  <2>5. CASE w.pcb.rcv_wnd = TCP_WND
    <3>1. r = TCP_WND
      BY <2>5 DEF r
    <3> HIDE DEF r
    <3>2. new >= TCP_WND /\ ~(old = TCP_WND)
      BY <1>1, <2>4, <2>5, <3>1
    <3> QED BY <2>3, <3>2
  <2>6. CASE w.pcb.rcv_wnd # TCP_WND
    <3>1. r = w.pcb.rcv_wnd + 1
      BY <2>6 DEF r
    <3> HIDE DEF r
    <3>2. new = old
      BY <1>1, <2>4, <3>1
    <3> QED BY <2>3, <3>2
  <2> QED BY <2>5, <2>6
<1>7. WorldInv(u, 0) /\ Step(w, u) /\ u.pcb = q
  BY <1>4, <1>5, <1>6, PcbChange
<1> HIDE DEF u
<1>8. /\ WorldInv(TCP_EVENT_CLOSED(u), 0)
      /\ Step(u, TCP_EVENT_CLOSED(u))
      /\ TCP_EVENT_CLOSED(u).pcb = u.pcb
  BY <1>7, EventClosedInv
<1> QED BY <1>3, <1>4, <1>7, <1>8, StepTrans DEF PcbKept

\* Refused data that is offered again is owed by the window, with the FIN behind it.
LEMMA OfferedInv ==
  ASSUME NEW w, WorldInv(w, 0)
  PROVE  LET o == [w EXCEPT !.pcb.refused = 0, !.pcb.refusedFin = FALSE] IN
         /\ WorldInv(o, w.pcb.refused + (IF w.pcb.refusedFin THEN 1 ELSE 0))
         /\ Step(w, o)
         /\ o.conn = w.conn
         /\ o.pcb.state = w.pcb.state
         /\ o.pcb.snd_buf = w.pcb.snd_buf
         /\ o.pcb.refused = 0
         /\ ~o.pcb.refusedFin
<1> DEFINE tot == w.pcb.refused
           fin == IF w.pcb.refusedFin THEN 1 ELSE 0
           q   == [w.pcb EXCEPT !.refused = 0, !.refusedFin = FALSE]
           o   == [w EXCEPT !.pcb = q]
<1>1. /\ w \in World
      /\ w.pcb \in Pcb
      /\ w.pcb.rcv_wnd \in Nat
      /\ tot \in Nat
      /\ fin \in Nat
      /\ w.conn.inflight \in Nat
      /\ TCP_WND \in Nat
  BY Parts, LwipAssumption DEF WorldInv, Pcb, Conn
<1>2. /\ q \in Pcb
      /\ q.rcv_wnd = w.pcb.rcv_wnd
      /\ q.state = w.pcb.state
      /\ q.callbacks = w.pcb.callbacks
      /\ q.backlogpend = w.pcb.backlogpend
      /\ q.rxclosed = w.pcb.rxclosed
      /\ q.snd_buf = w.pcb.snd_buf
      /\ q.refused = 0
      /\ ~q.refusedFin
  <2>1. 0 \in 0 .. TCP_WND
    BY <1>1
  <2> QED BY <1>1, <2>1 DEF Pcb
<1>3. [w EXCEPT !.pcb.refused = 0, !.pcb.refusedFin = FALSE] = o
  BY <1>1 DEF World
<1> HIDE DEF q
<1>5. q.refused <= MaxRun /\ (q.state \in {"TIME_WAIT", "FREED"} => ~q.backlogpend)
  BY <1>2, LwipAssumption DEF WorldInv, Slot
<1>6. Owes(o, tot + fin)
  <2>1. o.conn = w.conn /\ o.pcb = q
    BY <1>1 DEF World
  <2> HIDE DEF o
  <2> DEFINE old == w.pcb.rcv_wnd + tot + fin + w.conn.inflight + 0
             new == w.pcb.rcv_wnd + 0 + 0 + w.conn.inflight + (tot + fin)
  <2>2. SUFFICES ASSUME w.conn.alive, w.pcb.state # "TIME_WAIT"
                 PROVE  new >= TCP_WND /\ (w.conn.handlers # "noread" => new = TCP_WND)
    BY <1>2, <2>1 DEF Owes
  <2>3. old >= TCP_WND /\ (w.conn.handlers # "noread" => old = TCP_WND)
    BY <2>2 DEF WorldInv, Owes
  <2>4. old = new
    BY <1>1
  <2> QED BY <2>3, <2>4
<1>7. WorldInv(o, tot + fin) /\ Step(w, o) /\ o.pcb = q /\ o.conn = w.conn
  BY <1>2, <1>5, <1>6, PcbChange
<1> HIDE DEF o
<1> QED BY <1>2, <1>3, <1>7

\* tcp_process_refused_data settles refused data and the FIN behind it, or keeps both.
LEMMA RefusedDataInv ==
  ASSUME NEW w, NEW nomem \in BOOLEAN, WorldInv(w, 0)
  PROVE  LET v == tcp_process_refused_data(w, nomem) IN
         /\ WorldInv(v, 0)
         /\ Step(w, v)
         /\ v.pcb.state = w.pcb.state
         /\ v.pcb.snd_buf = w.pcb.snd_buf
<1> DEFINE tot == w.pcb.refused
           fin == IF w.pcb.refusedFin THEN 1 ELSE 0
           o   == [w EXCEPT !.pcb.refused = 0, !.pcb.refusedFin = FALSE]
           t   == TCP_EVENT_RECV(o, tot, nomem)
<1>1. tot \in Nat /\ fin \in Nat
  BY Parts, LwipAssumption DEF WorldInv, Pcb
<1>4. tcp_process_refused_data(w, nomem) =
        IF tot = 0 \/ TCP_EVENT_RECV_err(o) # "ERR_OK" THEN w
        ELSE IF w.pcb.refusedFin THEN ReportFin(t) ELSE t
  BY SMTT(30) DEF tcp_process_refused_data
<1>7. /\ WorldInv(o, tot + fin)
      /\ Step(w, o)
      /\ o.pcb.state = w.pcb.state
      /\ o.pcb.snd_buf = w.pcb.snd_buf
  BY OfferedInv
<1> HIDE DEF o
<1>8. CASE tot = 0 \/ TCP_EVENT_RECV_err(o) # "ERR_OK"
  BY <1>4, <1>8, StepRefl
<1>9. CASE ~(tot = 0 \/ TCP_EVENT_RECV_err(o) # "ERR_OK")
  <2> HIDE DEF tot, fin
  <2>1. WorldInv(t, fin) /\ Step(o, t) /\ PcbKept(o, t)
    BY <1>1, <1>7, <1>9, EventRecvInv
  <2> HIDE DEF t
  <2>2. Step(w, t) /\ t.pcb.state = w.pcb.state /\ t.pcb.snd_buf = w.pcb.snd_buf
    BY <1>7, <2>1, StepTrans DEF PcbKept
  <2>3. CASE w.pcb.refusedFin
    <3>1. fin = 1
      BY <2>3 DEF fin
    <3>2. WorldInv(ReportFin(t), 0) /\ Step(t, ReportFin(t)) /\ PcbKept(t, ReportFin(t))
      BY <2>1, <3>1, ReportFinInv
    <3> QED BY <1>4, <1>9, <2>2, <2>3, <3>2, StepTrans DEF PcbKept
  <2>4. CASE ~w.pcb.refusedFin
    <3>1. fin = 0
      BY <2>4 DEF fin
    <3> QED BY <1>4, <1>9, <2>1, <2>2, <2>4, <3>1
  <2> QED BY <2>3, <2>4
<1> QED BY <1>8, <1>9

\* Data is taken by the recv callback or kept as refused data.
LEMMA DeliverDataInv ==
  ASSUME NEW w, NEW k \in Nat, NEW data \in 0 .. TCP_WND, NEW nomem \in BOOLEAN,
         WorldInv(w, data + k), data <= MaxRun,
         data > 0 => w.pcb.refused = 0
  PROVE  LET v == DeliverData(w, data, nomem) IN
         /\ WorldInv(v, k)
         /\ Step(w, v)
         /\ v.pcb.refusedFin = w.pcb.refusedFin
<1>0. data \in Nat /\ TCP_WND \in Nat
  BY LwipAssumption
<1>1. CASE data = 0
  BY <1>1, StepRefl DEF DeliverData
<1>2. CASE data > 0 /\ TCP_EVENT_RECV_err(w) = "ERR_OK"
  <2>1. DeliverData(w, data, nomem) = TCP_EVENT_RECV(w, data, nomem)
    BY <1>2 DEF DeliverData
  <2> QED BY <1>0, <2>1, <1>2, EventRecvInv DEF PcbKept
<1>3. CASE data > 0 /\ TCP_EVENT_RECV_err(w) # "ERR_OK"
  <2> DEFINE q == [w.pcb EXCEPT !.refused = data]
             u == [w EXCEPT !.pcb = q]
  <2>1. /\ w \in World
        /\ w.pcb \in Pcb
        /\ w.pcb.rcv_wnd \in Nat
        /\ w.pcb.refused = 0
        /\ ~w.pcb.refusedFin
        /\ w.conn.inflight \in Nat
    BY <1>3, Parts, LwipAssumption DEF WorldInv, RefusedRun, Pcb, Conn
  <2>2. DeliverData(w, data, nomem) = u
    BY <1>3, <2>1 DEF DeliverData, World
  <2>3. /\ q \in Pcb
        /\ q.rcv_wnd = w.pcb.rcv_wnd
        /\ q.state = w.pcb.state
        /\ q.callbacks = w.pcb.callbacks
        /\ q.backlogpend = w.pcb.backlogpend
        /\ q.refused = data
        /\ q.refusedFin = w.pcb.refusedFin
    BY <2>1 DEF Pcb
  <2> HIDE DEF q
  <2>4. q.state \in {"TIME_WAIT", "FREED"} => ~q.backlogpend
    BY <2>3 DEF WorldInv, Slot
  <2>5. Owes(u, k)
    <3>1. u.conn = w.conn /\ u.pcb = q
      BY <2>1 DEF World
    <3> HIDE DEF u
    <3> DEFINE old == w.pcb.rcv_wnd + 0 + 0 + w.conn.inflight + (data + k)
               new == w.pcb.rcv_wnd + data + 0 + w.conn.inflight + k
    <3>2. SUFFICES ASSUME w.conn.alive, w.pcb.state # "TIME_WAIT"
                   PROVE  new >= TCP_WND /\ (w.conn.handlers # "noread" => new = TCP_WND)
      BY <2>1, <2>3, <3>1 DEF Owes
    <3>3. old >= TCP_WND /\ (w.conn.handlers # "noread" => old = TCP_WND)
      BY <2>1, <3>2 DEF WorldInv, Owes
    <3>4. old = new
      BY <1>0, <2>1
    <3> QED BY <3>3, <3>4
  <2>6. WorldInv(u, k) /\ Step(w, u) /\ u.pcb = q
    BY <1>3, <2>1, <2>3, <2>4, <2>5, PcbChange
  <2> QED BY <2>2, <2>3, <2>6
<1> QED BY <1>0, <1>1, <1>2, <1>3

\* A FIN is reported or kept behind refused data.
LEMMA DeliverFinInv ==
  ASSUME NEW w, WorldInv(w, 1), ~w.pcb.refusedFin
  PROVE  LET v == DeliverFin(w) IN WorldInv(v, 0) /\ Step(w, v)
<1>1. CASE ~(w.pcb.refused > 0)
  <2>1. DeliverFin(w) = ReportFin(w)
    BY <1>1 DEF DeliverFin
  <2> QED BY <2>1, ReportFinInv
<1>2. CASE w.pcb.refused > 0
  <2> DEFINE q == [w.pcb EXCEPT !.refusedFin = TRUE]
             u == [w EXCEPT !.pcb = q]
  <2>1. /\ w \in World
        /\ w.pcb \in Pcb
        /\ w.pcb.rcv_wnd \in Nat
        /\ w.pcb.refused \in Nat
        /\ w.conn.inflight \in Nat
    BY Parts, LwipAssumption DEF WorldInv, Pcb, Conn
  <2>2. DeliverFin(w) = u
    BY <1>2, <2>1 DEF DeliverFin, World
  <2>3. /\ q \in Pcb
        /\ q.rcv_wnd = w.pcb.rcv_wnd
        /\ q.state = w.pcb.state
        /\ q.callbacks = w.pcb.callbacks
        /\ q.backlogpend = w.pcb.backlogpend
        /\ q.refused = w.pcb.refused
        /\ q.refusedFin
    BY <2>1 DEF Pcb
  <2> HIDE DEF q
  <2>4. q.refused <= MaxRun /\ (q.state \in {"TIME_WAIT", "FREED"} => ~q.backlogpend)
    BY <2>3 DEF WorldInv, Slot, RefusedRun
  <2>5. Owes(u, 0)
    <3>1. u.conn = w.conn /\ u.pcb = q
      BY <2>1 DEF World
    <3> HIDE DEF u
    <3> DEFINE old == w.pcb.rcv_wnd + w.pcb.refused + 0 + w.conn.inflight + 1
               new == w.pcb.rcv_wnd + w.pcb.refused + 1 + w.conn.inflight + 0
    <3>2. SUFFICES ASSUME w.conn.alive, w.pcb.state # "TIME_WAIT"
                   PROVE  new >= TCP_WND /\ (w.conn.handlers # "noread" => new = TCP_WND)
      BY <2>1, <2>3, <3>1 DEF Owes
    <3>3. old >= TCP_WND /\ (w.conn.handlers # "noread" => old = TCP_WND)
      BY <2>1, <3>2 DEF WorldInv, Owes
    <3>4. old = new
      BY <2>1
    <3> QED BY <3>3, <3>4
  <2>6. WorldInv(u, 0) /\ Step(w, u)
    BY <1>2, <2>3, <2>4, <2>5, PcbChange
  <2> QED BY <2>2, <2>6
<1> QED BY <1>1, <1>2

\* What tcp_receive takes of a segment fits the window.
LEMMA ReceivedLemma ==
  ASSUME NEW p \in Pcb, NEW s \in Segment
  PROVE  LET r == Received(p, s) IN
         /\ r.data \in 0 .. TCP_WND
         /\ r.data <= MaxRun
         /\ r.fin \in BOOLEAN
         /\ r.tcplen \in 0 .. p.rcv_wnd
         /\ r.tcplen = r.data + (IF r.fin THEN 1 ELSE 0)
         /\ r.data > 0 \/ r.fin => s.len > 0 \/ s.fin
<1>1. /\ p.rcv_wnd \in 0 .. TCP_WND
      /\ TCP_WND \in Nat
      /\ MaxRun \in Nat
      /\ s.len \in 0 .. MaxRun
      /\ s.fin \in BOOLEAN
  BY LwipAssumption DEF Pcb, Segment
<1> DEFINE tcplen == s.len + (IF s.fin THEN 1 ELSE 0)
<1>2. tcplen \in Nat
  BY <1>1
<1>3. CASE p.state \notin {"ESTABLISHED", "FIN_WAIT_1", "FIN_WAIT_2"} \/ p.rcv_wnd = 0
  <2>1. Received(p, s) = [data |-> 0, fin |-> FALSE, tcplen |-> 0]
    BY <1>3 DEF Received
  <2> QED BY <1>1, <2>1
<1>4. CASE /\ ~(p.state \notin {"ESTABLISHED", "FIN_WAIT_1", "FIN_WAIT_2"} \/ p.rcv_wnd = 0)
           /\ tcplen > p.rcv_wnd
  <2>1. Received(p, s) = [data |-> p.rcv_wnd, fin |-> FALSE, tcplen |-> p.rcv_wnd]
    BY <1>4 DEF Received
  <2>2. (s.len > 0 \/ s.fin) /\ p.rcv_wnd <= s.len
    BY <1>1, <1>4
  <2> QED BY <1>1, <2>1, <2>2
<1>5. CASE /\ ~(p.state \notin {"ESTABLISHED", "FIN_WAIT_1", "FIN_WAIT_2"} \/ p.rcv_wnd = 0)
           /\ ~(tcplen > p.rcv_wnd)
  <2>1. Received(p, s) = [data |-> s.len, fin |-> s.fin, tcplen |-> tcplen]
    BY <1>5 DEF Received
  <2> QED BY <1>1, <1>2, <1>5, <2>1
<1> QED BY <1>3, <1>4, <1>5

\* tcp_process takes tcplen from the window; it drops refused data only on entering
\* TIME_WAIT, where it also returns the slot.
LEMMA ProcessLemma ==
  ASSUME NEW p \in Pcb, NEW s \in Segment, Acceptable(p, s),
         p.state \in {"TIME_WAIT", "FREED"} => ~p.backlogpend,
         p.refusedFin => p.refused > 0, p.refused <= MaxRun
  PROVE  LET q == tcp_process(p, s) IN
         /\ q \in Pcb
         /\ q.state = "FREED" => p.state = "FREED"
         /\ p.state = "TIME_WAIT" => q.state = "TIME_WAIT"
         /\ q.callbacks = p.callbacks
         /\ q.backlogpend => p.backlogpend
         /\ q.state \in {"TIME_WAIT", "FREED"} => ~q.backlogpend
         /\ q.rcv_wnd = p.rcv_wnd - Received(p, s).tcplen
         /\ q.state # "TIME_WAIT" => q.refused = p.refused /\ q.refusedFin = p.refusedFin
         /\ q.refusedFin => q.refused > 0
         /\ q.refused <= MaxRun
         /\ p.refused = 0 => q.refused = 0
<1> DEFINE rw == p.rcv_wnd - Received(p, s).tcplen
           sb == p.snd_buf + s.acked
           r  == tcp_receive(p, s)
           fin == Received(p, s).fin
<1>1. rw \in 0 .. TCP_WND
  <2>1. p.rcv_wnd \in 0 .. TCP_WND /\ TCP_WND \in Nat
    BY LwipAssumption DEF Pcb
  <2> QED BY <2>1, ReceivedLemma
<1>2. sb \in 0 .. TCP_SND_BUF
  <2>1. p.snd_buf \in 0 .. TCP_SND_BUF /\ TCP_SND_BUF \in Nat /\ s.acked \in Nat
    BY LwipAssumption DEF Pcb, Segment
  <2> QED BY <2>1 DEF Acceptable
<1>3. r = [p EXCEPT !.snd_buf = sb, !.rcv_wnd = rw]
  BY DEF tcp_receive
<1> HIDE DEF rw, sb
<1>4. /\ r \in Pcb
      /\ r.state = p.state
      /\ r.callbacks = p.callbacks
      /\ r.backlogpend = p.backlogpend
      /\ r.rcv_wnd = rw
      /\ r.refused = p.refused
      /\ r.refusedFin = p.refusedFin
  BY <1>1, <1>2, <1>3 DEF Pcb
<1>5. tcp_process(p, s) \in
        {r, EnterTimeWait(r)} \cup {[r EXCEPT !.state = st] : st \in {"CLOSE_WAIT", "CLOSING", "FIN_WAIT_2"}}
  BY DEF tcp_process
<1>6. p.state \in {"TIME_WAIT", "FREED"} => tcp_process(p, s) = r
  BY <1>4 DEF tcp_process
<1> HIDE DEF r
<1> DEFINE g == tcp_pcb_purge(r)
           e == [g EXCEPT !.state = "TIME_WAIT"]
<1>7. CASE tcp_process(p, s) = r
  BY <1>4, <1>7 DEF rw
<1>8. CASE tcp_process(p, s) = EnterTimeWait(r) /\ p.state \notin {"TIME_WAIT", "FREED"}
  <2>1. EnterTimeWait(r) = e
    BY DEF EnterTimeWait
  <2>2. r.state \in ActiveStates
    BY <1>4, <1>8 DEF Pcb, PcbStates
  <2>3. g = [r EXCEPT !.backlogpend = FALSE, !.refused = 0, !.refusedFin = FALSE]
    BY <2>2 DEF tcp_pcb_purge
  <2>4. 0 \in 0 .. TCP_WND /\ "TIME_WAIT" \in PcbStates
    BY LwipAssumption DEF PcbStates
  <2>5. /\ g \in Pcb
        /\ g.callbacks = r.callbacks
        /\ ~g.backlogpend
        /\ g.rcv_wnd = r.rcv_wnd
        /\ g.refused = 0
        /\ ~g.refusedFin
    BY <1>4, <2>3, <2>4 DEF Pcb
  <2> HIDE DEF g
  <2>6. /\ e \in Pcb
        /\ e.state = "TIME_WAIT"
        /\ e.callbacks = r.callbacks
        /\ ~e.backlogpend
        /\ e.rcv_wnd = r.rcv_wnd
        /\ e.refused = 0
        /\ e.refused <= MaxRun
        /\ ~e.refusedFin
    BY <2>4, <2>5, LwipAssumption DEF Pcb
  <2> HIDE DEF e
  <2> QED BY <1>4, <1>8, <2>1, <2>6 DEF rw
<1>9. ASSUME NEW st \in {"CLOSE_WAIT", "CLOSING", "FIN_WAIT_2"},
             tcp_process(p, s) = [r EXCEPT !.state = st],
             p.state \notin {"TIME_WAIT", "FREED"}
      PROVE  LET q == tcp_process(p, s) IN
             /\ q \in Pcb
             /\ q.state = "FREED" => p.state = "FREED"
             /\ p.state = "TIME_WAIT" => q.state = "TIME_WAIT"
             /\ q.callbacks = p.callbacks
             /\ q.backlogpend => p.backlogpend
             /\ q.state \in {"TIME_WAIT", "FREED"} => ~q.backlogpend
             /\ q.rcv_wnd = p.rcv_wnd - Received(p, s).tcplen
             /\ q.state # "TIME_WAIT" => q.refused = p.refused /\ q.refusedFin = p.refusedFin
             /\ q.refusedFin => q.refused > 0
             /\ q.refused <= MaxRun
             /\ p.refused = 0 => q.refused = 0
  <2> DEFINE q == [r EXCEPT !.state = st]
  <2>1. st \in PcbStates /\ st \notin {"TIME_WAIT", "FREED"}
    BY <1>9 DEF PcbStates, ActiveStates
  <2>2. /\ q \in Pcb
        /\ q.state = st
        /\ q.callbacks = r.callbacks
        /\ q.backlogpend = r.backlogpend
        /\ q.rcv_wnd = r.rcv_wnd
        /\ q.refused = r.refused
        /\ q.refusedFin = r.refusedFin
    BY <1>4, <2>1 DEF Pcb
  <2> HIDE DEF q
  <2>3. tcp_process(p, s) = q
    BY <1>9 DEF q
  <2> QED BY <1>4, <1>9, <2>1, <2>2, <2>3 DEF rw
<1> QED BY <1>5, <1>6, <1>7, <1>8, <1>9

\* tcp_input_delayed_close preserves the invariant whatever the window owed.
LEMMA DelayedCloseInv ==
  ASSUME NEW w, NEW k \in Nat, NEW j, WorldInv(w, k)
  PROVE  LET v == tcp_input_delayed_close(w) IN WorldInv(v, j) /\ Step(w, v)
<1> DEFINE t == IF w.pcb.rxclosed THEN w ELSE TCP_EVENT_ERR(w, w.pcb.callbacks, "ERR_CLSD")
           v == tcp_free([t EXCEPT !.pcb = tcp_pcb_purge(t.pcb)])
<1>1. WorldInv(t, k) /\ Step(w, t)
  BY EventErrInv, StepRefl
<1>2. tcp_input_delayed_close(w) = v
  BY DEF tcp_input_delayed_close
<1> HIDE DEF t
<1>3. WorldInv(v, j) /\ Step(t, v)
  BY <1>1, FreeInv
<1> QED BY <1>1, <1>2, <1>3, StepTrans

\* The callbacks of tcp_input settle what the window owes for the segment.
LEMMA InputCallbacksInv ==
  ASSUME NEW w, NEW s \in Segment, NEW rcvd, NEW closed \in BOOLEAN, NEW nomem \in BOOLEAN,
         rcvd.data \in 0 .. TCP_WND, rcvd.data <= MaxRun, rcvd.fin \in BOOLEAN,
         WorldInv(w, rcvd.data + (IF rcvd.fin THEN 1 ELSE 0)),
         rcvd.data > 0 \/ rcvd.fin => w.pcb.refused = 0
  PROVE  LET v == InputCallbacks(w, s, rcvd, closed, nomem) IN WorldInv(v, 0) /\ Step(w, v)
<1> DEFINE f == IF rcvd.fin THEN 1 ELSE 0
           k == rcvd.data + f
           a == IF s.acked > 0 THEN TCP_EVENT_SENT(w, s.acked) ELSE w
           d == DeliverData(a, rcvd.data, nomem)
<1>1. f \in Nat /\ k \in Nat /\ rcvd.data \in Nat /\ s.acked \in Nat
  BY LwipAssumption DEF Segment
<1>2. WorldInv(w, k)
  OBVIOUS
<1>3. InputCallbacks(w, s, rcvd, closed, nomem) =
        IF closed THEN tcp_input_delayed_close(a)
        ELSE IF rcvd.data > 0 /\ a.pcb.rxclosed THEN tcp_abandon(a)
        ELSE IF rcvd.fin THEN DeliverFin(d) ELSE d
  BY DEF InputCallbacks
<1> HIDE DEF k
<1>4. WorldInv(a, k) /\ Step(w, a) /\ a.pcb = w.pcb
  BY <1>1, <1>2, EventSentInv, StepRefl
<1> HIDE DEF a
<1>5. CASE closed
  <2>1. WorldInv(tcp_input_delayed_close(a), 0) /\ Step(a, tcp_input_delayed_close(a))
    BY <1>1, <1>4, DelayedCloseInv
  <2> QED BY <1>3, <1>4, <1>5, <2>1, StepTrans
<1>6. CASE ~closed /\ rcvd.data > 0 /\ a.pcb.rxclosed
  <2>1. WorldInv(tcp_abandon(a), 0) /\ Step(a, tcp_abandon(a))
    BY <1>1, <1>4, AbandonInv
  <2> QED BY <1>3, <1>4, <1>6, <2>1, StepTrans
<1>7. CASE ~closed /\ ~(rcvd.data > 0 /\ a.pcb.rxclosed)
  <2>1. WorldInv(a, rcvd.data + f)
    BY <1>4 DEF k
  <2>2. /\ WorldInv(d, f)
        /\ Step(a, d)
        /\ d.pcb.refusedFin = a.pcb.refusedFin
    <3> DEFINE b == rcvd.data
    <3>1. b > 0 => a.pcb.refused = 0
      BY <1>4
    <3>2. b \in 0 .. TCP_WND /\ b <= MaxRun /\ f \in Nat /\ WorldInv(a, b + f)
      BY <1>1, <2>1
    <3> HIDE DEF f, b
    <3>3. LET v == DeliverData(a, b, nomem) IN
          WorldInv(v, f) /\ Step(a, v) /\ v.pcb.refusedFin = a.pcb.refusedFin
      BY <3>1, <3>2, DeliverDataInv
    <3> QED BY <3>3 DEF b
  <2> HIDE DEF d
  <2>3. Step(w, d)
    BY <1>4, <2>2, StepTrans
  <2>4. CASE rcvd.fin
    <3>1. ~d.pcb.refusedFin /\ WorldInv(d, 1)
      <4>1. ~w.pcb.refusedFin
        BY <2>4, <1>2 DEF WorldInv, RefusedRun
      <4> QED BY <1>4, <2>2, <2>4, <4>1
    <3>2. WorldInv(DeliverFin(d), 0) /\ Step(d, DeliverFin(d))
      BY <3>1, DeliverFinInv
    <3> QED BY <1>3, <1>7, <2>3, <2>4, <3>2, StepTrans
  <2>5. CASE ~rcvd.fin
    BY <1>3, <1>7, <2>2, <2>3, <2>5
  <2> QED BY <2>4, <2>5
<1> QED BY <1>5, <1>6, <1>7

\* tcp_process takes from the window what the callbacks then have to settle.
LEMMA ProcessInv ==
  ASSUME NEW t, NEW s \in Segment, WorldInv(t, 0), Acceptable(t.pcb, s),
         ~(t.pcb.refused > 0 /\ (s.len > 0 \/ s.fin))
  PROVE  LET r == Received(t.pcb, s)
             u == [t EXCEPT !.pcb = tcp_process(t.pcb, s)]
         IN /\ r.data \in 0 .. TCP_WND
            /\ r.data <= MaxRun
            /\ r.fin \in BOOLEAN
            /\ WorldInv(u, r.data + (IF r.fin THEN 1 ELSE 0))
            /\ Step(t, u)
            /\ r.data > 0 \/ r.fin => u.pcb.refused = 0
<1> DEFINE p == t.pcb
           q == tcp_process(p, s)
           u == [t EXCEPT !.pcb = q]
           r == Received(p, s)
<1>1. /\ t \in World
      /\ p \in Pcb
      /\ p.rcv_wnd \in 0 .. TCP_WND
      /\ p.refused \in Nat
      /\ t.conn.inflight \in Nat
      /\ TCP_WND \in Nat
      /\ p.state \in {"TIME_WAIT", "FREED"} => ~p.backlogpend
      /\ p.refused <= MaxRun
      /\ p.refusedFin => p.refused > 0
  BY Parts, LwipAssumption DEF WorldInv, Slot, RefusedRun, Pcb, Conn
<1>3. /\ q \in Pcb
      /\ q.state = "FREED" => p.state = "FREED"
      /\ p.state = "TIME_WAIT" => q.state = "TIME_WAIT"
      /\ q.callbacks = p.callbacks
      /\ q.backlogpend => p.backlogpend
      /\ q.state \in {"TIME_WAIT", "FREED"} => ~q.backlogpend
      /\ q.rcv_wnd = p.rcv_wnd - r.tcplen
      /\ q.state # "TIME_WAIT" => q.refused = p.refused /\ q.refusedFin = p.refusedFin
      /\ q.refusedFin => q.refused > 0
      /\ q.refused <= MaxRun
      /\ p.refused = 0 => q.refused = 0
  BY <1>1, ProcessLemma
<1>4. /\ r.data \in 0 .. TCP_WND
      /\ r.data <= MaxRun
      /\ r.fin \in BOOLEAN
      /\ r.tcplen \in 0 .. p.rcv_wnd
      /\ r.tcplen = r.data + (IF r.fin THEN 1 ELSE 0)
      /\ r.data > 0 \/ r.fin => s.len > 0 \/ s.fin
  BY <1>1, ReceivedLemma
<1> HIDE DEF q, r
<1>6. Owes(u, r.tcplen)
  <2>1. u.conn = t.conn /\ u.pcb = q
    BY <1>1 DEF World
  <2> HIDE DEF u
  <2> DEFINE fin == IF p.refusedFin THEN 1 ELSE 0
             old == p.rcv_wnd + p.refused + fin + t.conn.inflight + 0
             new == q.rcv_wnd + p.refused + fin + t.conn.inflight + r.tcplen
  <2>2. SUFFICES ASSUME t.conn.alive, q.state # "TIME_WAIT"
                 PROVE  new >= TCP_WND /\ (t.conn.handlers # "noread" => new = TCP_WND)
    BY <1>3, <2>1 DEF Owes
  <2>3. old >= TCP_WND /\ (t.conn.handlers # "noread" => old = TCP_WND)
    BY <1>3, <2>2 DEF WorldInv, Owes
  <2>4. fin \in Nat /\ r.tcplen \in Int /\ q.rcv_wnd = p.rcv_wnd - r.tcplen
    BY <1>1, <1>3, <1>4
  <2> HIDE DEF fin
  <2>5. old = new
    BY <1>1, <2>4
  <2> QED BY <2>3, <2>5
<1>7. WorldInv(u, r.tcplen) /\ Step(t, u) /\ u.pcb = q
  BY <1>3, <1>6, PcbChange
<1> HIDE DEF u
<1>8. r.data > 0 \/ r.fin => u.pcb.refused = 0
  BY <1>1, <1>3, <1>4, <1>7
<1>9. WorldInv(u, r.data + (IF r.fin THEN 1 ELSE 0))
  BY <1>4, <1>7
<1> QED BY <1>4, <1>7, <1>8, <1>9 DEF u, r, q

\* tcp_input preserves the invariant for every acceptable segment.
LEMMA InputInv ==
  ASSUME NEW w, NEW s \in Segment, NEW nomem \in BOOLEAN, WorldInv(w, 0), Acceptable(w.pcb, s)
  PROVE  LET v == tcp_input(w, s, nomem) IN WorldInv(v, 0) /\ Step(w, v)
<1> DEFINE t == tcp_process_refused_data(w, nomem)
           p == t.pcb
           q == tcp_process(p, s)
           u == [t EXCEPT !.pcb = q]
           r == Received(p, s)
           c == ClosedByAck(p, s)
<1>1. /\ WorldInv(t, 0)
      /\ Step(w, t)
      /\ t.pcb.state = w.pcb.state
      /\ t.pcb.snd_buf = w.pcb.snd_buf
  BY RefusedDataInv
<1>2. tcp_input(w, s, nomem) =
        IF p.refused > 0 /\ (s.len > 0 \/ s.fin) THEN t ELSE InputCallbacks(u, s, r, c, nomem)
  BY DEF tcp_input
<1> HIDE DEF t
<1>3. CASE p.refused > 0 /\ (s.len > 0 \/ s.fin)
  BY <1>1, <1>2, <1>3
<1>4. CASE ~(p.refused > 0 /\ (s.len > 0 \/ s.fin))
  <2>1. Acceptable(p, s) /\ c \in BOOLEAN
    BY <1>1 DEF Acceptable, ClosedByAck
  <2>2. /\ r.data \in 0 .. TCP_WND
        /\ r.data <= MaxRun
        /\ r.fin \in BOOLEAN
        /\ WorldInv(u, r.data + (IF r.fin THEN 1 ELSE 0))
        /\ Step(t, u)
        /\ r.data > 0 \/ r.fin => u.pcb.refused = 0
    BY <1>1, <1>4, <2>1, ProcessInv
  <2> HIDE DEF u, r, c
  <2>3. /\ WorldInv(InputCallbacks(u, s, r, c, nomem), 0)
        /\ Step(u, InputCallbacks(u, s, r, c, nomem))
    BY <2>1, <2>2, InputCallbacksInv
  <2> QED BY <1>1, <1>2, <1>4, <2>2, <2>3, StepTrans
<1> QED BY <1>3, <1>4

\* A RST preserves the invariant.
LEMMA InputRstInv ==
  ASSUME NEW w, NEW nomem \in BOOLEAN, WorldInv(w, 0)
  PROVE  LET v == tcp_input_rst(w, nomem) IN WorldInv(v, 0) /\ Step(w, v)
<1> DEFINE t == tcp_process_refused_data(w, nomem)
           u == TCP_EVENT_ERR(t, t.pcb.callbacks, "ERR_RST")
           v == tcp_free([u EXCEPT !.pcb = tcp_pcb_purge(u.pcb)])
<1>1. WorldInv(t, 0) /\ Step(w, t)
  BY RefusedDataInv
<1>2. tcp_input_rst(w, nomem) = v
  BY DEF tcp_input_rst
<1> HIDE DEF t
<1>3. WorldInv(u, 0) /\ Step(t, u)
  BY <1>1, EventErrInv
<1> HIDE DEF u
<1>4. WorldInv(v, 0) /\ Step(u, v)
  BY <1>3, FreeInv
<1> QED BY <1>1, <1>2, <1>3, <1>4, StepTrans

\* Sending a pending FIN preserves the invariant.
LEMMA ClosependInv ==
  ASSUME NEW w, NEW nofin, WorldInv(w, 0)
  PROVE  LET v == tcp_handle_closepend(w, nofin) IN WorldInv(v, 0) /\ Step(w, v)
<1> DEFINE c == [w.pcb EXCEPT !.closepend = FALSE]
           x == [w EXCEPT !.pcb = c]
           y == [x EXCEPT !.pcb = tcp_close_shutdown_fin(x.pcb, nofin)]
<1>1. w \in World /\ w.pcb \in Pcb
  BY Parts DEF WorldInv
<1>2. /\ c \in Pcb
      /\ c.state = w.pcb.state
      /\ c.callbacks = w.pcb.callbacks
      /\ c.backlogpend = w.pcb.backlogpend
      /\ c.rcv_wnd = w.pcb.rcv_wnd
      /\ c.refused = w.pcb.refused
      /\ c.refusedFin = w.pcb.refusedFin
  BY <1>1 DEF Pcb
<1>3. x.pcb = c
  BY <1>1 DEF World
<1>4. y = [w EXCEPT !.pcb = tcp_close_shutdown_fin(c, nofin)]
  BY <1>1, <1>3 DEF World
<1>5. tcp_handle_closepend(w, nofin) = y \/ tcp_handle_closepend(w, nofin) = w
  <2>1. \/ tcp_handle_closepend(w, nofin) = [w EXCEPT !.pcb = tcp_close_shutdown_fin(c, nofin)]
        \/ tcp_handle_closepend(w, nofin) = w
    BY DEF tcp_handle_closepend
  <2> HIDE DEF c, y
  <2> QED BY <1>4, <2>1
<1> HIDE DEF c
<1>6. /\ c.refused <= MaxRun
      /\ c.refusedFin => c.refused > 0
      /\ c.state \in {"TIME_WAIT", "FREED"} => ~c.backlogpend
  BY <1>2 DEF WorldInv, RefusedRun, Slot
<1>7. Owes([w EXCEPT !.pcb = c], 0)
  BY <1>2, OwesFrame
<1>8. WorldInv(x, 0) /\ Step(w, x)
  BY <1>2, <1>6, <1>7, PcbChange
<1> HIDE DEF x
<1>9. WorldInv(y, 0) /\ Step(w, y)
  BY <1>8, FinInv, StepTrans
<1> HIDE DEF y
<1> QED BY <1>5, <1>9, StepRefl

\* tcp_fasttmr preserves the invariant.
LEMMA FasttmrInv ==
  ASSUME NEW w, NEW nofin, NEW nomem \in BOOLEAN, WorldInv(w, 0)
  PROVE  LET v == tcp_fasttmr(w, nofin, nomem) IN WorldInv(v, 0) /\ Step(w, v)
<1> DEFINE z == tcp_handle_closepend(w, nofin)
<1>1. WorldInv(z, 0) /\ Step(w, z)
  BY ClosependInv
<1>2. tcp_fasttmr(w, nofin, nomem) = tcp_process_refused_data(z, nomem)
  BY DEF tcp_fasttmr
<1> HIDE DEF z
<1>3. /\ WorldInv(tcp_process_refused_data(z, nomem), 0)
      /\ Step(z, tcp_process_refused_data(z, nomem))
  BY <1>1, RefusedDataInv
<1> QED BY <1>1, <1>2, <1>3, StepTrans

\* A pcb shortage in tcp_alloc preserves the invariant of a connection it hits.
LEMMA AllocShortageInv ==
  ASSUME NEW w, NEW nofin, NEW killed, WorldInv(w, 0)
  PROVE  LET v == tcp_alloc_shortage(w, nofin, killed) IN WorldInv(v, 0) /\ Step(w, v)
<1> DEFINE z == tcp_handle_closepend(w, nofin)
<1>1. WorldInv(z, 0) /\ Step(w, z)
  BY ClosependInv
<1>2. tcp_alloc_shortage(w, nofin, killed) \in {tcp_abandon(z), z}
  BY DEF tcp_alloc_shortage
<1> HIDE DEF z
<1>3. WorldInv(tcp_abandon(z), 0) /\ Step(z, tcp_abandon(z))
  BY <1>1, AbandonInv
<1> QED BY <1>1, <1>2, <1>3, StepTrans
==============================================================================
