--------------------------- MODULE ContractProofs ---------------------------
(***************************************************************************)
(* The upper layer's view of a connection, for all values of the           *)
(* constants: TunForgeTCP implements TCPConnectionContract, data reaches   *)
(* the upper layer within the stream, no receive buffer is lost or freed   *)
(* twice, and every byte that flow control counts can be acknowledged.     *)
(*                                                                         *)
(* The first part is about the operations of TFTCPConnection and LwipTcp.  *)
(* Ordered says in which order blocks stand in the connections queue,      *)
(* Gates which flags allow which block to be posted, and Flow what an      *)
(* operation adds to the queue.  Flow is transitive, so an operation that  *)
(* runs several others needs only their lemmas.                            *)
(*                                                                         *)
(* The second part lifts all three to the behaviours of TunForgeTCP.       *)
(* StreamInv is inductive.  A step of the packets queue runs one operation *)
(* and leaves the callbacks alone (PacketsStep, one case per action); a    *)
(* step of the connections queue takes the oldest block (HeadInv,          *)
(* TakeBegins) or makes the call (CallInv, CallReturns).                   *)
(*                                                                         *)
(* The third part is about the bytes in the data blocks: Backs relates     *)
(* what an operation adds to inflightAckBytes to what it posts.            *)
(***************************************************************************)
EXTENDS TunForgeTCPProofs, FiniteSetTheorems

\* The states in which tcp_receive takes data: the peer's FIN has not been received.
Receiving == {"ESTABLISHED", "FIN_WAIT_1", "FIN_WAIT_2"}

\* The blocks that may only follow onActivated, and those that onReadEOF may not precede.
AfterActivated == {"activated", "data", "copied", "sent"}
BeforeEOF      == {"data", "copied", "eof"}

\* The blocks of the connections queue are backed by the flags of their connection and
\* stand in the order of the stream: onActivated, data, onReadEOF.
Ordered(w) ==
  /\ \A i \in 1 .. Len(w.queue) :
       /\ w.queue[i].kind \in AfterActivated => w.conn.didNotifyActive
       /\ w.queue[i].kind = "eof" => w.conn.readEOF
  /\ \A i, j \in 1 .. Len(w.queue) : i < j =>
       /\ w.queue[j].kind = "activated" => w.queue[i].kind \notin AfterActivated
       /\ w.queue[i].kind = "eof" => w.queue[j].kind \notin BeforeEOF

\* What a live connection's state says of the blocks it may still post: an active one
\* has notified onActivated, as has one with bytes to be acknowledged by the peer; after
\* onReadEOF no data can arrive, and none is left to be offered again; a FIN kept behind
\* refused data has ended the receiving states.
Gates(w) ==
  w.conn.alive =>
    /\ w.conn.state = "Active" => w.conn.didNotifyActive
    /\ w.pcb.snd_buf < TCP_SND_BUF => w.conn.didNotifyActive
    /\ w.conn.readEOF => w.pcb.state \notin Receiving /\ w.pcb.refused = 0
    /\ w.pcb.refusedFin => w.pcb.state \notin Receiving

\* What an operation adds to the queue: it extends it, notifies once only, posts no data
\* after EOF and none before activation, and takes a buffer for each data block.
Flow(w, v) ==
  /\ Ordered(w) => Ordered(v)
  /\ v.pbufs - DataBlocks(v.queue) = w.pbufs - DataBlocks(w.queue)
  /\ w.conn.didNotifyActive => v.conn.didNotifyActive
  /\ w.conn.readEOF => v.conn.readEOF
  /\ Len(w.queue) <= Len(v.queue)
  /\ \A i \in 1 .. Len(w.queue) : v.queue[i] = w.queue[i]
  /\ \A i \in Len(w.queue) + 1 .. Len(v.queue) :
       /\ v.queue[i].kind = "activated" => ~w.conn.didNotifyActive
       /\ v.queue[i].kind \in BeforeEOF => ~w.conn.readEOF
  /\ v.conn.didNotifyActive /\ ~w.conn.didNotifyActive =>
       \E i \in Len(w.queue) + 1 .. Len(v.queue) : v.queue[i].kind = "activated"

-----------------------------------------------------------------------------
(* The relation.                                                           *)

\* The data blocks of a queue, one block longer.
LEMMA DataBlocksAppend ==
  ASSUME NEW q \in Seq(Block), NEW b \in Block
  PROVE  /\ DataBlocks(q) \in Nat
         /\ DataBlocks(Append(q, b)) = DataBlocks(q) + (IF b.kind = "data" THEN 1 ELSE 0)
<1> DEFINE D(r) == {i \in DOMAIN r : r[i].kind = "data"}
           a == Append(q, b)
           n == Len(q) + 1
<1>1. /\ DOMAIN q = 1 .. Len(q)
      /\ DOMAIN a = 1 .. n
      /\ Len(q) \in Nat
      /\ \A i \in 1 .. Len(q) : a[i] = q[i]
      /\ a[n] = b
  OBVIOUS
<1>2. IsFiniteSet(D(q)) /\ n \notin D(q)
  <2>1. IsFiniteSet(1 .. Len(q))
    BY <1>1, FS_Interval
  <2>2. D(q) \subseteq 1 .. Len(q)
    BY <1>1
  <2> QED BY <1>1, <2>1, <2>2, FS_Subset
<1>3. Cardinality(D(q)) \in Nat
  BY <1>2, FS_CardinalityType
<1> HIDE DEF a
<1>4. CASE b.kind = "data"
  <2>1. D(a) = D(q) \cup {n}
    BY <1>1, <1>4
  <2>2. Cardinality(D(a)) = Cardinality(D(q)) + 1
    BY <1>2, <2>1, FS_AddElement
  <2> QED BY <1>3, <1>4, <2>2 DEF DataBlocks, a
<1>5. CASE b.kind # "data"
  <2>1. D(a) = D(q)
    BY <1>1, <1>5
  <2>2. DataBlocks(a) = Cardinality(D(a)) /\ DataBlocks(q) = Cardinality(D(q))
    BY DEF DataBlocks
  <2>3. Cardinality(D(a)) = Cardinality(D(q))
    BY <2>1
  <2> HIDE DEF D
  <2> QED BY <1>3, <1>5, <2>2, <2>3 DEF a
<1> QED BY <1>4, <1>5

\* Flow composes.
LEMMA FlowTrans ==
  ASSUME NEW u \in World, NEW v \in World, NEW w \in World, Flow(u, v), Flow(v, w)
  PROVE  Flow(u, w)
<1>1. /\ Len(u.queue) \in Nat
      /\ Len(v.queue) \in Nat
      /\ Len(w.queue) \in Nat
  BY Parts
<1>2. /\ Len(u.queue) <= Len(v.queue)
      /\ Len(v.queue) <= Len(w.queue)
  BY DEF Flow
<1>3. \A i \in 1 .. Len(u.queue) : w.queue[i] = u.queue[i]
  BY <1>1, <1>2 DEF Flow
<1>4. ASSUME NEW i \in Len(u.queue) + 1 .. Len(w.queue)
      PROVE  /\ w.queue[i].kind = "activated" => ~u.conn.didNotifyActive
             /\ w.queue[i].kind \in BeforeEOF => ~u.conn.readEOF
  <2>1. CASE i <= Len(v.queue)
    <3>1. i \in 1 .. Len(v.queue) /\ i \in Len(u.queue) + 1 .. Len(v.queue)
      BY <1>1, <2>1
    <3>2. w.queue[i] = v.queue[i]
      BY <3>1 DEF Flow
    <3> QED BY <3>1, <3>2 DEF Flow
  <2>2. CASE ~(i <= Len(v.queue))
    <3>1. i \in Len(v.queue) + 1 .. Len(w.queue)
      BY <1>1, <2>2
    <3> QED BY <3>1 DEF Flow
  <2> QED BY <2>1, <2>2
<1>5. ASSUME w.conn.didNotifyActive, ~u.conn.didNotifyActive
      PROVE  \E i \in Len(u.queue) + 1 .. Len(w.queue) : w.queue[i].kind = "activated"
  <2>1. CASE v.conn.didNotifyActive
    <3>1. PICK i \in Len(u.queue) + 1 .. Len(v.queue) : v.queue[i].kind = "activated"
      BY <1>5, <2>1 DEF Flow
    <3>2. i \in 1 .. Len(v.queue) /\ i \in Len(u.queue) + 1 .. Len(w.queue)
      BY <1>1, <1>2
    <3>3. w.queue[i] = v.queue[i]
      BY <3>2 DEF Flow
    <3> QED BY <3>1, <3>2, <3>3
  <2>2. CASE ~v.conn.didNotifyActive
    <3>1. PICK i \in Len(v.queue) + 1 .. Len(w.queue) : w.queue[i].kind = "activated"
      BY <1>5, <2>2 DEF Flow
    <3>2. i \in Len(u.queue) + 1 .. Len(w.queue)
      BY <1>1, <1>2
    <3> QED BY <3>1, <3>2
  <2> QED BY <2>1, <2>2
<1>6. w.pbufs - DataBlocks(w.queue) = u.pbufs - DataBlocks(u.queue)
  BY DEF Flow
<1>7. /\ Ordered(u) => Ordered(w)
      /\ u.conn.didNotifyActive => w.conn.didNotifyActive
      /\ u.conn.readEOF => w.conn.readEOF
      /\ Len(u.queue) <= Len(w.queue)
  BY <1>1, <1>2 DEF Flow
<1> QED BY <1>3, <1>4, <1>5, <1>6, <1>7 DEF Flow

\* A change of the pcb, or of other fields of the connection, posts nothing.
LEMMA SilentFlow ==
  ASSUME NEW w \in World, NEW v \in World, v.queue = w.queue, v.pbufs = w.pbufs,
         v.conn.didNotifyActive = w.conn.didNotifyActive,
         v.conn.readEOF = w.conn.readEOF
  PROVE  Flow(w, v)
<1>1. Len(w.queue) \in Nat
  BY Parts
<1>2. Ordered(w) => Ordered(v)
  BY DEF Ordered
<1>3. Len(w.queue) + 1 .. Len(v.queue) = {}
  BY <1>1
<1> QED BY <1>1, <1>2, <1>3 DEF Flow

\* Doing nothing posts nothing.
LEMMA FlowRefl ==
  ASSUME NEW w \in World
  PROVE  Flow(w, w)
BY SilentFlow

\* Posting a block whose flag is set with it, or was set before.
LEMMA PostFlow ==
  ASSUME NEW w \in World, NEW u \in World, NEW kind \in BlockKinds, NEW n \in Nat,
         u.queue = w.queue,
         u.pbufs = IF kind = "data" /\ u.conn.handlers # "unset" THEN w.pbufs + 1 ELSE w.pbufs,
         w.conn.didNotifyActive => u.conn.didNotifyActive,
         w.conn.readEOF => u.conn.readEOF,
         u.conn.didNotifyActive /\ ~w.conn.didNotifyActive =>
           kind = "activated" /\ u.conn.handlers # "unset",
         kind \in AfterActivated => u.conn.didNotifyActive,
         kind = "activated" => ~w.conn.didNotifyActive,
         kind \in BeforeEOF => ~w.conn.readEOF,
         kind = "eof" => u.conn.readEOF
  PROVE  Post(u, kind, n) \in World /\ Flow(w, Post(u, kind, n))
<1> DEFINE b == [kind |-> kind, n |-> n]
           q == Append(u.queue, b)
           v == [u EXCEPT !.queue = q]
<1>1. /\ b \in Block
      /\ b.kind = kind
      /\ w.queue \in Seq(Block)
      /\ Len(w.queue) \in Nat
      /\ w.pbufs \in Int
  <2>1. b \in Block /\ b.kind = kind
    BY DEF Block
  <2> HIDE DEF b
  <2> QED BY <2>1, Parts
<1>2. Post(u, kind, n) \in World
  BY PostLemma
<1>3. CASE u.conn.handlers = "unset"
  <2>1. Post(u, kind, n) = u
    BY <1>3 DEF Post
  <2>2. u.conn.didNotifyActive = w.conn.didNotifyActive
    <3>1. u.conn.didNotifyActive \in BOOLEAN /\ w.conn.didNotifyActive \in BOOLEAN
      BY Parts DEF Conn
    <3> QED BY <1>3, <3>1
  <2>3. u.pbufs = w.pbufs
    BY <1>3
  <2>4. Ordered(w) => Ordered(u)
    BY <2>2 DEF Ordered
  <2>5. Len(w.queue) + 1 .. Len(u.queue) = {}
    BY <1>1
  <2> QED BY <1>1, <1>2, <2>1, <2>2, <2>3, <2>4, <2>5 DEF Flow
<1>4. CASE u.conn.handlers # "unset"
  <2>1. Post(u, kind, n) = v
    BY <1>4 DEF Post
  <2>2. v.conn = u.conn /\ v.pbufs = u.pbufs /\ v.queue = q
    BY DEF World
  <2>3. /\ Len(q) = Len(w.queue) + 1
        /\ \A i \in 1 .. Len(w.queue) : q[i] = w.queue[i]
        /\ q[Len(q)] = b
    BY <1>1
  <2>4. DataBlocks(q) = DataBlocks(w.queue) + (IF kind = "data" THEN 1 ELSE 0)
        /\ DataBlocks(w.queue) \in Nat
    BY <1>1, DataBlocksAppend
  <2> HIDE DEF v, q, b
  <2>5. v.pbufs - DataBlocks(v.queue) = w.pbufs - DataBlocks(w.queue)
    BY <1>1, <1>4, <2>2, <2>4
  <2>6. Len(w.queue) + 1 .. Len(q) = {Len(q)}
    BY <1>1, <2>3
  <2>7. ASSUME Ordered(w)
        PROVE  Ordered(v)
    <3>1. ASSUME NEW i \in 1 .. Len(q)
          PROVE  /\ q[i].kind \in AfterActivated => u.conn.didNotifyActive
                 /\ q[i].kind = "eof" => u.conn.readEOF
      <4>1. CASE i = Len(q)
        BY <1>1, <2>3, <4>1
      <4>2. CASE i # Len(q)
        <5>1. i \in 1 .. Len(w.queue)
          BY <1>1, <2>3, <4>2
        <5> QED BY <2>3, <2>7, <5>1 DEF Ordered
      <4> QED BY <4>1, <4>2
    <3>2. ASSUME NEW i \in 1 .. Len(q), NEW j \in 1 .. Len(q), i < j
          PROVE  /\ q[j].kind = "activated" => q[i].kind \notin AfterActivated
                 /\ q[i].kind = "eof" => q[j].kind \notin BeforeEOF
      <4>1. i \in 1 .. Len(w.queue)
        BY <1>1, <2>3, <3>2
      <4>2. CASE j = Len(q)
        BY <1>1, <2>3, <2>7, <4>1, <4>2 DEF Ordered
      <4>3. CASE j # Len(q)
        <5>1. j \in 1 .. Len(w.queue)
          BY <1>1, <2>3, <4>3
        <5> QED BY <2>3, <2>7, <3>2, <4>1, <5>1 DEF Ordered
      <4> QED BY <4>2, <4>3
    <3> QED BY <2>2, <3>1, <3>2 DEF Ordered
  <2>8. Len(w.queue) <= Len(q)
    BY <1>1, <2>3
  <2> QED BY <1>1, <1>2, <1>4, <2>1, <2>2, <2>3, <2>5, <2>6, <2>7, <2>8 DEF Flow
<1> QED BY <1>3, <1>4

-----------------------------------------------------------------------------
(* The ways to end a connection: they post nothing but onTerminated, from  *)
(* any world, and leave the state as it was or Closed.                     *)

\* What terminateLocked, tcp_free, tcp_abandon and the err callback may do.
Ends(w, v) ==
  /\ v \in World
  /\ Flow(w, v)
  /\ v.conn.state \in {w.conn.state, "Closed"}

\* Ends composes.
LEMMA EndsTrans ==
  ASSUME NEW u \in World, NEW v, NEW w, Ends(u, v), Ends(v, w)
  PROVE  Ends(u, w)
BY FlowTrans DEF Ends

\* A change outside the queue, the buffers, the stream's flags and the state.
LEMMA SilentEnds ==
  ASSUME NEW w \in World, NEW v \in World, v.queue = w.queue, v.pbufs = w.pbufs,
         v.conn.didNotifyActive = w.conn.didNotifyActive,
         v.conn.readEOF = w.conn.readEOF, v.conn.state = w.conn.state
  PROVE  Ends(w, v)
BY SilentFlow DEF Ends

\* Changing the pcb alone.
LEMMA PcbEnds ==
  ASSUME NEW w \in World, NEW p \in Pcb
  PROVE  /\ Ends(w, [w EXCEPT !.pcb = p])
         /\ [w EXCEPT !.pcb = p] \in World
         /\ [w EXCEPT !.pcb = p].conn = w.conn
         /\ [w EXCEPT !.pcb = p].pcb = p
<1> DEFINE v == [w EXCEPT !.pcb = p]
<1>1. /\ v \in World
      /\ v.conn = w.conn
      /\ v.queue = w.queue
      /\ v.pbufs = w.pbufs
      /\ v.pcb = p
  BY DEF World
<1> HIDE DEF v
<1>2. Ends(w, v)
  BY <1>1, SilentEnds
<1> QED BY <1>1, <1>2 DEF v

\* Letting go of the pcb.
LEMMA DetachEnds ==
  ASSUME NEW w \in World
  PROVE  Ends(w, [w EXCEPT !.conn.pcb = FALSE])
<1> DEFINE v == [w EXCEPT !.conn.pcb = FALSE]
<1>1. /\ v \in World
      /\ v.queue = w.queue
      /\ v.pbufs = w.pbufs
      /\ v.conn.didNotifyActive = w.conn.didNotifyActive
      /\ v.conn.readEOF = w.conn.readEOF
      /\ v.conn.state = w.conn.state
  BY DEF World, Conn
<1> HIDE DEF v
<1> QED BY <1>1, SilentEnds DEF v

\* clearCallbackLocked touches the callbacks and the ref only.
LEMMA ClearEnds ==
  ASSUME NEW w \in World
  PROVE  Ends(w, clearCallbackLocked(w))
<1> DEFINE v == clearCallbackLocked(w)
<1>1. /\ v \in World
      /\ v.queue = w.queue
      /\ v.pbufs = w.pbufs
      /\ v.conn.didNotifyActive = w.conn.didNotifyActive
      /\ v.conn.readEOF = w.conn.readEOF
      /\ v.conn.state = w.conn.state
  BY ZenonT(60) DEF clearCallbackLocked, World, Conn, Pcb
<1> HIDE DEF v
<1> QED BY <1>1, SilentEnds DEF v

\* terminateLocked posts onTerminated and nothing else.
LEMMA TerminateEnds ==
  ASSUME NEW w \in World, NEW reason \in Reasons
  PROVE  Ends(w, terminateLocked(w, reason))
<1> DEFINE t == IF w.conn.pcb THEN clearCallbackLocked(w) ELSE w
           u == [t EXCEPT !.conn.didNotifyTerminated = TRUE, !.conn.alive = FALSE,
                          !.conn.state = "Closed", !.conn.reason = reason,
                          !.conn.pendingClose = FALSE]
           v == Post(u, "terminated", 0)
<1>1. Ends(w, w)
  BY SilentEnds
<1>2. Ends(w, t) /\ t \in World
  BY <1>1, ClearEnds DEF Ends
<1>3. terminateLocked(w, reason) = IF w.conn.didNotifyTerminated THEN w ELSE v
  BY DEF terminateLocked, Terminated
<1> HIDE DEF t
<1>4. /\ u \in World
      /\ u.queue = t.queue
      /\ u.pbufs = t.pbufs
      /\ u.conn.didNotifyActive = t.conn.didNotifyActive
      /\ u.conn.readEOF = t.conn.readEOF
      /\ u.conn.state = "Closed"
  BY <1>2, ZenonT(60) DEF World, Conn, ConnStates
<1> HIDE DEF u
<1>5. /\ "terminated" \in BlockKinds
      /\ "terminated" \notin AfterActivated
      /\ "terminated" \notin BeforeEOF
  BY DEF BlockKinds, AfterActivated, BeforeEOF
<1>6. v \in World /\ Flow(t, v)
  BY <1>2, <1>4, <1>5, PostFlow
<1>7. v.conn = u.conn
  BY <1>4, <1>5, PostLemma
<1> HIDE DEF v
<1>8. Flow(w, v)
  BY <1>2, <1>6, FlowTrans DEF Ends
<1> QED BY <1>1, <1>3, <1>4, <1>6, <1>7, <1>8 DEF Ends

\* The ext arg's destroy callback.
LEMMA DestroyEnds ==
  ASSUME NEW w \in World
  PROVE  Ends(w, tf_tcp_extarg_destroy(w))
<1> DEFINE i == [w EXCEPT !.conn.refAlive = FALSE]
           c == [i EXCEPT !.conn.pcb = FALSE]
           v == terminateLocked(c, "Destroyed")
<1>1. /\ i \in World
      /\ i.queue = w.queue
      /\ i.pbufs = w.pbufs
      /\ i.conn.didNotifyActive = w.conn.didNotifyActive
      /\ i.conn.readEOF = w.conn.readEOF
      /\ i.conn.state = w.conn.state
  BY DEF World, Conn
<1>2. tf_tcp_extarg_destroy(w) \in {i, v}
  BY DEF tf_tcp_extarg_destroy, receivedPcbDestroyed
<1> HIDE DEF i
<1>3. Ends(w, i)
  BY <1>1, SilentEnds
<1>4. Ends(i, c)
  BY <1>1, DetachEnds
<1> HIDE DEF c
<1>5. Ends(c, v)
  <2>1. "Destroyed" \in Reasons /\ c \in World
    BY <1>4 DEF Reasons, Ends
  <2> QED BY <2>1, TerminateEnds
<1> HIDE DEF v
<1>6. Ends(w, c)
  BY <1>3, <1>4, EndsTrans
<1>7. Ends(w, v)
  BY <1>5, <1>6, EndsTrans
<1> QED BY <1>2, <1>3, <1>7

\* tcp_free.
LEMMA FreeEnds ==
  ASSUME NEW w \in World
  PROVE  Ends(w, tcp_free(w))
<1> DEFINE d == tf_tcp_extarg_destroy(w)
<1>1. Ends(w, d) /\ d \in World
  BY DestroyEnds DEF Ends
<1>2. tcp_free(w) = [d EXCEPT !.pcb = memp_free(d.pcb)]
  BY DEF tcp_free
<1> HIDE DEF d
<1>3. memp_free(d.pcb) \in Pcb
  BY <1>1, Parts, MempFree
<1>4. Ends(d, [d EXCEPT !.pcb = memp_free(d.pcb)])
  BY <1>1, <1>3, PcbEnds
<1> QED BY <1>1, <1>2, <1>4, EndsTrans

\* tcp_free after tcp_pcb_purge.
LEMMA PurgeFreeEnds ==
  ASSUME NEW w \in World, NEW p \in Pcb
  PROVE  Ends(w, tcp_free([w EXCEPT !.pcb = tcp_pcb_purge(p)]))
<1> DEFINE u == [w EXCEPT !.pcb = tcp_pcb_purge(p)]
<1>1. Ends(w, u)
  BY PurgeLemma, PcbEnds
<1> HIDE DEF u
<1>2. Ends(u, tcp_free(u))
  BY <1>1, FreeEnds DEF Ends
<1>3. Ends(w, tcp_free(u))
  BY <1>1, <1>2, EndsTrans
<1> QED BY <1>3 DEF u

\* The err callback.
LEMMA EventErrEnds ==
  ASSUME NEW w \in World, NEW errf, NEW err
  PROVE  Ends(w, TCP_EVENT_ERR(w, errf, err))
<1> DEFINE s == [w EXCEPT !.stale = TRUE]
           c == [w EXCEPT !.conn.pcb = FALSE]
           r == IF err = "ERR_RST" THEN "Reset" ELSE "Abort"
           v == terminateLocked(c, r)
<1>1. TCP_EVENT_ERR(w, errf, err) \in {w, s, v}
  BY DEF TCP_EVENT_ERR, tf_tcp_err
<1>2. /\ s \in World
      /\ s.conn = w.conn
      /\ s.queue = w.queue
      /\ s.pbufs = w.pbufs
  BY DEF World
<1>3. r \in Reasons
  BY DEF Reasons
<1> HIDE DEF s, r
<1>4. Ends(w, w) /\ Ends(w, s)
  BY <1>2, SilentEnds
<1>5. Ends(w, c)
  BY DetachEnds
<1> HIDE DEF c
<1>6. Ends(c, v)
  BY <1>3, <1>5, TerminateEnds DEF Ends
<1> HIDE DEF v
<1>7. Ends(w, v)
  BY <1>5, <1>6, EndsTrans
<1> QED BY <1>1, <1>4, <1>7

\* tcp_abandon.
LEMMA AbandonEnds ==
  ASSUME NEW w \in World
  PROVE  Ends(w, tcp_abandon(w))
<1> DEFINE u == tcp_free([w EXCEPT !.pcb = tcp_pcb_purge(w.pcb)])
           v == TCP_EVENT_ERR(u, w.pcb.callbacks, "ERR_ABRT")
<1>1. tcp_abandon(w) \in {tcp_free(w), v}
  BY DEF tcp_abandon
<1>2. Ends(w, u) /\ u \in World
  BY Parts, PurgeFreeEnds DEF Ends
<1> HIDE DEF u
<1>3. Ends(u, v)
  BY <1>2, EventErrEnds
<1> HIDE DEF v
<1>4. Ends(w, v)
  BY <1>2, <1>3, EndsTrans
<1> QED BY <1>1, <1>4, FreeEnds

\* tcp_close.
LEMMA CloseEnds ==
  ASSUME NEW w \in World, NEW nomem
  PROVE  Ends(w, tcp_close(w, nomem))
<1> DEFINE p == [w.pcb EXCEPT !.rxclosed = TRUE]
           f == tcp_free([w EXCEPT !.pcb = tcp_pcb_purge(p)])
           g == [w EXCEPT !.pcb = tcp_close_shutdown_fin(p, nomem)]
<1>1. tcp_close(w, nomem) \in {f, g}
  BY DEF tcp_close
<1>2. p \in Pcb
  BY Parts DEF Pcb
<1> HIDE DEF p
<1>3. Ends(w, f)
  BY <1>2, PurgeFreeEnds
<1>4. Ends(w, g)
  BY <1>2, FinLemma, PcbEnds
<1> HIDE DEF f, g
<1> QED BY <1>1, <1>3, <1>4

\* The state Closing on the way to Closed.
LEMMA ClosingFlow ==
  ASSUME NEW w \in World
  PROVE  LET c == [w EXCEPT !.conn.state = "Closing"] IN
         /\ c \in World
         /\ Flow(w, c)
         /\ c.conn.state = "Closing"
<1> DEFINE c == [w EXCEPT !.conn.state = "Closing"]
<1>1. /\ c \in World
      /\ c.queue = w.queue
      /\ c.pbufs = w.pbufs
      /\ c.conn.didNotifyActive = w.conn.didNotifyActive
      /\ c.conn.readEOF = w.conn.readEOF
      /\ c.conn.state = "Closing"
  BY DEF World, Conn, ConnStates
<1> HIDE DEF c
<1> QED BY <1>1, SilentFlow DEF c

\* A connection that is neither New nor Active is dead.
LEMMA EndedIsDead ==
  ASSUME NEW w, NEW k, WorldInv(w, k), w.conn.state \in {"Closing", "Closed"}
  PROVE  ~w.conn.alive
BY DEF WorldInv, Live, Dead

\* abortLocked ends a live connection and leaves a dead one alone.
LEMMA AbortFlow ==
  ASSUME NEW w, NEW k \in Nat, NEW reason \in Reasons, WorldInv(w, k)
  PROVE  LET v == abortLocked(w, reason) IN Flow(w, v) /\ ~v.conn.alive
<1>1. w \in World
  BY DEF WorldInv
<1>2. CASE ~w.conn.alive \/ w.conn.state = "Closed"
  <2>1. abortLocked(w, reason) = w
    BY <1>2 DEF abortLocked
  <2>2. ~w.conn.alive
    BY <1>2 DEF WorldInv, Live, Dead
  <2> QED BY <1>1, <2>1, <2>2, FlowRefl
<1>3. CASE ~(~w.conn.alive \/ w.conn.state = "Closed")
  <2> DEFINE c == [w EXCEPT !.conn.state = "Closing"]
             l == clearCallbackLocked(c)
             u == [l EXCEPT !.conn.pcb = FALSE]
             a == IF c.conn.pcb THEN tcp_abandon(u) ELSE c
             v == terminateLocked(a, reason)
  <2>1. abortLocked(w, reason) = v
    BY <1>3 DEF abortLocked
  <2>2. c \in World /\ Flow(w, c) /\ c.conn.state = "Closing"
    BY <1>1, ClosingFlow
  <2> HIDE DEF c
  <2>3. Ends(c, l) /\ l \in World
    BY <2>2, ClearEnds DEF Ends
  <2> HIDE DEF l
  <2>4. Ends(l, u) /\ u \in World
    BY <2>3, DetachEnds DEF Ends
  <2> HIDE DEF u
  <2>5. Ends(u, tcp_abandon(u))
    BY <2>4, AbandonEnds
  <2>6. Ends(c, c)
    BY <2>2, SilentEnds
  <2>7. Ends(c, a) /\ a \in World
    BY <2>2, <2>3, <2>4, <2>5, <2>6, EndsTrans DEF Ends
  <2> HIDE DEF a
  <2>8. Ends(a, v)
    BY <2>7, TerminateEnds
  <2>9. Ends(c, v)
    BY <2>2, <2>7, <2>8, EndsTrans
  <2> HIDE DEF v
  <2>10. Flow(w, v)
    BY <1>1, <2>2, <2>9, FlowTrans DEF Ends
  <2>11. WorldInv(v, k)
    BY <2>1, AbortInv
  <2>12. ~v.conn.alive
    BY <2>2, <2>9, <2>11, EndedIsDead DEF Ends
  <2> QED BY <2>1, <2>10, <2>12
<1> QED BY <1>2, <1>3

\* tryGracefulCloseLocked ends a live connection and leaves a dead one alone.
LEMMA GracefulFlow ==
  ASSUME NEW w, NEW k \in Nat, NEW nomem \in BOOLEAN, WorldInv(w, k)
  PROVE  LET v == tryGracefulCloseLocked(w, nomem) IN Flow(w, v) /\ ~v.conn.alive
<1>1. w \in World
  BY DEF WorldInv
<1>2. CASE ~w.conn.alive \/ w.conn.state = "Closed"
  <2>1. tryGracefulCloseLocked(w, nomem) = w
    BY <1>2 DEF tryGracefulCloseLocked
  <2>2. ~w.conn.alive
    BY <1>2 DEF WorldInv, Live, Dead
  <2> QED BY <1>1, <2>1, <2>2, FlowRefl
<1>3. CASE ~(~w.conn.alive \/ w.conn.state = "Closed")
  <2> DEFINE c == [w EXCEPT !.conn.state = "Closing"]
             t == tcp_close(c, nomem)
             u == [t EXCEPT !.conn.pcb = FALSE, !.conn.pendingClose = FALSE]
             v == terminateLocked(u, "Close")
  <2>0. w.conn.pcb
    BY <1>3 DEF WorldInv, Live, Dead
  <2>1. tryGracefulCloseLocked(w, nomem) = v
    BY <1>3, <2>0 DEF tryGracefulCloseLocked, tcp_close_err
  <2>2. c \in World /\ Flow(w, c) /\ c.conn.state = "Closing"
    BY <1>1, ClosingFlow
  <2> HIDE DEF c
  <2>3. Ends(c, t) /\ t \in World
    BY <2>2, CloseEnds DEF Ends
  <2> HIDE DEF t
  <2>4. /\ u \in World
        /\ u.queue = t.queue
        /\ u.pbufs = t.pbufs
        /\ u.conn.didNotifyActive = t.conn.didNotifyActive
        /\ u.conn.readEOF = t.conn.readEOF
        /\ u.conn.state = t.conn.state
    BY <2>3 DEF World, Conn
  <2> HIDE DEF u
  <2>5. Ends(t, u)
    BY <2>3, <2>4, SilentEnds
  <2>6. Ends(u, v)
    <3>1. "Close" \in Reasons
      BY DEF Reasons
    <3> QED BY <2>4, <3>1, TerminateEnds
  <2> HIDE DEF v
  <2>7. Ends(c, u)
    BY <2>2, <2>3, <2>5, EndsTrans
  <2>8. Ends(c, v)
    BY <2>2, <2>6, <2>7, EndsTrans
  <2>10. Flow(w, v)
    BY <1>1, <2>2, <2>8, FlowTrans DEF Ends
  <2>11. WorldInv(v, k)
    BY <2>1, GracefulCloseLocked
  <2>12. ~v.conn.alive
    BY <2>2, <2>8, <2>11, EndedIsDead DEF Ends
  <2> QED BY <2>1, <2>10, <2>12
<1> QED BY <1>2, <1>3

\* gracefulClose likewise.
LEMMA GracefulCloseFlow ==
  ASSUME NEW w, NEW k \in Nat, NEW nomem \in BOOLEAN, WorldInv(w, k)
  PROVE  LET v == gracefulClose(w, nomem) IN Flow(w, v) /\ ~v.conn.alive
<1>1. w.conn.alive => w.conn.pcb
  BY DEF WorldInv, Live, Dead
<1>2. CASE w.conn.alive
  <2>1. gracefulClose(w, nomem) = tryGracefulCloseLocked(w, nomem)
    BY <1>1, <1>2 DEF gracefulClose
  <2> QED BY <2>1, GracefulFlow
<1>3. CASE ~w.conn.alive
  <2>1. gracefulClose(w, nomem) = w /\ w \in World
    BY <1>3 DEF gracefulClose, WorldInv
  <2> QED BY <1>3, <2>1, FlowRefl
<1> QED BY <1>2, <1>3

\* Freeing the pcb ends the connection.
LEMMA FreeFlow ==
  ASSUME NEW w, NEW k, WorldInv(w, k)
  PROVE  LET v == tcp_free([w EXCEPT !.pcb = tcp_pcb_purge(w.pcb)]) IN
         Flow(w, v) /\ ~v.conn.alive
<1> DEFINE v == tcp_free([w EXCEPT !.pcb = tcp_pcb_purge(w.pcb)])
<1>1. w \in World
  BY DEF WorldInv
<1>2. Ends(w, v)
  BY <1>1, Parts, PurgeFreeEnds
<1>3. Dead(v)
  BY FreeInv
<1> HIDE DEF v
<1> QED BY <1>2, <1>3 DEF Ends, Dead, v

\* The err callback after the pcb is freed changes nothing more.
LEMMA FreeErrFlow ==
  ASSUME NEW w, NEW k, NEW errf, NEW err, WorldInv(w, k)
  PROVE  LET v == TCP_EVENT_ERR(tcp_free([w EXCEPT !.pcb = tcp_pcb_purge(w.pcb)]), errf, err) IN
         Flow(w, v) /\ ~v.conn.alive
<1> DEFINE u == tcp_free([w EXCEPT !.pcb = tcp_pcb_purge(w.pcb)])
           v == TCP_EVENT_ERR(u, errf, err)
<1>1. w \in World
  BY DEF WorldInv
<1>2. Flow(w, u) /\ WorldInv(u, 0) /\ Dead(u) /\ u \in World
  BY FreeFlow, FreeInv DEF WorldInv
<1> HIDE DEF u
<1>3. Ends(u, v)
  BY <1>2, EventErrEnds
<1>4. Step(u, v)
  BY <1>2, EventErrInv
<1> HIDE DEF v
<1>5. Flow(w, v)
  BY <1>1, <1>2, <1>3, FlowTrans DEF Ends
<1>6. ~v.conn.alive
  BY <1>2, <1>4 DEF Step, Dead
<1> QED BY <1>5, <1>6 DEF u, v

\* tcp_abandon ends the connection.
LEMMA AbandonFlow ==
  ASSUME NEW w, NEW k, WorldInv(w, k)
  PROVE  LET v == tcp_abandon(w) IN Flow(w, v) /\ ~v.conn.alive
<1>1. w \in World
  BY DEF WorldInv
<1>2. CASE w.pcb.state = "TIME_WAIT"
  <2>1. tcp_abandon(w) = tcp_free(w)
    BY <1>2 DEF tcp_abandon
  <2>2. Dead(tcp_free(w)) /\ Ends(w, tcp_free(w))
    BY <1>1, <1>2, FreeInvTimeWait, FreeEnds
  <2> QED BY <2>1, <2>2 DEF Dead, Ends
<1>3. CASE w.pcb.state # "TIME_WAIT"
  <2>1. tcp_abandon(w) = TCP_EVENT_ERR(tcp_free([w EXCEPT !.pcb = tcp_pcb_purge(w.pcb)]),
                                       w.pcb.callbacks, "ERR_ABRT")
    BY <1>3 DEF tcp_abandon
  <2> QED BY <2>1, FreeErrFlow
<1> QED BY <1>2, <1>3

\* Once a connection is dead its gates say nothing.
LEMMA DeadGates ==
  ASSUME NEW w, ~w.conn.alive
  PROVE  Gates(w)
BY DEF Gates

\* The gates depend on a few fields.
LEMMA GatesFrame ==
  ASSUME NEW w, NEW v, Gates(w),
         v.conn.alive => w.conn.alive,
         v.conn.state = w.conn.state,
         v.conn.didNotifyActive = w.conn.didNotifyActive,
         v.conn.readEOF = w.conn.readEOF,
         v.pcb.state = w.pcb.state,
         v.pcb.snd_buf = w.pcb.snd_buf,
         v.pcb.refused = w.pcb.refused,
         v.pcb.refusedFin = w.pcb.refusedFin
  PROVE  Gates(v)
BY DEF Gates

-----------------------------------------------------------------------------
(* The public methods.                                                     *)

\* The fields of a connection that the stream depends on.
SameStream(c, d) ==
  /\ d.alive = c.alive
  /\ d.state = c.state
  /\ d.didNotifyActive = c.didNotifyActive
  /\ d.readEOF = c.readEOF
  /\ d.handlers = c.handlers

\* updateWritableLocked posts onWritableChanged only.
LEMMA WritableFlow ==
  ASSUME NEW w \in World, NEW x \in BOOLEAN
  PROVE  LET v == updateWritableLocked(w, x) IN
         /\ v \in World
         /\ Flow(w, v)
         /\ SameStream(w.conn, v.conn)
         /\ v.pcb = w.pcb
<1> DEFINE u == [w EXCEPT !.conn.writable = x]
           n == IF x THEN 1 ELSE 0
           v == Post(u, "writable", n)
<1>1. /\ u \in World
      /\ u.pcb = w.pcb
      /\ u.queue = w.queue
      /\ u.pbufs = w.pbufs
      /\ SameStream(w.conn, u.conn)
  BY DEF World, Conn, SameStream
<1>2. /\ n \in Nat
      /\ "writable" \in BlockKinds
      /\ "writable" \notin AfterActivated
      /\ "writable" \notin BeforeEOF
  BY DEF BlockKinds, AfterActivated, BeforeEOF
<1>3. updateWritableLocked(w, x) = IF w.conn.writable = x THEN w ELSE v
  BY DEF updateWritableLocked
<1> HIDE DEF u, n
<1>4. v \in World /\ Flow(w, v)
  BY <1>1, <1>2, PostFlow DEF SameStream
<1>5. v.conn = u.conn /\ v.pcb = u.pcb
  BY <1>1, <1>2, PostLemma
<1> HIDE DEF v
<1>6. Flow(w, w) /\ SameStream(w.conn, w.conn)
  BY FlowRefl DEF SameStream
<1> QED BY <1>1, <1>3, <1>4, <1>5, <1>6

\* markActive posts onActivated, once, and opens the gate for data.
LEMMA MarkActiveFlow ==
  ASSUME NEW w, NEW k \in Nat, WorldInv(w, k), Gates(w), w.conn.handlers # "unset"
  PROVE  LET v == markActive(w) IN Flow(w, v) /\ Gates(v)
<1>1. w \in World /\ w.pcb \in Pcb
  BY Parts DEF WorldInv
<1>2. CASE ~w.conn.alive \/ ~w.conn.pcb \/ w.conn.state # "New"
  <2>1. markActive(w) = w
    BY <1>2 DEF markActive
  <2> QED BY <1>1, <2>1, FlowRefl
<1>3. CASE w.conn.alive /\ w.conn.pcb /\ w.conn.state = "New"
  <2> DEFINE p == tcp_backlog_accepted(w.pcb)
             u == [w EXCEPT !.conn.state = "Active", !.pcb = p]
             a == [u EXCEPT !.conn.didNotifyActive = TRUE]
             v == Post(a, "activated", 0)
  <2>1. /\ p \in Pcb
        /\ p.state = w.pcb.state
        /\ p.snd_buf = w.pcb.snd_buf
        /\ p.refused = w.pcb.refused
        /\ p.refusedFin = w.pcb.refusedFin
    BY <1>1 DEF tcp_backlog_accepted, Pcb
  <2>2. markActive(w) = IF u.conn.didNotifyActive THEN u ELSE v
    BY <1>3 DEF markActive, notifyActiveOnceLocked
  <2> HIDE DEF p
  <2>3. /\ u \in World
        /\ u.queue = w.queue
        /\ u.pbufs = w.pbufs
        /\ u.pcb = p
        /\ u.conn.didNotifyActive = w.conn.didNotifyActive
        /\ u.conn.readEOF = w.conn.readEOF
        /\ u.conn.handlers = w.conn.handlers
        /\ u.conn.alive = w.conn.alive
    BY <1>1, <2>1 DEF World, Conn, ConnStates
  <2> HIDE DEF u
  <2>4. /\ a \in World
        /\ a.queue = w.queue
        /\ a.pbufs = w.pbufs
        /\ a.pcb = p
        /\ a.conn.didNotifyActive
        /\ a.conn.readEOF = w.conn.readEOF
        /\ a.conn.handlers = w.conn.handlers
        /\ a.conn.alive = w.conn.alive
    BY <2>3 DEF World, Conn
  <2> HIDE DEF a
  <2>5. CASE u.conn.didNotifyActive
    <3>1. Flow(w, u)
      BY <1>1, <2>3, SilentFlow
    <3>2. Gates(u)
      BY <1>3, <2>1, <2>3, <2>5 DEF Gates
    <3> QED BY <2>2, <2>5, <3>1, <3>2
  <2>6. CASE ~u.conn.didNotifyActive
    <3>1. /\ "activated" \in BlockKinds
          /\ "activated" \notin BeforeEOF
          /\ "activated" # "data"
          /\ "activated" # "eof"
          /\ 0 \in Nat
      BY DEF BlockKinds, BeforeEOF
    <3>2. Flow(w, v)
      BY <1>1, <2>3, <2>4, <2>6, <3>1, PostFlow
    <3>3. v.conn = a.conn /\ v.pcb = a.pcb
      BY <2>4, <3>1, PostLemma
    <3> HIDE DEF v
    <3>4. Gates(v)
      BY <1>3, <2>1, <2>4, <3>3 DEF Gates
    <3> QED BY <2>2, <2>6, <3>2, <3>4
  <2> QED BY <2>5, <2>6
<1> QED BY <1>2, <1>3

\* setInboundDeliveryEnabled posts nothing.
LEMMA SetInboundFlow ==
  ASSUME NEW w \in World, NEW x \in BOOLEAN, Gates(w)
  PROVE  LET v == setInboundDeliveryEnabled(w, x) IN Flow(w, v) /\ Gates(v)
<1> DEFINE v == [w EXCEPT !.conn.recvEnabled = x]
<1>1. /\ v \in World
      /\ v.queue = w.queue
      /\ v.pbufs = w.pbufs
      /\ v.pcb = w.pcb
      /\ SameStream(w.conn, v.conn)
  BY DEF World, Conn, SameStream
<1>2. setInboundDeliveryEnabled(w, x) = v
  BY DEF setInboundDeliveryEnabled
<1> HIDE DEF v
<1>3. Flow(w, v) /\ Gates(v)
  BY <1>1, SilentFlow, GatesFrame DEF SameStream
<1> QED BY <1>2, <1>3

\* Counting bytes in flight posts nothing.
LEMMA InflightFlow ==
  ASSUME NEW w \in World, NEW delta, updateInflightAckBytes(w, delta) \in World
  PROVE  LET v == updateInflightAckBytes(w, delta) IN
         /\ Flow(w, v)
         /\ SameStream(w.conn, v.conn)
         /\ v.pcb = w.pcb
         /\ v.queue = w.queue
         /\ v.pbufs = w.pbufs
         /\ v.dropped = w.dropped
<1> DEFINE m == IF w.conn.inflight + delta < 0 THEN 0 ELSE w.conn.inflight + delta
           v == [w EXCEPT !.conn.inflight = m]
<1>1. updateInflightAckBytes(w, delta) = v
  BY DEF updateInflightAckBytes
<1> HIDE DEF m
<1>2. /\ v.queue = w.queue
      /\ v.pbufs = w.pbufs
      /\ v.dropped = w.dropped
      /\ v.pcb = w.pcb
      /\ SameStream(w.conn, v.conn)
  BY DEF World, Conn, SameStream
<1> HIDE DEF v
<1>3. Flow(w, v)
  BY <1>1, <1>2, SilentFlow DEF SameStream
<1> QED BY <1>1, <1>2, <1>3

\* acknowledgeDeliveredBytes posts nothing.
LEMMA AcknowledgeFlow ==
  ASSUME NEW w, NEW k \in Nat, NEW bytes \in Nat, WorldInv(w, k), Gates(w)
  PROVE  LET v == acknowledgeDeliveredBytes(w, bytes) IN
         /\ Flow(w, v)
         /\ Gates(v)
         /\ SameStream(w.conn, v.conn)
         /\ v.queue = w.queue
         /\ v.pbufs = w.pbufs
<1> DEFINE v == acknowledgeDeliveredBytes(w, bytes)
           credit == IF bytes < w.conn.inflight THEN bytes ELSE w.conn.inflight
           q == tcp_recved(w.pcb, credit)
           u == [w EXCEPT !.pcb = q]
<1>1. w \in World /\ w.pcb \in Pcb /\ w.conn.inflight \in Nat
  BY Parts DEF WorldInv, Conn
<1>2. v \in World
  BY AcknowledgeInv DEF WorldInv
<1>3. v = w \/ v = updateInflightAckBytes(u, 0 - credit)
  BY DEF acknowledgeDeliveredBytes
<1>4. credit \in Nat
  BY <1>1
<1> HIDE DEF credit, v
<1>5. /\ q \in Pcb
      /\ q.state = w.pcb.state
      /\ q.snd_buf = w.pcb.snd_buf
      /\ q.refused = w.pcb.refused
      /\ q.refusedFin = w.pcb.refusedFin
  BY <1>1, <1>4, RecvedLemma
<1> HIDE DEF q
<1>6. /\ u \in World
      /\ u.conn = w.conn
      /\ u.pcb = q
      /\ u.queue = w.queue
      /\ u.pbufs = w.pbufs
  BY <1>1, <1>5 DEF World
<1> HIDE DEF u
<1>7. CASE v = w
  BY <1>1, <1>7, FlowRefl DEF v, SameStream
<1>8. CASE v = updateInflightAckBytes(u, 0 - credit)
  <2>1. /\ SameStream(u.conn, v.conn)
        /\ v.pcb = q
        /\ v.queue = w.queue
        /\ v.pbufs = w.pbufs
    BY <1>2, <1>6, <1>8, InflightFlow
  <2>2. Flow(w, v)
    BY <1>1, <1>2, <1>6, <2>1, SilentFlow DEF SameStream
  <2>3. Gates(v)
    BY <1>5, <1>6, <2>1, GatesFrame DEF SameStream
  <2> QED BY <1>6, <2>1, <2>2, <2>3 DEF v
<1> QED BY <1>3, <1>7, <1>8

\* Queueing our FIN does not return to a receiving state.
LEMMA FinReceiving ==
  ASSUME NEW p \in Pcb, NEW nomem
  PROVE  tcp_close_shutdown_fin(p, nomem).state \in Receiving => p.state \in Receiving
<1> DEFINE q == tcp_close_shutdown_fin(p, nomem)
<1>1. CASE p.state \notin {"ESTABLISHED", "CLOSE_WAIT"}
  BY <1>1 DEF tcp_close_shutdown_fin
<1>2. CASE p.state = "ESTABLISHED"
  BY <1>2 DEF Receiving
<1>3. CASE p.state = "CLOSE_WAIT" /\ nomem
  <2>1. q = [p EXCEPT !.closepend = TRUE]
    BY <1>3 DEF tcp_close_shutdown_fin
  <2>2. q.state = "CLOSE_WAIT"
    BY <1>3, <2>1 DEF Pcb
  <2> QED BY <2>2 DEF Receiving
<1>4. CASE p.state = "CLOSE_WAIT" /\ ~nomem
  <2>1. q = [p EXCEPT !.state = "LAST_ACK"]
    BY <1>4 DEF tcp_close_shutdown_fin
  <2>2. q.state = "LAST_ACK"
    BY <2>1 DEF Pcb
  <2> QED BY <2>2 DEF Receiving
<1> QED BY <1>1, <1>2, <1>3, <1>4

\* A change of the pcb's state out of the receiving states, the data it refused and its
\* send buffer kept.
LEMMA PcbGates ==
  ASSUME NEW w, NEW v, Gates(w), SameStream(w.conn, v.conn),
         v.pcb.state \in Receiving => w.pcb.state \in Receiving,
         v.pcb.snd_buf = w.pcb.snd_buf,
         v.pcb.refused = w.pcb.refused,
         v.pcb.refusedFin = w.pcb.refusedFin
  PROVE  Gates(v)
BY DEF Gates, SameStream

\* shutdownWrite posts nothing.
LEMMA ShutdownWriteFlow ==
  ASSUME NEW w \in World, NEW nomem, Gates(w)
  PROVE  LET v == shutdownWrite(w, nomem) IN Flow(w, v) /\ Gates(v)
<1> DEFINE q == tcp_close_shutdown_fin(w.pcb, nomem)
           v == [w EXCEPT !.conn.writeFIN = TRUE, !.pcb = q]
<1>1. shutdownWrite(w, nomem) = w \/ shutdownWrite(w, nomem) = v
  BY DEF shutdownWrite, tcp_shutdown
<1>2. /\ q \in Pcb
      /\ q.snd_buf = w.pcb.snd_buf
      /\ q.refused = w.pcb.refused
      /\ q.refusedFin = w.pcb.refusedFin
      /\ q.state \in Receiving => w.pcb.state \in Receiving
  BY Parts, FinLemma, FinReceiving
<1> HIDE DEF q
<1>3. /\ v \in World
      /\ v.queue = w.queue
      /\ v.pbufs = w.pbufs
      /\ v.pcb = q
      /\ SameStream(w.conn, v.conn)
  BY <1>2 DEF World, Conn, SameStream
<1> HIDE DEF v
<1>4. Flow(w, v) /\ Gates(v)
  BY <1>2, <1>3, SilentFlow, PcbGates DEF SameStream
<1> QED BY <1>1, <1>4, FlowRefl

\* writeBytes posts a change of writability or ends the connection.
LEMMA WriteBytesFlow ==
  ASSUME NEW w, NEW k \in Nat, NEW length \in Nat, NEW nomem \in BOOLEAN, WorldInv(w, k), Gates(w)
  PROVE  LET v == writeBytes(w, length, nomem) IN Flow(w, v) /\ Gates(v)
<1> DEFINE q == tcp_write(w.pcb, length, nomem)
           t == [w EXCEPT !.pcb = q]
           e == tcp_write_err(w.pcb, length, nomem)
<1>1. w \in World /\ w.pcb \in Pcb
  BY Parts DEF WorldInv
<1>2. CASE ~w.conn.alive \/ ~w.conn.pcb \/ w.conn.state # "Active" \/ w.conn.writeFIN
  <2>1. writeBytes(w, length, nomem) = w
    BY <1>2 DEF writeBytes
  <2> QED BY <1>1, <2>1, FlowRefl
<1>3. CASE w.conn.alive /\ w.conn.pcb /\ w.conn.state = "Active" /\ ~w.conn.writeFIN
  <2>1. e \in {"ERR_CONN", "ERR_MEM", "ERR_OK"}
    BY DEF tcp_write_err
  <2>2. /\ writeBytes(w, length, nomem) =
             CASE e = "ERR_OK"  -> updateWritableLocked(t, tf_tcp_write_ready(t.pcb))
               [] e = "ERR_MEM" -> updateWritableLocked(t, FALSE)
               [] OTHER         -> abortLocked(t, "Abort")
    BY <1>3 DEF writeBytes
  <2>3. /\ q \in Pcb
        /\ q.state = w.pcb.state
        /\ q.refused = w.pcb.refused
        /\ q.refusedFin = w.pcb.refusedFin
    <3>1. CASE e = "ERR_OK"
      <4>1. q = [w.pcb EXCEPT !.snd_buf = w.pcb.snd_buf - length]
        BY <3>1 DEF tcp_write
      <4>2. length <= w.pcb.snd_buf
        BY <1>1, <3>1, LwipAssumption DEF tcp_write_err, Pcb
      <4>3. w.pcb.snd_buf - length \in 0 .. TCP_SND_BUF
        BY <1>1, <4>2, LwipAssumption DEF Pcb
      <4> HIDE DEF q
      <4> QED BY <1>1, <4>1, <4>3 DEF Pcb
    <3>2. CASE e # "ERR_OK"
      BY <1>1, <3>2 DEF tcp_write
    <3> QED BY <3>1, <3>2
  <2> HIDE DEF q
  <2>4. /\ t \in World
        /\ t.conn = w.conn
        /\ t.pcb = q
        /\ t.queue = w.queue
        /\ t.pbufs = w.pbufs
    BY <1>1, <2>3 DEF World
  <2>5. CASE e \in {"ERR_OK", "ERR_MEM"}
    <3>1. PICK x \in BOOLEAN : writeBytes(w, length, nomem) = updateWritableLocked(t, x)
      BY <2>2, <2>5, WriteReady
    <3> DEFINE v == updateWritableLocked(t, x)
    <3> HIDE DEF t
    <3>2. v \in World /\ Flow(t, v) /\ SameStream(t.conn, v.conn) /\ v.pcb = q
      BY <2>4, WritableFlow
    <3>3. Flow(w, t)
      BY <1>1, <2>4, SilentFlow
    <3> HIDE DEF v
    <3>4. Flow(w, v)
      BY <1>1, <2>4, <3>2, <3>3, FlowTrans
    <3>5. Gates(v)
      BY <1>3, <2>3, <2>4, <3>2 DEF Gates, SameStream
    <3> QED BY <3>1, <3>4, <3>5 DEF v
  <2>6. CASE e = "ERR_CONN"
    <3>1. writeBytes(w, length, nomem) = abortLocked(t, "Abort")
      BY <2>2, <2>6
    <3>2. t = w
      <4>1. q = w.pcb
        BY <2>6 DEF tcp_write, q
      <4> QED BY <1>1, <4>1 DEF World
    <3>3. "Abort" \in Reasons
      BY DEF Reasons
    <3>4. Flow(w, abortLocked(w, "Abort")) /\ ~abortLocked(w, "Abort").conn.alive
      BY <3>3, AbortFlow
    <3> QED BY <3>1, <3>2, <3>4, DeadGates
  <2> QED BY <2>1, <2>5, <2>6
<1> QED BY <1>2, <1>3

-----------------------------------------------------------------------------
(* The raw lwIP callbacks.                                                 *)

\* Data that is delivered comes after onActivated and before onReadEOF, and a block
\* that carries a receive buffer counts it.
LEMMA DeliverFlow ==
  ASSUME NEW w, NEW k \in Nat, NEW tot \in Nat, NEW nomem \in BOOLEAN, WorldInv(w, k), Gates(w),
         w.conn.alive, w.conn.state = "Active", ~w.conn.readEOF
  PROVE  LET v == Deliver(w, tot, nomem) IN
         Flow(w, v) /\ Gates(v) /\ SameStream(w.conn, v.conn)
<1> DEFINE v == Deliver(w, tot, nomem)
<1>1. /\ w \in World
      /\ w.pcb \in Pcb
      /\ w.conn.handlers \in {"bytes", "copy", "noread"}
      /\ w.conn.didNotifyActive
      /\ w.pbufs \in Int
  BY Parts DEF WorldInv, UnsetIsNew, Conn, Handlers, Gates
<1>2. PcbKept(w, v)
  BY DeliverInv
<1>3. SUFFICES Flow(w, v) /\ SameStream(w.conn, v.conn)
  <2> HIDE DEF v
  <2>1. SUFFICES ASSUME Flow(w, v), SameStream(w.conn, v.conn)
                 PROVE  Flow(w, v) /\ Gates(v) /\ SameStream(w.conn, v.conn)
    BY DEF v
  <2>2. Gates(v)
    BY <1>2, <2>1, GatesFrame DEF SameStream, PcbKept
  <2> QED BY <2>1, <2>2
<1>4. CASE w.conn.handlers = "bytes" /\ ~nomem
  <2> DEFINE m == w.pbufs + 1
             u == [w EXCEPT !.pbufs = m]
  <2>1. v = Post(u, "data", tot)
    BY <1>4 DEF Deliver
  <2>2. m \in Int
    BY <1>1
  <2> HIDE DEF v, m
  <2>3. /\ u \in World
        /\ u.conn = w.conn
        /\ u.queue = w.queue
        /\ u.pbufs = m
    BY <1>1, <2>2 DEF World
  <2> HIDE DEF u
  <2>4. "data" \in BlockKinds
    BY DEF BlockKinds
  <2>5. Flow(w, Post(u, "data", tot))
    BY <1>1, <1>4, <2>3, <2>4, PostFlow DEF m
  <2>6. Post(u, "data", tot).conn = w.conn
    BY <2>3, <2>4, PostLemma
  <2> QED BY <2>1, <2>5, <2>6 DEF SameStream
<1>5. CASE w.conn.handlers = "copy" /\ ~nomem
  <2> DEFINE u == acknowledgeDeliveredBytes(w, tot)
  <2>1. v = Post(u, "copied", tot)
    BY <1>5 DEF Deliver
  <2>2. /\ u \in World
        /\ SameStream(w.conn, u.conn)
        /\ u.queue = w.queue
        /\ u.pbufs = w.pbufs
    BY AcknowledgeInv, AcknowledgeFlow DEF WorldInv
  <2> HIDE DEF u, v
  <2>3. "copied" \in BlockKinds /\ "copied" # "data" /\ "copied" # "eof" /\ "copied" # "activated"
    BY DEF BlockKinds
  <2>4. Flow(w, Post(u, "copied", tot))
    BY <1>1, <2>2, <2>3, PostFlow DEF SameStream
  <2>5. Post(u, "copied", tot).conn = u.conn
    BY <2>2, <2>3, PostLemma
  <2> QED BY <2>1, <2>2, <2>4, <2>5 DEF SameStream
<1>6. CASE w.conn.handlers \in {"bytes", "copy"} /\ nomem
  <2>1. v = Dropped(w, tot)
    BY <1>6 DEF Deliver
  <2>2. v \in World /\ v.conn = w.conn /\ v.queue = w.queue /\ v.pbufs = w.pbufs
    BY <2>1, DroppedInv DEF WorldInv
  <2> HIDE DEF v
  <2> QED BY <1>1, <2>2, SilentFlow DEF SameStream
<1>7. CASE w.conn.handlers = "noread"
  <2> DEFINE u == [w EXCEPT !.pcb = tcp_recved(w.pcb, tot)]
  <2>1. v = Dropped(u, tot)
    BY <1>7 DEF Deliver
  <2>2. u.conn = w.conn /\ u.queue = w.queue /\ u.pbufs = w.pbufs
    BY <1>1 DEF World
  <2>3. WorldInv(u, k)
    BY <1>7, RecvedInv
  <2> HIDE DEF u, v
  <2>4. v \in World /\ v.conn = u.conn /\ v.queue = u.queue /\ v.pbufs = u.pbufs
    BY <2>1, <2>3, DroppedInv DEF WorldInv
  <2> QED BY <1>1, <2>2, <2>4, SilentFlow DEF SameStream
<1> QED BY <1>1, <1>4, <1>5, <1>6, <1>7

\* The recv callback takes data, if the connection has not reported EOF.
LEMMA EventRecvFlow ==
  ASSUME NEW w, NEW k \in Nat, NEW tot \in Nat, NEW nomem \in BOOLEAN, WorldInv(w, tot + k),
         Gates(w), TCP_EVENT_RECV_err(w) = "ERR_OK", w.conn.alive => ~w.conn.readEOF
  PROVE  LET v == TCP_EVENT_RECV(w, tot, nomem) IN
         Flow(w, v) /\ Gates(v) /\ SameStream(w.conn, v.conn)
<1>1. w \in World /\ w.pcb \in Pcb
  BY Parts DEF WorldInv
<1>2. CASE ~w.conn.alive
  <2> DEFINE q == tcp_recved(w.pcb, tot)
             x == [w EXCEPT !.pcb = q]
  <2>1. TCP_EVENT_RECV(w, tot, nomem) \in {w, x}
    BY <1>2 DEF TCP_EVENT_RECV, tf_tcp_recv, tf_conn_from_arg
  <2>2. q \in Pcb
    BY <1>1, RecvedLemma
  <2> HIDE DEF q
  <2>3. Ends(w, x) /\ x.conn = w.conn
    BY <1>1, <2>2, PcbEnds
  <2> HIDE DEF x
  <2>4. /\ Flow(w, x) /\ Gates(x) /\ SameStream(w.conn, x.conn)
        /\ Flow(w, w) /\ SameStream(w.conn, w.conn)
    BY <1>1, <1>2, <2>3, DeadGates, FlowRefl DEF Ends, SameStream
  <2> QED BY <2>1, <2>4
<1>3. CASE w.conn.alive
  <2> DEFINE u == updateInflightAckBytes(w, tot)
             v == Deliver(u, tot, nomem)
  <2>1. tf_conn_from_arg(w) /\ w.pcb.callbacks
    BY <1>3, LiveFromArg
  <2>2. shouldAllowRecv(w)
    BY <2>1 DEF TCP_EVENT_RECV_err, tf_tcp_recv_err
  <2>3. w.conn.state = "Active"
    BY <2>2 DEF shouldAllowRecv
  <2>4. TCP_EVENT_RECV(w, tot, nomem) = v
    BY <2>1, <2>2 DEF TCP_EVENT_RECV, tf_tcp_recv
  <2>5. WorldInv(u, k) /\ u \in World
    BY <1>3, InflightInv DEF WorldInv
  <2>6. Flow(w, u) /\ SameStream(w.conn, u.conn) /\ u.pcb = w.pcb
    BY <1>1, <2>5, InflightFlow
  <2> HIDE DEF u
  <2>7. Gates(u) /\ u.conn.alive /\ u.conn.state = "Active" /\ ~u.conn.readEOF
    BY <1>3, <2>3, <2>6, GatesFrame DEF SameStream
  <2>8. Flow(u, v) /\ Gates(v) /\ SameStream(u.conn, v.conn)
    BY <2>5, <2>7, DeliverFlow
  <2>9. v \in World
    BY <2>5, <2>7, DeliverInv DEF WorldInv
  <2> HIDE DEF v
  <2>10. Flow(w, v) /\ SameStream(w.conn, v.conn)
    BY <1>1, <2>5, <2>6, <2>8, <2>9, FlowTrans DEF SameStream
  <2> QED BY <2>4, <2>8, <2>10
<1> QED BY <1>2, <1>3

\* The recv callback with p = NULL: EOF is reported once, and only when no data can
\* follow.
LEMMA EventClosedFlow ==
  ASSUME NEW w \in World, Gates(w),
         w.conn.alive => w.pcb.state \notin Receiving /\ w.pcb.refused = 0
  PROVE  LET v == TCP_EVENT_CLOSED(w) IN v \in World /\ Flow(w, v) /\ Gates(v)
<1> DEFINE u == [w EXCEPT !.conn.readEOF = TRUE]
           v == Post(u, "eof", 0)
<1>2. \/ TCP_EVENT_CLOSED(w) = w
      \/ w.conn.alive /\ ~w.conn.readEOF /\ TCP_EVENT_CLOSED(w) = v
  BY DEF TCP_EVENT_CLOSED, tf_tcp_recv_fin, tf_conn_from_arg, handlePeerFINLocked
<1>3. CASE w.conn.alive /\ ~w.conn.readEOF /\ TCP_EVENT_CLOSED(w) = v
  <2>1. /\ u \in World
        /\ u.pcb = w.pcb
        /\ u.queue = w.queue
        /\ u.pbufs = w.pbufs
        /\ u.conn.readEOF
        /\ u.conn.alive = w.conn.alive
        /\ u.conn.state = w.conn.state
        /\ u.conn.didNotifyActive = w.conn.didNotifyActive
    BY DEF World, Conn
  <2> HIDE DEF u
  <2>2. "eof" \in BlockKinds /\ "eof" \notin AfterActivated /\ "eof" # "data" /\ "eof" # "activated"
    BY DEF BlockKinds, AfterActivated
  <2>3. v \in World /\ Flow(w, v)
    BY <1>3, <2>1, <2>2, PostFlow
  <2>4. v.conn = u.conn /\ v.pcb = u.pcb
    BY <2>1, <2>2, PostLemma
  <2> HIDE DEF v
  <2>5. Gates(v)
    BY <1>3, <2>1, <2>4 DEF Gates
  <2> QED BY <1>3, <2>3, <2>5
<1> QED BY <1>2, <1>3, FlowRefl

\* The sent callback, on a connection that was activated.
LEMMA EventSentFlow ==
  ASSUME NEW w \in World, NEW len \in Nat, Gates(w),
         w.conn.alive => w.conn.didNotifyActive
  PROVE  LET v == TCP_EVENT_SENT(w, len) IN
         Flow(w, v) /\ Gates(v) /\ SameStream(w.conn, v.conn)
<1> DEFINE u == updateWritableLocked(w, tf_tcp_write_ready(w.pcb))
           v == Post(u, "sent", len)
<1>2. TCP_EVENT_SENT(w, len) = w \/ (w.conn.alive /\ TCP_EVENT_SENT(w, len) = v)
  BY DEF TCP_EVENT_SENT, tf_tcp_sent, tf_conn_from_arg
<1>3. CASE w.conn.alive /\ TCP_EVENT_SENT(w, len) = v
  <2>1. u \in World /\ Flow(w, u) /\ SameStream(w.conn, u.conn) /\ u.pcb = w.pcb
    BY WriteReady, WritableFlow
  <2> HIDE DEF u
  <2>2. "sent" \in BlockKinds /\ "sent" \notin BeforeEOF /\ "sent" # "data" /\ "sent" # "eof"
        /\ "sent" # "activated"
    BY DEF BlockKinds, BeforeEOF
  <2>3. v \in World /\ Flow(u, v)
    BY <1>3, <2>1, <2>2, PostFlow DEF SameStream
  <2>4. v.conn = u.conn /\ v.pcb = u.pcb
    BY <2>1, <2>2, PostLemma
  <2> HIDE DEF v
  <2>5. Flow(w, v)
    BY <2>1, <2>3, FlowTrans
  <2>6. Gates(v)
    BY <2>1, <2>4, GatesFrame DEF SameStream
  <2> QED BY <1>3, <2>1, <2>4, <2>5, <2>6
<1>4. Flow(w, w) /\ SameStream(w.conn, w.conn)
  BY FlowRefl DEF SameStream
<1> QED BY <1>2, <1>3, <1>4

\* The poll callback.
LEMMA EventPollFlow ==
  ASSUME NEW w, NEW k \in Nat, NEW timeout, NEW nomem \in BOOLEAN, WorldInv(w, k), Gates(w)
  PROVE  LET v == TCP_EVENT_POLL(w, timeout, nomem) IN Flow(w, v) /\ Gates(v)
<1> DEFINE u == updateWritableLocked(w, tf_tcp_write_ready(w.pcb))
           a == abortLocked(w, "Abort")
<1>1. w \in World
  BY DEF WorldInv
<1>2. CASE ~w.conn.alive
  <2>1. TCP_EVENT_POLL(w, timeout, nomem) = w
    BY <1>2 DEF TCP_EVENT_POLL, tf_tcp_poll, tf_conn_from_arg
  <2> QED BY <1>1, <2>1, FlowRefl
<1>3. CASE w.conn.alive
  <2>1. Flow(w, u) /\ SameStream(w.conn, u.conn) /\ u.pcb = w.pcb
    BY <1>1, WriteReady, WritableFlow
  <2>2. ~u.conn.pendingClose
    BY <1>3, WriteReady, UpdateWritable
  <2>3. Flow(w, a) /\ ~a.conn.alive
    <3>1. "Abort" \in Reasons
      BY DEF Reasons
    <3> QED BY <3>1, AbortFlow
  <2>4. TCP_EVENT_POLL(w, timeout, nomem) \in {w, a, u}
    BY <2>2 DEF TCP_EVENT_POLL, tf_tcp_poll
  <2> HIDE DEF u, a
  <2>5. Gates(u) /\ Gates(a)
    BY <2>1, <2>3, GatesFrame, DeadGates DEF SameStream
  <2> QED BY <1>1, <2>1, <2>3, <2>4, <2>5, FlowRefl
<1> QED BY <1>2, <1>3

-----------------------------------------------------------------------------
(* lwIP's input and timers.                                                *)

\* A FIN is reported when no data is refused and none can arrive.
LEMMA ReportFinFlow ==
  ASSUME NEW w \in World, Gates(w),
         w.conn.alive => w.pcb.state \notin Receiving /\ w.pcb.refused = 0
  PROVE  LET v == ReportFin(w) IN Flow(w, v) /\ Gates(v)
<1> DEFINE q == CreditFin(w.pcb)
           u == [w EXCEPT !.pcb = q]
           v == TCP_EVENT_CLOSED(u)
<1>1. w.pcb \in Pcb
  BY Parts
<1>2. ReportFin(w) = v
  BY DEF ReportFin
<1>3. /\ q \in Pcb
      /\ q.state = w.pcb.state
      /\ q.snd_buf = w.pcb.snd_buf
      /\ q.refused = w.pcb.refused
      /\ q.refusedFin = w.pcb.refusedFin
  <2> DEFINE r == IF w.pcb.rcv_wnd = TCP_WND THEN TCP_WND ELSE w.pcb.rcv_wnd + 1
  <2>1. q = [w.pcb EXCEPT !.rcv_wnd = r]
    BY DEF CreditFin
  <2>2. r \in 0 .. TCP_WND
    BY <1>1, LwipAssumption DEF Pcb
  <2> HIDE DEF r, q
  <2> QED BY <1>1, <2>1, <2>2 DEF Pcb
<1> HIDE DEF q
<1>5. /\ Ends(w, u)
      /\ u \in World
      /\ u.conn = w.conn
      /\ u.pcb = q
  BY <1>3, PcbEnds
<1> HIDE DEF u
<1>6. Gates(u)
  BY <1>3, <1>5, GatesFrame
<1>7. v \in World /\ Flow(u, v) /\ Gates(v)
  BY <1>3, <1>5, <1>6, EventClosedFlow
<1> HIDE DEF v
<1>9. Flow(w, v)
  BY <1>5, <1>7, FlowTrans DEF Ends
<1> QED BY <1>2, <1>7, <1>9

\* Refused data that is taken was there before EOF; the FIN behind it comes after it.
LEMMA RefusedDataFlow ==
  ASSUME NEW w, NEW nomem \in BOOLEAN, WorldInv(w, 0), Gates(w)
  PROVE  LET v == tcp_process_refused_data(w, nomem) IN Flow(w, v) /\ Gates(v)
<1> DEFINE tot == w.pcb.refused
           fin == IF w.pcb.refusedFin THEN 1 ELSE 0
           o   == [w EXCEPT !.pcb.refused = 0, !.pcb.refusedFin = FALSE]
           t   == TCP_EVENT_RECV(o, tot, nomem)
<1>1. tot \in Nat /\ fin \in Nat /\ w \in World /\ w.pcb \in Pcb
  BY Parts, LwipAssumption DEF WorldInv, Pcb
<1>2. tcp_process_refused_data(w, nomem) =
        IF tot = 0 \/ TCP_EVENT_RECV_err(o) # "ERR_OK" THEN w
        ELSE IF w.pcb.refusedFin THEN ReportFin(t) ELSE t
  BY SMTT(30) DEF tcp_process_refused_data
<1>3. /\ WorldInv(o, tot + fin)
      /\ o.conn = w.conn
      /\ o.pcb.state = w.pcb.state
      /\ o.pcb.snd_buf = w.pcb.snd_buf
      /\ o.pcb.refused = 0
      /\ ~o.pcb.refusedFin
  BY OfferedInv
<1>4. o.queue = w.queue /\ o.pbufs = w.pbufs
  BY <1>1 DEF World
<1> HIDE DEF o
<1>5. o \in World /\ Flow(w, o)
  BY <1>1, <1>3, <1>4, SilentFlow DEF WorldInv
<1>6. Gates(o)
  BY <1>3 DEF Gates
<1>7. CASE tot = 0 \/ TCP_EVENT_RECV_err(o) # "ERR_OK"
  BY <1>1, <1>2, <1>7, FlowRefl
<1>8. CASE ~(tot = 0 \/ TCP_EVENT_RECV_err(o) # "ERR_OK")
  <2>1. o.conn.alive => ~o.conn.readEOF
    BY <1>3, <1>8 DEF Gates
  <2> HIDE DEF tot, fin
  <2>2. Flow(o, t) /\ Gates(t) /\ SameStream(o.conn, t.conn)
    BY <1>1, <1>3, <1>6, <1>8, <2>1, EventRecvFlow
  <2>3. t \in World /\ PcbKept(o, t)
    BY <1>1, <1>3, <1>8, EventRecvInv DEF WorldInv
  <2> HIDE DEF t
  <2>4. Flow(w, t)
    BY <1>1, <1>5, <2>2, <2>3, FlowTrans
  <2>5. CASE w.pcb.refusedFin
    <3> DEFINE v == ReportFin(t)
    <3>1. t.conn.alive => t.pcb.state \notin Receiving /\ t.pcb.refused = 0
      BY <1>3, <2>2, <2>3, <2>5 DEF SameStream, PcbKept, Gates
    <3>2. Flow(t, v) /\ Gates(v)
      BY <2>2, <2>3, <3>1, ReportFinFlow
    <3>3. v \in World
      <4>1. v = tcp_process_refused_data(w, nomem)
        BY <1>2, <1>8, <2>5
      <4> QED BY <4>1, RefusedDataInv DEF WorldInv
    <3> HIDE DEF v
    <3>4. Flow(w, v)
      BY <1>1, <2>3, <2>4, <3>2, <3>3, FlowTrans
    <3> QED BY <1>2, <1>8, <2>5, <3>2, <3>4 DEF v
  <2>6. CASE ~w.pcb.refusedFin
    BY <1>2, <1>8, <2>2, <2>4, <2>6
  <2> QED BY <2>5, <2>6
<1> QED BY <1>7, <1>8

\* Data of a segment is delivered before EOF or kept as refused data.
LEMMA DeliverDataFlow ==
  ASSUME NEW w, NEW k \in Nat, NEW data \in 0 .. TCP_WND, NEW nomem \in BOOLEAN,
         WorldInv(w, data + k), Gates(w),
         data > 0 /\ w.conn.alive => ~w.conn.readEOF
  PROVE  LET v == DeliverData(w, data, nomem) IN
         Flow(w, v) /\ Gates(v) /\ SameStream(w.conn, v.conn) /\ v.pcb.state = w.pcb.state
<1>0. data \in Nat /\ TCP_WND \in Nat /\ w \in World /\ w.pcb \in Pcb
  BY Parts, LwipAssumption DEF WorldInv
<1>1. CASE data = 0
  <2>1. DeliverData(w, data, nomem) = w
    BY <1>1 DEF DeliverData
  <2> QED BY <1>0, <2>1, FlowRefl DEF SameStream
<1>2. CASE data > 0 /\ TCP_EVENT_RECV_err(w) = "ERR_OK"
  <2>1. DeliverData(w, data, nomem) = TCP_EVENT_RECV(w, data, nomem)
    BY <1>2 DEF DeliverData
  <2> DEFINE x == TCP_EVENT_RECV(w, data, nomem)
  <2>2. w.conn.alive => ~w.conn.readEOF
    BY <1>2
  <2>3. Flow(w, x) /\ Gates(x) /\ SameStream(w.conn, x.conn)
    BY <1>0, <1>2, <2>2, EventRecvFlow
  <2>4. PcbKept(w, x)
    BY <1>0, <1>2, EventRecvInv
  <2> HIDE DEF x
  <2> QED BY <2>1, <2>3, <2>4 DEF PcbKept, x
<1>3. CASE data > 0 /\ TCP_EVENT_RECV_err(w) # "ERR_OK"
  <2> DEFINE q == [w.pcb EXCEPT !.refused = data]
             u == [w EXCEPT !.pcb = q]
  <2>1. DeliverData(w, data, nomem) = u
    BY <1>0, <1>3 DEF DeliverData, World
  <2>2. /\ q \in Pcb
        /\ q.state = w.pcb.state
        /\ q.snd_buf = w.pcb.snd_buf
        /\ q.refusedFin = w.pcb.refusedFin
    BY <1>0 DEF Pcb
  <2> HIDE DEF q
  <2>3. Ends(w, u) /\ u.conn = w.conn /\ u.pcb = q
    BY <1>0, <2>2, PcbEnds
  <2> HIDE DEF u
  <2>4. Gates(u)
    BY <1>3, <2>2, <2>3 DEF Gates
  <2> QED BY <2>1, <2>2, <2>3, <2>4 DEF Ends, SameStream
<1> QED BY <1>0, <1>1, <1>2, <1>3

\* A FIN that was received is reported behind the data, or waits for it.
LEMMA DeliverFinFlow ==
  ASSUME NEW w \in World, Gates(w), w.conn.alive => w.pcb.state \notin Receiving,
         w.conn.alive => ~w.conn.readEOF
  PROVE  LET v == DeliverFin(w) IN Flow(w, v) /\ Gates(v)
<1>1. w.pcb \in Pcb /\ w.pcb.refused \in Nat
  BY Parts, LwipAssumption DEF Pcb
<1>2. CASE ~(w.pcb.refused > 0)
  <2>1. DeliverFin(w) = ReportFin(w)
    BY <1>2 DEF DeliverFin
  <2>2. w.pcb.refused = 0
    BY <1>1, <1>2
  <2> QED BY <2>1, <2>2, ReportFinFlow
<1>3. CASE w.pcb.refused > 0
  <2> DEFINE q == [w.pcb EXCEPT !.refusedFin = TRUE]
             u == [w EXCEPT !.pcb = q]
  <2>1. DeliverFin(w) = u
    BY <1>3 DEF DeliverFin, World
  <2>2. /\ q \in Pcb
        /\ q.state = w.pcb.state
        /\ q.snd_buf = w.pcb.snd_buf
        /\ q.refused = w.pcb.refused
    BY <1>1 DEF Pcb
  <2> HIDE DEF q
  <2>3. Ends(w, u) /\ u.conn = w.conn /\ u.pcb = q
    BY <2>2, PcbEnds
  <2> HIDE DEF u
  <2>4. Gates(u)
    BY <2>2, <2>3 DEF Gates
  <2> QED BY <2>1, <2>3, <2>4 DEF Ends
<1> QED BY <1>2, <1>3

\* tcp_process takes data and FIN in the receiving states only, leaves them with the
\* FIN, and never returns to them.
LEMMA ProcessGates ==
  ASSUME NEW p \in Pcb, NEW s \in Segment, Acceptable(p, s)
  PROVE  LET q == tcp_process(p, s)
             r == Received(p, s)
         IN /\ q.snd_buf < TCP_SND_BUF => p.snd_buf < TCP_SND_BUF
            /\ q.state \in Receiving => p.state \in Receiving
            /\ p.refused = 0 => q.refused = 0
            /\ q.refusedFin => p.refusedFin
            /\ r.data > 0 \/ r.fin => p.state \in Receiving
            /\ r.fin => q.state \notin Receiving
<1> DEFINE rw == p.rcv_wnd - Received(p, s).tcplen
           sb == p.snd_buf + s.acked
           r == tcp_receive(p, s)
           fin == Received(p, s).fin
           q == tcp_process(p, s)
<1>1. Received(p, s).data > 0 \/ fin => p.state \in Receiving
  <2>1. CASE p.state \notin Receiving
    <3>1. Received(p, s) = [data |-> 0, fin |-> FALSE, tcplen |-> 0]
      BY <2>1 DEF Received, Receiving
    <3> QED BY <3>1
  <2> QED BY <2>1
<1>2. r = [p EXCEPT !.snd_buf = sb, !.rcv_wnd = rw]
  BY DEF tcp_receive
<1>3. sb < TCP_SND_BUF => p.snd_buf < TCP_SND_BUF
  <2>1. p.snd_buf \in Nat /\ s.acked \in Nat /\ TCP_SND_BUF \in Nat
    BY LwipAssumption DEF Pcb, Segment
  <2> QED BY <2>1
<1> HIDE DEF rw, sb
<1>4. /\ DOMAIN r = DOMAIN p
      /\ r.state = p.state
      /\ r.snd_buf = sb
      /\ r.refused = p.refused
      /\ r.refusedFin = p.refusedFin
  BY <1>2 DEF Pcb
<1>5. \/ q = EnterTimeWait(r)
      \/ q = [r EXCEPT !.state = "CLOSE_WAIT"]
      \/ q = [r EXCEPT !.state = "CLOSING"]
      \/ q = [r EXCEPT !.state = "FIN_WAIT_2"] /\ ~fin /\ p.state = "FIN_WAIT_1"
      \/ q = r /\ ~(fin /\ p.state \in Receiving)
  BY <1>4 DEF tcp_process, Receiving
<1> HIDE DEF r, q, fin
<1>6. CASE q = EnterTimeWait(r)
  <2> DEFINE g == tcp_pcb_purge(r)
  <2>1. q = [g EXCEPT !.state = "TIME_WAIT"]
    BY <1>6 DEF EnterTimeWait
  <2>2. /\ g = r \/ g = [r EXCEPT !.backlogpend = FALSE, !.refused = 0, !.refusedFin = FALSE]
    BY DEF tcp_pcb_purge
  <2> HIDE DEF g
  <2>3. /\ DOMAIN g = DOMAIN p
        /\ g.snd_buf = sb
        /\ p.refused = 0 => g.refused = 0
        /\ g.refusedFin => p.refusedFin
    BY <1>4, <2>2 DEF Pcb
  <2>4. /\ q.state = "TIME_WAIT"
        /\ q.snd_buf = sb
        /\ p.refused = 0 => q.refused = 0
        /\ q.refusedFin => p.refusedFin
    BY <2>1, <2>3 DEF Pcb
  <2> QED BY <1>1, <1>3, <2>4 DEF Receiving, q, fin
<1>7. ASSUME NEW st, q = [r EXCEPT !.state = st], st \notin Receiving \/ (~fin /\ p.state \in Receiving)
      PROVE  LET qq == tcp_process(p, s)
                 rr == Received(p, s)
             IN /\ qq.snd_buf < TCP_SND_BUF => p.snd_buf < TCP_SND_BUF
                /\ qq.state \in Receiving => p.state \in Receiving
                /\ p.refused = 0 => qq.refused = 0
                /\ qq.refusedFin => p.refusedFin
                /\ rr.data > 0 \/ rr.fin => p.state \in Receiving
                /\ rr.fin => qq.state \notin Receiving
  <2>1. /\ q.state = st
        /\ q.snd_buf = sb
        /\ q.refused = p.refused
        /\ q.refusedFin = p.refusedFin
    BY <1>4, <1>7 DEF Pcb
  <2> QED BY <1>1, <1>3, <1>7, <2>1 DEF q, fin
<1>8. CASE q = r /\ ~(fin /\ p.state \in Receiving)
  BY <1>1, <1>3, <1>4, <1>8 DEF q, fin
<1>9. "CLOSE_WAIT" \notin Receiving /\ "CLOSING" \notin Receiving /\ "FIN_WAIT_1" \in Receiving
  BY DEF Receiving
<1> QED BY <1>5, <1>6, <1>7, <1>8, <1>9

\* The end of a pcb whose last ACK arrived.
LEMMA DelayedCloseFlow ==
  ASSUME NEW w, NEW k \in Nat, WorldInv(w, k)
  PROVE  LET v == tcp_input_delayed_close(w) IN Flow(w, v) /\ Gates(v)
<1> DEFINE t == IF w.pcb.rxclosed THEN w ELSE TCP_EVENT_ERR(w, w.pcb.callbacks, "ERR_CLSD")
           v == tcp_free([t EXCEPT !.pcb = tcp_pcb_purge(t.pcb)])
<1>1. w \in World
  BY DEF WorldInv
<1>2. tcp_input_delayed_close(w) = v
  BY DEF tcp_input_delayed_close
<1>3. WorldInv(t, k) /\ Flow(w, t)
  BY <1>1, EventErrInv, EventErrEnds, FlowRefl DEF Ends
<1> HIDE DEF t
<1>4. Flow(t, v) /\ ~v.conn.alive
  BY <1>3, FreeFlow
<1>5. WorldInv(v, 0)
  BY <1>3, FreeInv
<1> HIDE DEF v
<1>6. Flow(w, v)
  BY <1>1, <1>3, <1>4, <1>5, FlowTrans DEF WorldInv
<1> QED BY <1>2, <1>4, <1>6, DeadGates

\* The callbacks of one segment: sent before data, data before the FIN, nothing behind a
\* FIN that was already reported.
LEMMA InputCallbacksFlow ==
  ASSUME NEW w, NEW s \in Segment, NEW rcvd, NEW closed \in BOOLEAN, NEW nomem \in BOOLEAN,
         rcvd.data \in 0 .. TCP_WND, rcvd.data <= MaxRun, rcvd.fin \in BOOLEAN,
         WorldInv(w, rcvd.data + (IF rcvd.fin THEN 1 ELSE 0)), Gates(w),
         rcvd.data > 0 \/ rcvd.fin => w.pcb.refused = 0,
         s.acked > 0 /\ w.conn.alive => w.conn.didNotifyActive,
         (rcvd.data > 0 \/ rcvd.fin) /\ w.conn.alive => ~w.conn.readEOF,
         rcvd.fin => w.pcb.state \notin Receiving
  PROVE  LET v == InputCallbacks(w, s, rcvd, closed, nomem) IN Flow(w, v) /\ Gates(v)
<1> DEFINE f == IF rcvd.fin THEN 1 ELSE 0
           k == rcvd.data + f
           a == IF s.acked > 0 THEN TCP_EVENT_SENT(w, s.acked) ELSE w
           d == DeliverData(a, rcvd.data, nomem)
           v == InputCallbacks(w, s, rcvd, closed, nomem)
<1>1. f \in Nat /\ k \in Nat /\ rcvd.data \in Nat /\ s.acked \in Nat
  BY LwipAssumption DEF Segment
<1>2. WorldInv(w, k) /\ w \in World
  BY DEF WorldInv
<1>3. v = IF closed THEN tcp_input_delayed_close(a)
          ELSE IF rcvd.data > 0 /\ a.pcb.rxclosed THEN tcp_abandon(a)
          ELSE IF rcvd.fin THEN DeliverFin(d) ELSE d
  BY DEF InputCallbacks
<1>4. v \in World
  BY InputCallbacksInv DEF WorldInv
<1> HIDE DEF k, v
<1>5. WorldInv(a, k) /\ a.pcb = w.pcb /\ a \in World
  BY <1>1, <1>2, EventSentInv DEF WorldInv
<1>6. Flow(w, a) /\ Gates(a) /\ SameStream(w.conn, a.conn)
  <2>1. CASE s.acked > 0
    BY <1>1, <1>2, <2>1, EventSentFlow
  <2>2. CASE ~(s.acked > 0)
    BY <1>2, <2>2, FlowRefl DEF SameStream
  <2> QED BY <2>1, <2>2
<1> HIDE DEF a
<1>7. SUFFICES Flow(a, v) /\ Gates(v)
  BY <1>2, <1>4, <1>5, <1>6, FlowTrans DEF v
<1>8. CASE closed
  BY <1>1, <1>3, <1>5, <1>8, DelayedCloseFlow
<1>9. CASE ~closed /\ rcvd.data > 0 /\ a.pcb.rxclosed
  BY <1>3, <1>5, <1>9, AbandonFlow, DeadGates
<1>10. CASE ~closed /\ ~(rcvd.data > 0 /\ a.pcb.rxclosed)
  <2> DEFINE b == rcvd.data
  <2>1. /\ b \in 0 .. TCP_WND /\ b <= MaxRun /\ f \in Nat /\ WorldInv(a, b + f)
        /\ b > 0 => a.pcb.refused = 0
        /\ b > 0 /\ a.conn.alive => ~a.conn.readEOF
    BY <1>1, <1>5, <1>6 DEF k, SameStream
  <2> HIDE DEF f, b
  <2>2. LET x == DeliverData(a, b, nomem) IN
        Flow(a, x) /\ Gates(x) /\ SameStream(a.conn, x.conn) /\ x.pcb.state = a.pcb.state
    BY <1>6, <2>1, DeliverDataFlow
  <2>3. LET x == DeliverData(a, b, nomem) IN WorldInv(x, f)
    BY <2>1, DeliverDataInv
  <2>4. /\ Flow(a, d)
        /\ Gates(d)
        /\ SameStream(a.conn, d.conn)
        /\ d.pcb.state = a.pcb.state
        /\ d \in World
    BY <2>2, <2>3 DEF b, WorldInv
  <2> HIDE DEF d
  <2>5. CASE rcvd.fin
    <3> DEFINE x == DeliverFin(d)
    <3>1. d.conn.alive => d.pcb.state \notin Receiving /\ ~d.conn.readEOF
      BY <1>5, <1>6, <2>4, <2>5 DEF SameStream
    <3>2. Flow(d, x) /\ Gates(x)
      BY <2>4, <3>1, DeliverFinFlow
    <3>3. v = x
      BY <1>3, <1>10, <2>5
    <3> HIDE DEF x
    <3> QED BY <1>4, <1>5, <2>4, <3>2, <3>3, FlowTrans
  <2>6. CASE ~rcvd.fin
    BY <1>3, <1>10, <2>4, <2>6
  <2> QED BY <2>5, <2>6
<1> QED BY <1>8, <1>9, <1>10

\* tcp_input posts its callbacks in the order of the stream, for every segment.
LEMMA InputFlow ==
  ASSUME NEW w, NEW s \in Segment, NEW nomem \in BOOLEAN, WorldInv(w, 0), Gates(w),
         Acceptable(w.pcb, s)
  PROVE  LET v == tcp_input(w, s, nomem) IN Flow(w, v) /\ Gates(v)
<1> DEFINE t == tcp_process_refused_data(w, nomem)
           p == t.pcb
           q == tcp_process(p, s)
           u == [t EXCEPT !.pcb = q]
           r == Received(p, s)
           c == ClosedByAck(p, s)
           v == tcp_input(w, s, nomem)
<1>1. /\ WorldInv(t, 0)
      /\ t.pcb.state = w.pcb.state
      /\ t.pcb.snd_buf = w.pcb.snd_buf
      /\ w \in World
      /\ t \in World
      /\ t.pcb \in Pcb
  BY RefusedDataInv, Parts DEF WorldInv
<1>2. v = IF p.refused > 0 /\ (s.len > 0 \/ s.fin) THEN t ELSE InputCallbacks(u, s, r, c, nomem)
  BY DEF tcp_input
<1>3. v \in World
  BY InputInv DEF WorldInv
<1>4. Flow(w, t) /\ Gates(t)
  BY RefusedDataFlow
<1> HIDE DEF t, v
<1>5. CASE p.refused > 0 /\ (s.len > 0 \/ s.fin)
  BY <1>2, <1>4, <1>5 DEF v
<1>6. CASE ~(p.refused > 0 /\ (s.len > 0 \/ s.fin))
  <2>1. Acceptable(p, s) /\ c \in BOOLEAN
    BY <1>1 DEF Acceptable, ClosedByAck
  <2>2. s.acked > 0 => p.snd_buf < TCP_SND_BUF
    <3>1. s.acked \in Nat /\ p.snd_buf \in Nat /\ TCP_SND_BUF \in Nat
      BY <1>1, LwipAssumption DEF Segment, Pcb
    <3> QED BY <2>1, <3>1 DEF Acceptable
  <2>3. /\ r.data \in 0 .. TCP_WND
        /\ r.data <= MaxRun
        /\ r.fin \in BOOLEAN
        /\ WorldInv(u, r.data + (IF r.fin THEN 1 ELSE 0))
        /\ r.data > 0 \/ r.fin => u.pcb.refused = 0
    BY <1>1, <1>6, <2>1, ProcessInv
  <2>4. u \in World /\ u.pcb = q /\ u.conn = t.conn /\ u.queue = t.queue /\ u.pbufs = t.pbufs
    BY <1>1, <2>3 DEF World, WorldInv
  <2>5. /\ q.snd_buf < TCP_SND_BUF => p.snd_buf < TCP_SND_BUF
        /\ q.state \in Receiving => p.state \in Receiving
        /\ p.refused = 0 => q.refused = 0
        /\ q.refusedFin => p.refusedFin
        /\ r.data > 0 \/ r.fin => p.state \in Receiving
        /\ r.fin => q.state \notin Receiving
    BY <1>1, <2>1, ProcessGates
  <2> HIDE DEF u, q, r, c
  <2>6. Gates(u)
    BY <1>4, <2>4, <2>5 DEF Gates
  <2>7. Flow(t, u)
    BY <1>1, <2>4, SilentFlow
  <2>8. /\ s.acked > 0 /\ u.conn.alive => u.conn.didNotifyActive
        /\ (r.data > 0 \/ r.fin) /\ u.conn.alive => ~u.conn.readEOF
        /\ r.fin => u.pcb.state \notin Receiving
    BY <1>4, <2>2, <2>4, <2>5 DEF Gates
  <2>9. LET x == InputCallbacks(u, s, r, c, nomem) IN Flow(u, x) /\ Gates(x)
    BY <2>1, <2>3, <2>6, <2>8, InputCallbacksFlow
  <2>10. Flow(u, v) /\ Gates(v)
    BY <1>2, <1>6, <2>9
  <2>11. Flow(w, u)
    BY <1>1, <1>4, <2>4, <2>7, FlowTrans
  <2> QED BY <1>1, <1>3, <2>4, <2>10, <2>11, FlowTrans DEF v
<1> QED BY <1>5, <1>6

\* A RST ends the connection behind what it had been given before.
LEMMA InputRstFlow ==
  ASSUME NEW w, NEW nomem \in BOOLEAN, WorldInv(w, 0), Gates(w)
  PROVE  LET v == tcp_input_rst(w, nomem) IN Flow(w, v) /\ Gates(v)
<1> DEFINE t == tcp_process_refused_data(w, nomem)
           u == TCP_EVENT_ERR(t, t.pcb.callbacks, "ERR_RST")
           v == tcp_free([u EXCEPT !.pcb = tcp_pcb_purge(u.pcb)])
<1>1. WorldInv(t, 0) /\ w \in World /\ t \in World
  BY RefusedDataInv DEF WorldInv
<1>2. tcp_input_rst(w, nomem) = v
  BY DEF tcp_input_rst
<1>3. Flow(w, t)
  BY RefusedDataFlow
<1> HIDE DEF t
<1>4. Flow(t, u) /\ WorldInv(u, 0) /\ u \in World
  BY <1>1, EventErrInv, EventErrEnds DEF Ends, WorldInv
<1> HIDE DEF u
<1>5. Flow(u, v) /\ ~v.conn.alive /\ v \in World
  BY <1>4, FreeFlow, FreeInv DEF WorldInv
<1> HIDE DEF v
<1>6. Flow(w, u)
  BY <1>1, <1>3, <1>4, FlowTrans
<1>7. Flow(w, v)
  BY <1>1, <1>4, <1>5, <1>6, FlowTrans
<1> QED BY <1>2, <1>5, <1>7, DeadGates

\* A pending FIN that is sent posts nothing.
LEMMA ClosependFlow ==
  ASSUME NEW w, NEW nofin, WorldInv(w, 0), Gates(w)
  PROVE  LET v == tcp_handle_closepend(w, nofin) IN Flow(w, v) /\ Gates(v)
<1> DEFINE c == [w.pcb EXCEPT !.closepend = FALSE]
           q == tcp_close_shutdown_fin(c, nofin)
           v == [w EXCEPT !.pcb = q]
<1>1. w \in World /\ w.pcb \in Pcb
  BY Parts DEF WorldInv
<1>2. tcp_handle_closepend(w, nofin) \in {w, v}
  BY DEF tcp_handle_closepend
<1>3. /\ c \in Pcb
      /\ c.state = w.pcb.state
      /\ c.snd_buf = w.pcb.snd_buf
      /\ c.refused = w.pcb.refused
      /\ c.refusedFin = w.pcb.refusedFin
  BY <1>1 DEF Pcb
<1> HIDE DEF c
<1>4. /\ q \in Pcb
      /\ q.state \in Receiving => w.pcb.state \in Receiving
      /\ q.snd_buf = w.pcb.snd_buf
      /\ q.refused = w.pcb.refused
      /\ q.refusedFin = w.pcb.refusedFin
  BY <1>3, FinLemma, FinReceiving
<1> HIDE DEF q
<1>5. Ends(w, v) /\ v.conn = w.conn /\ v.pcb = q
  BY <1>1, <1>4, PcbEnds
<1> HIDE DEF v
<1>6. Gates(v)
  BY <1>4, <1>5, PcbGates DEF SameStream
<1> QED BY <1>1, <1>2, <1>5, <1>6, FlowRefl DEF Ends, v

\* tcp_fasttmr offers refused data again in the order of the stream.
LEMMA FasttmrFlow ==
  ASSUME NEW w, NEW nofin, NEW nomem \in BOOLEAN, WorldInv(w, 0), Gates(w)
  PROVE  LET v == tcp_fasttmr(w, nofin, nomem) IN Flow(w, v) /\ Gates(v)
<1> DEFINE z == tcp_handle_closepend(w, nofin)
           v == tcp_process_refused_data(z, nomem)
<1>1. WorldInv(z, 0) /\ w \in World /\ z \in World
  BY ClosependInv DEF WorldInv
<1>2. Flow(w, z) /\ Gates(z)
  BY ClosependFlow
<1>3. tcp_fasttmr(w, nofin, nomem) = v
  BY DEF tcp_fasttmr
<1> HIDE DEF z
<1>4. Flow(z, v) /\ Gates(v) /\ v \in World
  BY <1>1, <1>2, RefusedDataFlow, RefusedDataInv DEF WorldInv
<1> HIDE DEF v
<1> QED BY <1>1, <1>2, <1>3, <1>4, FlowTrans

\* A pcb shortage may end the connection; it posts nothing else.
LEMMA AllocShortageFlow ==
  ASSUME NEW w, NEW nofin, NEW killed, WorldInv(w, 0), Gates(w)
  PROVE  LET v == tcp_alloc_shortage(w, nofin, killed) IN Flow(w, v) /\ Gates(v)
<1> DEFINE z == tcp_handle_closepend(w, nofin)
           v == tcp_abandon(z)
<1>1. WorldInv(z, 0) /\ w \in World /\ z \in World
  BY ClosependInv DEF WorldInv
<1>2. Flow(w, z) /\ Gates(z)
  BY ClosependFlow
<1>3. tcp_alloc_shortage(w, nofin, killed) \in {v, z}
  BY DEF tcp_alloc_shortage
<1> HIDE DEF z
<1>4. Flow(z, v) /\ ~v.conn.alive /\ v \in World
  BY <1>1, AbandonFlow, AbandonInv DEF WorldInv
<1> HIDE DEF v
<1>5. Flow(w, v) /\ Gates(v)
  BY <1>1, <1>2, <1>4, FlowTrans, DeadGates
<1> QED BY <1>2, <1>3, <1>5

\* A pcb that a timer removes ends the connection, and posts nothing else.
LEMMA SlowtmrRemoveFlow ==
  ASSUME NEW w, WorldInv(w, 0)
  PROVE  LET v == tcp_slowtmr_remove(w) IN Flow(w, v) /\ Gates(v)
<1>1. tcp_slowtmr_remove(w) =
        TCP_EVENT_ERR(tcp_free([w EXCEPT !.pcb = tcp_pcb_purge(w.pcb)]), w.pcb.callbacks, "ERR_ABRT")
  BY DEF tcp_slowtmr_remove
<1> QED BY <1>1, FreeErrFlow, DeadGates

\* The end of TIME_WAIT ends the connection, and posts nothing else.
LEMMA TimeWaitFlow ==
  ASSUME NEW w, WorldInv(w, 0)
  PROVE  LET v == tcp_slowtmr_timewait(w) IN Flow(w, v) /\ Gates(v)
BY FreeFlow, DeadGates DEF tcp_slowtmr_timewait

-----------------------------------------------------------------------------
(* The behaviours of TunForgeTCP.                                          *)

\* What the calls made so far say of the flags and of the blocks still queued: a one-time
\* callback that has begun has no second block, no data follows onReadEOF, and a live
\* connection that notified onActivated has called it or still will.
Calls ==
  /\ user.activated \/ running.kind = "activated" =>
       /\ conn.didNotifyActive
       /\ \A i \in 1 .. Len(connectionsQueue) : connectionsQueue[i].kind # "activated"
  /\ user.eof \/ running.kind = "eof" =>
       /\ conn.readEOF
       /\ \A i \in 1 .. Len(connectionsQueue) : connectionsQueue[i].kind \notin BeforeEOF
  /\ conn.alive /\ conn.didNotifyActive =>
       \/ user.activated
       \/ running.kind = "activated"
       \/ \E i \in 1 .. Len(connectionsQueue) : connectionsQueue[i].kind = "activated"
  /\ running.kind \in {"data", "copied"} => user.activated /\ ~user.eof
  /\ running.kind # "accept"

\* The inductive invariant behind the contract.
StreamInv == IInv /\ Ordered(Now) /\ Gates(Now) /\ Calls /\ BuffersAccounted

\* A step that runs one operation of the packets queue and no callback.
PacketsStep ==
  /\ running' = running
  /\ user'.activated = user.activated
  /\ user'.eof = user.eof
  /\ user'.terminated = user.terminated
  /\ user'.releases = user.releases
  /\ \E v : /\ WorldInv(v, 0)
            /\ Step(Now, v)
            /\ Flow(Now, v)
            /\ Gates(v)
            /\ Becomes(v)

-----------------------------------------------------------------------------
(* The queue.                                                              *)

\* A queue without its oldest block has lost that block's buffer and no other.
LEMMA DataBlocksTail ==
  ASSUME NEW q \in Seq(Block), q # <<>>
  PROVE  /\ DataBlocks(q) \in Nat
         /\ DataBlocks(Tail(q)) = DataBlocks(q) - (IF Head(q).kind = "data" THEN 1 ELSE 0)
<1> DEFINE t == Tail(q)
           D(r) == {i \in DOMAIN r : r[i].kind = "data"}
           S == D(q) \ {1}
           T == D(t)
           f == [i \in T |-> i + 1]
<1>1. /\ Len(q) \in Nat
      /\ Len(q) > 0
      /\ DOMAIN q = 1 .. Len(q)
      /\ DOMAIN t = 1 .. (Len(q) - 1)
      /\ \A i \in 1 .. (Len(q) - 1) : t[i] = q[i + 1]
      /\ Head(q) = q[1]
  OBVIOUS
<1> HIDE DEF t
<1>2. IsFiniteSet(D(q)) /\ IsFiniteSet(T)
  <2>1. IsFiniteSet(1 .. Len(q)) /\ IsFiniteSet(1 .. (Len(q) - 1))
    BY <1>1, FS_Interval
  <2>2. D(q) \subseteq 1 .. Len(q) /\ T \subseteq 1 .. (Len(q) - 1)
    BY <1>1
  <2> QED BY <2>1, <2>2, FS_Subset
<1>3. f \in Bijection(T, S)
  <2>1. T \subseteq Int
    BY <1>1
  <2>2. \A i \in T : f[i] \in S
    BY <1>1
  <2>3. \A i, j \in T : f[i] = f[j] => i = j
    BY <2>1
  <2>4. \A j \in S : \E i \in T : f[i] = j
    <3> SUFFICES ASSUME NEW j \in S PROVE \E i \in T : f[i] = j
      OBVIOUS
    <3>1. j - 1 \in T /\ f[j - 1] = j
      BY <1>1
    <3> QED BY <3>1
  <2> HIDE DEF S, T
  <2>5. f \in [T -> S]
    BY <2>2
  <2> QED BY <2>3, <2>4, <2>5 DEF Bijection, Injection, Surjection, IsInjective
<1>4. Cardinality(S) = Cardinality(T)
  <2>1. ExistsBijection(T, S)
    BY <1>3 DEF ExistsBijection
  <2> QED BY <1>2, <2>1, FS_Bijection
<1>5. Cardinality(S) = IF 1 \in D(q) THEN Cardinality(D(q)) - 1 ELSE Cardinality(D(q))
  BY <1>2, FS_RemoveElement
<1>6. Cardinality(D(q)) \in Nat
  BY <1>2, FS_CardinalityType
<1>7. 1 \in D(q) <=> Head(q).kind = "data"
  BY <1>1
<1>8. DataBlocks(q) = Cardinality(D(q)) /\ DataBlocks(t) = Cardinality(T)
  BY DEF DataBlocks
<1> HIDE DEF D, S, T
<1> QED BY <1>4, <1>5, <1>6, <1>7, <1>8 DEF t

\* The accept block carries no buffer.
LEMMA NoDataBlocks ==
  ASSUME NEW b, b.kind # "data"
  PROVE  DataBlocks(<<b>>) = 0
<1>1. {i \in DOMAIN <<b>> : <<b>>[i].kind = "data"} = {}
  OBVIOUS
<1> QED BY <1>1, FS_EmptySet DEF DataBlocks

\* The oldest block leaves the others in their order.
LEMMA OrderedTail ==
  ASSUME NEW w, NEW v, Ordered(w), w.queue \in Seq(Block), w.queue # <<>>,
         v.queue = Tail(w.queue),
         v.conn.didNotifyActive = w.conn.didNotifyActive,
         v.conn.readEOF = w.conn.readEOF
  PROVE  Ordered(v)
<1>1. /\ Len(w.queue) \in Nat
      /\ Len(v.queue) = Len(w.queue) - 1
      /\ \A i \in 1 .. Len(v.queue) : v.queue[i] = w.queue[i + 1]
  OBVIOUS
<1>2. ASSUME NEW i \in 1 .. Len(v.queue)
      PROVE  i + 1 \in 1 .. Len(w.queue)
  BY <1>1
<1>3. ASSUME NEW i \in 1 .. Len(v.queue)
      PROVE  /\ v.queue[i].kind \in AfterActivated => v.conn.didNotifyActive
             /\ v.queue[i].kind = "eof" => v.conn.readEOF
  BY <1>1, <1>2 DEF Ordered
<1>4. ASSUME NEW i \in 1 .. Len(v.queue), NEW j \in 1 .. Len(v.queue), i < j
      PROVE  /\ v.queue[j].kind = "activated" => v.queue[i].kind \notin AfterActivated
             /\ v.queue[i].kind = "eof" => v.queue[j].kind \notin BeforeEOF
  <2>1. i + 1 < j + 1
    BY <1>4
  <2> QED BY <1>1, <1>2, <2>1 DEF Ordered
<1> QED BY <1>3, <1>4 DEF Ordered

-----------------------------------------------------------------------------
(* The invariant.                                                          *)

\* Types of the callbacks the upper layer has seen.
LEMMA CallFields ==
  ASSUME TypeOK
  PROVE  /\ user.activated \in BOOLEAN
         /\ user.eof \in BOOLEAN
         /\ user.terminated \in BOOLEAN
         /\ user.releases \in Nat
         /\ pbufs \in Int
         /\ connectionsQueue \in Seq(Block)
         /\ Len(connectionsQueue) \in Nat
BY DEF TypeOK, User

\* Nothing has been called and nothing received when tunforge_accept returns.
LEMMA InitStream == Init => StreamInv
<1> SUFFICES ASSUME Init PROVE StreamInv
  OBVIOUS
<1>1. IInv
  BY InitInv
<1>2. /\ Len(connectionsQueue) = 1
      /\ connectionsQueue[1].kind = "accept"
      /\ connectionsQueue = <<connectionsQueue[1]>>
      /\ pbufs = 0
      /\ running.kind = "none"
      /\ user.releases = 0
      /\ ~user.activated
      /\ ~user.eof
      /\ ~conn.didNotifyActive
      /\ ~conn.readEOF
      /\ conn.state = "New"
  BY DEF Init, NoBlock, initWithTCPPcb
<1>3. pcb.snd_buf = TCP_SND_BUF /\ ~pcb.refusedFin /\ TCP_SND_BUF \in Nat
  BY LwipAssumption DEF Init, setupPcb, tcp_alloc
<1>4. Ordered(Now)
  <2>1. Len(Now.queue) = 1 /\ Now.queue[1].kind = "accept"
    BY <1>2, NowType
  <2>2. \A i \in 1 .. Len(Now.queue) : Now.queue[i].kind = "accept"
    BY <2>1
  <2>3. "accept" \notin AfterActivated /\ "accept" \notin BeforeEOF
    BY DEF AfterActivated, BeforeEOF
  <2> QED BY <2>2, <2>3 DEF Ordered
<1>5. Gates(Now)
  BY <1>2, <1>3, NowType DEF Gates
<1>6. Calls
  BY <1>2 DEF Calls
<1>7. BuffersAccounted
  <2>1. DataBlocks(connectionsQueue) = 0
    BY <1>2, NoDataBlocks
  <2> QED BY <1>2, <2>1 DEF BuffersAccounted
<1> QED BY <1>1, <1>4, <1>5, <1>6, <1>7 DEF StreamInv

\* The upper layer's calls run on the packets queue, but for dropping the connection.
LEMMA UserCallIsPackets ==
  ASSUME StreamInv, UserCall, ~DropConnection
  PROVE  PacketsStep
<1>1. WorldInv(Now, 0) /\ 0 \in Nat /\ Gates(Now) /\ Now \in World /\ user \in User
  BY DEF StreamInv, IInv, WorldInv, TypeOK
<1>2. ASSUME NEW v, Flow(Now, v), Gates(v), WorldInv(v, 0), Step(Now, v), Becomes(v),
             UNCHANGED <<running, user>>
      PROVE  PacketsStep
  BY <1>2 DEF PacketsStep
<1>3. CASE MarkActive
  <2> DEFINE v == markActive(Now)
  <2>1. Now.conn.handlers # "unset"
    BY <1>3, NowType DEF MarkActive, StreamInv, IInv, LastCall
  <2>2. WorldInv(v, 0) /\ Step(Now, v)
    BY <1>1, <2>1, MarkActiveInv
  <2>3. Flow(Now, v) /\ Gates(v)
    BY <1>1, <2>1, MarkActiveFlow
  <2>4. Becomes(v) /\ UNCHANGED <<running, user>>
    BY <1>3 DEF MarkActive
  <2> QED BY <1>2, <2>2, <2>3, <2>4
<1>4. ASSUME NEW enabled \in BOOLEAN, SetInboundDeliveryEnabled(enabled)
      PROVE  PacketsStep
  <2> DEFINE v == setInboundDeliveryEnabled(Now, enabled)
  <2>1. WorldInv(v, 0) /\ Step(Now, v)
    BY <1>1, SetInboundInv
  <2>2. Flow(Now, v) /\ Gates(v)
    BY <1>1, SetInboundFlow
  <2>3. Becomes(v) /\ UNCHANGED <<running, user>>
    BY <1>4 DEF SetInboundDeliveryEnabled
  <2> QED BY <1>2, <2>1, <2>2, <2>3
<1>5. ASSUME NEW bytes \in AckSizes, AcknowledgeDeliveredBytes(bytes)
      PROVE  PacketsStep
  <2> DEFINE v == acknowledgeDeliveredBytes(Now, bytes)
             m == IF user.unacked < bytes THEN 0 ELSE user.unacked - bytes
  <2>1. bytes \in Nat
    BY SystemAssumption
  <2>2. WorldInv(v, 0) /\ Step(Now, v)
    BY <1>1, <2>1, AcknowledgeInv
  <2>3. Flow(Now, v) /\ Gates(v)
    BY <1>1, <2>1, AcknowledgeFlow
  <2>4. Becomes(v) /\ running' = running /\ user' = [user EXCEPT !.unacked = m]
    BY <1>5 DEF AcknowledgeDeliveredBytes
  <2> HIDE DEF v, m
  <2>5. /\ user'.activated = user.activated
        /\ user'.eof = user.eof
        /\ user'.terminated = user.terminated
        /\ user'.releases = user.releases
    BY <1>1, <2>4 DEF User
  <2> QED BY <2>2, <2>3, <2>4, <2>5 DEF PacketsStep
<1>6. ASSUME NEW length \in WriteSizes, NEW nomem \in MayRunOut, WriteBytes(length, nomem)
      PROVE  PacketsStep
  <2> DEFINE v == writeBytes(Now, length, nomem)
  <2>1. length \in Nat /\ nomem \in BOOLEAN
    BY SystemAssumption
  <2>2. WorldInv(v, 0) /\ Step(Now, v)
    BY <1>1, <2>1, WriteBytesInv
  <2>3. Flow(Now, v) /\ Gates(v)
    BY <1>1, <2>1, WriteBytesFlow
  <2>4. Becomes(v) /\ UNCHANGED <<running, user>>
    BY <1>6 DEF WriteBytes
  <2> QED BY <1>2, <2>2, <2>3, <2>4
<1>7. ASSUME NEW nomem \in MayRunOut, ShutdownWrite(nomem)
      PROVE  PacketsStep
  <2> DEFINE v == shutdownWrite(Now, nomem)
  <2>1. WorldInv(v, 0) /\ Step(Now, v)
    BY <1>1, ShutdownWriteInv
  <2>2. Flow(Now, v) /\ Gates(v)
    BY <1>1, ShutdownWriteFlow
  <2>3. Becomes(v) /\ UNCHANGED <<running, user>>
    BY <1>7 DEF ShutdownWrite
  <2> QED BY <1>2, <2>1, <2>2, <2>3
<1>8. ASSUME NEW nomem \in MayRunOut, GracefulClose(nomem)
      PROVE  PacketsStep
  <2> DEFINE v == gracefulClose(Now, nomem)
  <2>1. nomem \in BOOLEAN
    BY SystemAssumption
  <2>2. WorldInv(v, 0) /\ Step(Now, v)
    BY <1>1, <2>1, GracefulCloseInv
  <2>3. Flow(Now, v) /\ Gates(v)
    BY <1>1, <2>1, GracefulCloseFlow, DeadGates
  <2>4. Becomes(v) /\ UNCHANGED <<running, user>>
    BY <1>8 DEF GracefulClose
  <2> QED BY <1>2, <2>2, <2>3, <2>4
<1>9. CASE Abort
  <2> DEFINE v == abortLocked(Now, "Abort")
  <2>1. "Abort" \in Reasons
    BY DEF Reasons
  <2>2. WorldInv(v, 0) /\ Step(Now, v)
    BY <1>1, <2>1, AbortInv
  <2>3. Flow(Now, v) /\ Gates(v)
    BY <1>1, <2>1, AbortFlow, DeadGates
  <2>4. Becomes(v) /\ UNCHANGED <<running, user>>
    BY <1>9 DEF Abort, abort
  <2> QED BY <1>2, <2>2, <2>3, <2>4
<1> QED
  BY <1>3, <1>4, <1>5, <1>6, <1>7, <1>8, <1>9 DEF UserCall

\* lwIP runs on the packets queue: segments, RSTs, pcb shortage and the timers.
LEMMA LwipIsPackets ==
  ASSUME StreamInv, Network \/ Timers
  PROVE  PacketsStep
<1>1. WorldInv(Now, 0) /\ 0 \in Nat /\ Gates(Now) /\ Now \in World
  BY DEF StreamInv, IInv, WorldInv
<1>2. ASSUME NEW v, Flow(Now, v), Gates(v), WorldInv(v, 0), Step(Now, v), Becomes(v),
             UNCHANGED <<running, user>>
      PROVE  PacketsStep
  BY <1>2 DEF PacketsStep
<1>3. MayRunOut \subseteq BOOLEAN
  BY SystemAssumption
<1>4. ASSUME NEW s \in Segment, NEW nomem \in MayRunOut, TcpInput(s, nomem)
      PROVE  PacketsStep
  <2> DEFINE v == tcp_input(Now, s, nomem)
  <2>1. Acceptable(Now.pcb, s) /\ nomem \in BOOLEAN
    BY <1>3, <1>4, NowType DEF TcpInput
  <2>2. WorldInv(v, 0) /\ Step(Now, v)
    BY <1>1, <2>1, InputInv
  <2>3. Flow(Now, v) /\ Gates(v)
    BY <1>1, <2>1, InputFlow
  <2>4. Becomes(v) /\ UNCHANGED <<running, user>>
    BY <1>4 DEF TcpInput
  <2> QED BY <1>2, <2>2, <2>3, <2>4
<1>5. ASSUME NEW nomem \in MayRunOut, TcpInputRst(nomem)
      PROVE  PacketsStep
  <2> DEFINE v == tcp_input_rst(Now, nomem)
  <2>1. WorldInv(v, 0) /\ Step(Now, v)
    BY <1>1, <1>3, InputRstInv
  <2>2. Flow(Now, v) /\ Gates(v)
    BY <1>1, <1>3, InputRstFlow
  <2>3. Becomes(v) /\ UNCHANGED <<running, user>>
    BY <1>5 DEF TcpInputRst
  <2> QED BY <1>2, <2>1, <2>2, <2>3
<1>6. ASSUME NEW nofin \in MayRunOut, NEW killed \in BOOLEAN, TcpAllocShortage(nofin, killed)
      PROVE  PacketsStep
  <2> DEFINE v == tcp_alloc_shortage(Now, nofin, killed)
  <2>1. WorldInv(v, 0) /\ Step(Now, v)
    BY <1>1, AllocShortageInv
  <2>2. Flow(Now, v) /\ Gates(v)
    BY <1>1, AllocShortageFlow
  <2>3. Becomes(v) /\ UNCHANGED <<running, user>>
    BY <1>6 DEF TcpAllocShortage
  <2> QED BY <1>2, <2>1, <2>2, <2>3
<1>7. ASSUME NEW nofin \in MayRunOut, NEW nomem \in MayRunOut, TcpFasttmr(nofin, nomem)
      PROVE  PacketsStep
  <2> DEFINE v == tcp_fasttmr(Now, nofin, nomem)
  <2>1. WorldInv(v, 0) /\ Step(Now, v)
    BY <1>1, <1>3, FasttmrInv
  <2>2. Flow(Now, v) /\ Gates(v)
    BY <1>1, <1>3, FasttmrFlow
  <2>3. Becomes(v) /\ UNCHANGED <<running, user>>
    BY <1>7 DEF TcpFasttmr
  <2> QED BY <1>2, <2>1, <2>2, <2>3
<1>8. ASSUME NEW nomem \in MayRunOut, TcpSlowtmrPoll(nomem)
      PROVE  PacketsStep
  <2> DEFINE v == TCP_EVENT_POLL(Now, timedOut, nomem)
  <2>1. WorldInv(v, 0) /\ Step(Now, v)
    BY <1>1, <1>3, EventPollInv
  <2>2. Flow(Now, v) /\ Gates(v)
    BY <1>1, <1>3, EventPollFlow
  <2>3. Becomes(v) /\ UNCHANGED <<running, user>>
    BY <1>8 DEF TcpSlowtmrPoll, tcp_slowtmr_poll
  <2> QED BY <1>2, <2>1, <2>2, <2>3
<1>9. CASE TcpSlowtmrRemove
  <2> DEFINE v == tcp_slowtmr_remove(Now)
  <2>1. WorldInv(v, 0) /\ Step(Now, v)
    BY <1>1, SlowtmrRemoveInv
  <2>2. Flow(Now, v) /\ Gates(v)
    BY <1>1, SlowtmrRemoveFlow
  <2>3. Becomes(v) /\ UNCHANGED <<running, user>>
    BY <1>9 DEF TcpSlowtmrRemove
  <2> QED BY <1>2, <2>1, <2>2, <2>3
<1>10. CASE TcpSlowtmrTimeWait
  <2> DEFINE v == tcp_slowtmr_timewait(Now)
  <2>1. WorldInv(v, 0) /\ Step(Now, v)
    BY <1>1, FreeInv DEF tcp_slowtmr_timewait
  <2>2. Flow(Now, v) /\ Gates(v)
    BY <1>1, TimeWaitFlow
  <2>3. Becomes(v) /\ UNCHANGED <<running, user>>
    BY <1>10 DEF TcpSlowtmrTimeWait
  <2> QED BY <1>2, <2>1, <2>2, <2>3
<1>11. CASE NewStateTimeout
  <2>1. UNCHANGED <<conn, pcb, connectionsQueue, pbufs, stale, dropped, running, user>>
    BY <1>11 DEF NewStateTimeout, world
  <2>2. Becomes(Now) /\ Step(Now, Now) /\ Flow(Now, Now)
    BY <1>1, <2>1, StepRefl, FlowRefl DEF Becomes, Now
  <2> QED BY <1>1, <1>2, <2>1, <2>2
<1> QED
  BY <1>4, <1>5, <1>6, <1>7, <1>8, <1>9, <1>10, <1>11 DEF Network, Timers

\* The packets queue preserves the invariant.
LEMMA PacketsInv ==
  ASSUME StreamInv, IInv', PacketsStep
  PROVE  StreamInv'
<1>1. PICK v : /\ WorldInv(v, 0)
               /\ Step(Now, v)
               /\ Flow(Now, v)
               /\ Gates(v)
               /\ Becomes(v)
  BY DEF PacketsStep
<1>2. /\ v \in World
      /\ v.conn = conn'
      /\ v.queue = connectionsQueue'
      /\ v.pbufs = pbufs'
  BY <1>1 DEF WorldInv, Becomes
<1>3. Now' = v
  BY <1>1, <1>2 DEF Now, Becomes, World
<1>4. /\ running' = running
      /\ user'.activated = user.activated
      /\ user'.eof = user.eof
      /\ user'.releases = user.releases
  BY DEF PacketsStep
<1>5. /\ Len(connectionsQueue) \in Nat
      /\ Len(connectionsQueue') \in Nat
      /\ pbufs \in Int
      /\ connectionsQueue \in Seq(Block)
  BY <1>2, CallFields, Parts DEF StreamInv, IInv
<1>6. conn'.alive => conn.alive
  <2>1. Live(Now) \/ Dead(Now)
    BY DEF StreamInv, IInv, WorldInv
  <2> QED BY <1>1, <1>2, <2>1, NowType DEF Step, Live, Dead
<1>7. /\ conn.didNotifyActive => conn'.didNotifyActive
      /\ conn.readEOF => conn'.readEOF
      /\ Len(connectionsQueue) <= Len(connectionsQueue')
      /\ \A i \in 1 .. Len(connectionsQueue) : connectionsQueue'[i] = connectionsQueue[i]
      /\ \A i \in Len(connectionsQueue) + 1 .. Len(connectionsQueue') :
           /\ connectionsQueue'[i].kind = "activated" => ~conn.didNotifyActive
           /\ connectionsQueue'[i].kind \in BeforeEOF => ~conn.readEOF
      /\ conn'.didNotifyActive /\ ~conn.didNotifyActive =>
           \E i \in Len(connectionsQueue) + 1 .. Len(connectionsQueue') :
             connectionsQueue'[i].kind = "activated"
  BY <1>1, <1>2, NowType DEF Flow
<1>8. ASSUME NEW i \in 1 .. Len(connectionsQueue')
      PROVE  \/ i \in 1 .. Len(connectionsQueue)
             \/ i \in Len(connectionsQueue) + 1 .. Len(connectionsQueue')
  BY <1>5
<1>9. 1 .. Len(connectionsQueue) \subseteq 1 .. Len(connectionsQueue')
      /\ Len(connectionsQueue) + 1 .. Len(connectionsQueue') \subseteq 1 .. Len(connectionsQueue')
  BY <1>5, <1>7
<1>10. Calls'
  <2>1. Calls
    BY DEF StreamInv
  <2>2. ASSUME user.activated \/ running.kind = "activated"
        PROVE  /\ conn'.didNotifyActive
               /\ \A i \in 1 .. Len(connectionsQueue') : connectionsQueue'[i].kind # "activated"
    BY <1>7, <1>8, <2>1, <2>2 DEF Calls
  <2>3. ASSUME user.eof \/ running.kind = "eof"
        PROVE  /\ conn'.readEOF
               /\ \A i \in 1 .. Len(connectionsQueue') : connectionsQueue'[i].kind \notin BeforeEOF
    BY <1>7, <1>8, <2>1, <2>3 DEF Calls
  <2>4. ASSUME conn'.alive, conn'.didNotifyActive
        PROVE  \/ user.activated
               \/ running.kind = "activated"
               \/ \E i \in 1 .. Len(connectionsQueue') : connectionsQueue'[i].kind = "activated"
    <3>1. CASE conn.didNotifyActive
      BY <1>6, <1>7, <1>9, <2>1, <2>4, <3>1 DEF Calls
    <3>2. CASE ~conn.didNotifyActive
      BY <1>7, <1>9, <2>4, <3>2
    <3> QED BY <3>1, <3>2
  <2>5. running.kind \in {"data", "copied"} => user.activated /\ ~user.eof
    BY <2>1 DEF Calls
  <2>6. running.kind # "accept"
    BY <2>1 DEF Calls
  <2> QED BY <1>4, <2>2, <2>3, <2>4, <2>5, <2>6 DEF Calls
<1>11. BuffersAccounted'
  <2>1. v.pbufs - DataBlocks(v.queue) = pbufs - DataBlocks(connectionsQueue)
    <3>1. Now.pbufs = pbufs
      BY DEF Now
    <3> QED BY <1>1, <3>1, NowType DEF Flow
  <2>2. DataBlocks(connectionsQueue) \in Nat /\ DataBlocks(v.queue) \in Nat /\ v.pbufs \in Int
    <3>1. [kind |-> "sent", n |-> 0] \in Block
      BY DEF Block, BlockKinds
    <3> QED BY <1>2, <1>5, <3>1, DataBlocksAppend, Parts
  <2>3. DataBlocks(connectionsQueue)' = DataBlocks(v.queue)
    BY <1>2 DEF DataBlocks
  <2>4. user.releases \in Nat
    BY CallFields DEF StreamInv, IInv
  <2>5. pbufs = DataBlocks(connectionsQueue) + (IF running.kind = "data" THEN 1 ELSE 0) + user.releases
    BY DEF StreamInv, BuffersAccounted
  <2>6. pbufs' = DataBlocks(v.queue) + (IF running.kind = "data" THEN 1 ELSE 0) + user.releases
    <3> DEFINE rn == IF running.kind = "data" THEN 1 ELSE 0
               d0 == DataBlocks(connectionsQueue)
               d1 == DataBlocks(v.queue)
    <3>1. rn \in Nat /\ pbufs' = v.pbufs
      BY <1>2
    <3> HIDE DEF rn, d0, d1
    <3>2. pbufs' = d1 + rn + user.releases
      <4>1. /\ v.pbufs - d1 = pbufs - d0
            /\ d0 \in Nat
            /\ d1 \in Nat
            /\ v.pbufs \in Int
            /\ pbufs = d0 + rn + user.releases
        BY <2>1, <2>2, <2>5 DEF rn, d0, d1
      <4> QED BY <1>5, <2>4, <3>1, <4>1, SMTT(30)
    <3> QED BY <3>2 DEF rn, d1
  <2> QED BY <1>4, <2>3, <2>6 DEF BuffersAccounted
<1>12. Ordered(Now') /\ Gates(Now')
  BY <1>1, <1>3 DEF Flow, StreamInv
<1> QED BY <1>10, <1>11, <1>12 DEF StreamInv

\* What the order of the blocks says of the oldest one: it may be called.
LEMMA HeadMayRun ==
  ASSUME StreamInv, connectionsQueue # <<>>, running = NoBlock
  PROVE  LET b == Head(connectionsQueue) IN
         /\ b.kind = "activated" => ~user.activated /\ conn.didNotifyActive
         /\ b.kind = "eof" => ~user.eof /\ conn.readEOF
         /\ b.kind \in AfterActivated \ {"activated"} /\ conn.alive => user.activated
         /\ b.kind \in BeforeEOF => ~user.eof
<1> DEFINE b == Head(connectionsQueue)
<1>1. /\ Len(connectionsQueue) \in Nat
      /\ 1 \in 1 .. Len(connectionsQueue)
      /\ b = connectionsQueue[1]
  BY CallFields DEF StreamInv, IInv
<1> HIDE DEF b
<1>2. Calls /\ running.kind = "none"
  BY DEF StreamInv, NoBlock
<1>3. /\ b.kind \in AfterActivated => conn.didNotifyActive
      /\ b.kind = "eof" => conn.readEOF
      /\ \A j \in 1 .. Len(connectionsQueue) : 1 < j =>
           /\ connectionsQueue[j].kind = "activated" => b.kind \notin AfterActivated
           /\ b.kind = "eof" => connectionsQueue[j].kind \notin BeforeEOF
  BY <1>1, NowType DEF StreamInv, Ordered
<1>4. /\ b.kind = "activated" => ~user.activated
      /\ b.kind \in BeforeEOF => ~user.eof
  BY <1>1, <1>2 DEF Calls
<1>5. ASSUME b.kind \in AfterActivated \ {"activated"}, conn.alive
      PROVE  user.activated
  <2>1. ASSUME NEW i \in 1 .. Len(connectionsQueue)
        PROVE  connectionsQueue[i].kind # "activated"
    <3>1. i = 1 \/ 1 < i
      BY <1>1
    <3> QED BY <1>1, <1>3, <1>5, <3>1
  <2> QED BY <1>2, <1>3, <1>5, <2>1 DEF Calls
<1>6. "activated" \in AfterActivated /\ "eof" \in BeforeEOF
  BY DEF AfterActivated, BeforeEOF
<1> QED BY <1>3, <1>4, <1>5, <1>6 DEF b

\* The connections queue takes its oldest block: its callback begins, or, on a dead
\* connection, its buffer is released instead.
LEMMA HeadInv ==
  ASSUME StreamInv, IInv', connectionsQueue # <<>>, running = NoBlock,
         connectionsQueue' = Tail(connectionsQueue),
         pcb' = pcb, pbufs' = pbufs,
         conn'.alive = conn.alive, conn'.state = conn.state,
         conn'.didNotifyActive = conn.didNotifyActive, conn'.readEOF = conn.readEOF,
         user'.activated = user.activated, user'.eof = user.eof,
         LET b == Head(connectionsQueue) IN
           \/ /\ running' = b
              /\ b.kind # "accept"
              /\ conn.alive \/ b.kind = "terminated"
              /\ user'.releases = user.releases
           \/ /\ running' = NoBlock
              /\ b.kind = "activated" => ~conn.alive
              /\ user'.releases = user.releases + (IF b.kind = "data" THEN 1 ELSE 0)
  PROVE  StreamInv'
<1> DEFINE b == Head(connectionsQueue)
           q == Tail(connectionsQueue)
<1>1. /\ connectionsQueue \in Seq(Block)
      /\ user.releases \in Nat
      /\ pbufs \in Int
  BY CallFields DEF StreamInv, IInv
<1>2. /\ Len(connectionsQueue) \in Nat
      /\ 1 \in 1 .. Len(connectionsQueue)
      /\ b = connectionsQueue[1]
      /\ Len(q) = Len(connectionsQueue) - 1
      /\ \A i \in 1 .. Len(q) : q[i] = connectionsQueue[i + 1]
  BY <1>1
<1>3. Calls /\ running.kind = "none" /\ running.kind # "data"
  BY DEF StreamInv, NoBlock
<1>4. /\ b.kind = "activated" => ~user.activated /\ conn.didNotifyActive
      /\ b.kind = "eof" => ~user.eof /\ conn.readEOF
      /\ b.kind \in AfterActivated \ {"activated"} /\ conn.alive => user.activated
      /\ b.kind \in BeforeEOF => ~user.eof
  BY HeadMayRun
<1>5. /\ DataBlocks(connectionsQueue) \in Nat
      /\ DataBlocks(q) = DataBlocks(connectionsQueue) - (IF b.kind = "data" THEN 1 ELSE 0)
  BY <1>1, DataBlocksTail
<1>6. \/ /\ running' = b
         /\ b.kind # "accept"
         /\ conn.alive \/ b.kind = "terminated"
         /\ user'.releases = user.releases
      \/ /\ running' = NoBlock
         /\ b.kind = "activated" => ~conn.alive
         /\ user'.releases = user.releases + (IF b.kind = "data" THEN 1 ELSE 0)
  OBVIOUS
<1>7. Now' = [conn |-> conn', pcb |-> pcb', queue |-> q, pbufs |-> pbufs',
             stale |-> stale', dropped |-> dropped']
  BY DEF Now
<1>8. Ordered(Now')
  <2>1. /\ Now'.queue = Tail(Now.queue)
        /\ Now'.conn.didNotifyActive = Now.conn.didNotifyActive
        /\ Now'.conn.readEOF = Now.conn.readEOF
        /\ Now.queue = connectionsQueue
    BY <1>7, NowType
  <2>2. Ordered(Now)
    BY DEF StreamInv
  <2> QED BY <1>1, <2>1, <2>2, OrderedTail
<1>9. Gates(Now')
  <2>1. Now'.conn = conn' /\ Now'.pcb = pcb /\ Gates(Now)
    BY <1>7 DEF StreamInv
  <2> QED BY <2>1, NowType DEF Gates
<1> HIDE DEF b, q
<1>10. BuffersAccounted'
  <2>1. pbufs = DataBlocks(connectionsQueue) + user.releases
    BY <1>1, <1>3, <1>5 DEF StreamInv, BuffersAccounted
  <2>2. pbufs' = DataBlocks(q) + (IF running'.kind = "data" THEN 1 ELSE 0) + user'.releases
    <3>1. CASE running' = b /\ user'.releases = user.releases
      BY <1>1, <1>5, <2>1, <3>1
    <3>2. CASE /\ running'.kind = "none"
               /\ user'.releases = user.releases + (IF b.kind = "data" THEN 1 ELSE 0)
      BY <1>1, <1>5, <2>1, <3>2
    <3> QED BY <1>6, <3>1, <3>2 DEF NoBlock
  <2> QED BY <2>2 DEF BuffersAccounted, DataBlocks, q
<1>11. Calls'
  <2>0. connectionsQueue' = q /\ Len(q) \in Nat
    BY <1>2 DEF q
  <2>1. \A i \in 1 .. Len(q) : i + 1 \in 1 .. Len(connectionsQueue) /\ 1 < i + 1
    BY <1>2
  <2>2. /\ b.kind = "activated" => \A i \in 1 .. Len(q) : q[i].kind # "activated"
        /\ b.kind = "eof" => \A i \in 1 .. Len(q) : q[i].kind \notin BeforeEOF
    <3>1. "activated" \in AfterActivated
      BY DEF AfterActivated
    <3> QED BY <1>2, <2>1, <3>1, NowType DEF StreamInv, Ordered
  <2>3. running'.kind = "activated" => b.kind = "activated"
    BY <1>6 DEF NoBlock
  <2>4. running'.kind = "eof" => b.kind = "eof"
    BY <1>6 DEF NoBlock
  <2>5. ASSUME user.activated \/ running'.kind = "activated"
        PROVE  /\ conn.didNotifyActive
               /\ \A i \in 1 .. Len(q) : q[i].kind # "activated"
    <3>1. CASE user.activated
      BY <1>2, <1>3, <2>1, <3>1 DEF Calls
    <3>2. CASE b.kind = "activated"
      BY <1>4, <2>2, <3>2
    <3> QED BY <2>3, <2>5, <3>1, <3>2
  <2>6. ASSUME user.eof \/ running'.kind = "eof"
        PROVE  /\ conn.readEOF
               /\ \A i \in 1 .. Len(q) : q[i].kind \notin BeforeEOF
    <3>1. CASE user.eof
      BY <1>2, <1>3, <2>1, <3>1 DEF Calls
    <3>2. CASE b.kind = "eof"
      BY <1>4, <2>2, <3>2
    <3> QED BY <2>4, <2>6, <3>1, <3>2
  <2>7. ASSUME conn.alive, conn.didNotifyActive, ~user.activated, running'.kind # "activated"
        PROVE  \E i \in 1 .. Len(q) : q[i].kind = "activated"
    <3>1. PICK j \in 1 .. Len(connectionsQueue) : connectionsQueue[j].kind = "activated"
      BY <1>3, <2>7 DEF Calls
    <3>2. j # 1
      BY <1>2, <1>6, <2>7, <3>1
    <3>3. j - 1 \in 1 .. Len(q) /\ q[j - 1] = connectionsQueue[j]
      BY <1>2, <3>2
    <3> QED BY <3>1, <3>3
  <2>8. running'.kind \in {"data", "copied"} => user.activated /\ ~user.eof
    <3>1. /\ "data" \in AfterActivated \ {"activated"} /\ "data" \in BeforeEOF
          /\ "copied" \in AfterActivated \ {"activated"} /\ "copied" \in BeforeEOF
      BY DEF AfterActivated, BeforeEOF
    <3>2. running'.kind \in {"data", "copied"} => running' = b /\ conn.alive
      BY <1>6 DEF NoBlock
    <3> QED BY <1>4, <3>1, <3>2
  <2>9. running'.kind # "accept"
    BY <1>6 DEF NoBlock
  <2> QED BY <2>0, <2>5, <2>6, <2>7, <2>8, <2>9 DEF Calls
<1> QED BY <1>8, <1>9, <1>10, <1>11 DEF StreamInv

\* A callback returns.
LEMMA CallInv ==
  ASSUME StreamInv, IInv', CallBlock
  PROVE  StreamInv'
<1>1. /\ user \in User
      /\ user.activated \in BOOLEAN
      /\ user.eof \in BOOLEAN
      /\ user.releases \in Nat
      /\ Calls
      /\ BuffersAccounted
  BY CallFields DEF StreamInv, IInv, TypeOK
<1>2. /\ running' = NoBlock
      /\ UNCHANGED <<conn, pcb, connectionsQueue, pbufs, stale, dropped>>
      /\ user' = CASE running.kind = "activated"  -> [user EXCEPT !.activated = TRUE]
                   [] running.kind = "eof"        -> [user EXCEPT !.eof = TRUE]
                   [] running.kind = "terminated" -> [user EXCEPT !.terminated = TRUE]
                   [] running.kind = "data"       -> [user EXCEPT !.unacked = @ + running.n,
                                                                  !.releases = @ + 1]
                   [] OTHER                       -> user
  BY DEF CallBlock, world
<1>3. /\ user'.activated <=> user.activated \/ running.kind = "activated"
      /\ user'.eof <=> user.eof \/ running.kind = "eof"
      /\ user'.releases = user.releases + (IF running.kind = "data" THEN 1 ELSE 0)
  <2>1. CASE running.kind = "activated"
    BY <1>1, <1>2, <2>1 DEF User
  <2>2. CASE running.kind = "eof"
    BY <1>1, <1>2, <2>2 DEF User
  <2>3. CASE running.kind = "terminated"
    BY <1>1, <1>2, <2>3 DEF User
  <2>4. CASE running.kind = "data"
    BY <1>1, <1>2, <2>4 DEF User
  <2>5. CASE running.kind \notin {"activated", "eof", "terminated", "data"}
    BY <1>1, <1>2, <2>5 DEF User
  <2> QED BY <2>1, <2>2, <2>3, <2>4, <2>5
<1>4. Now' = Now
  BY <1>2 DEF Now
<1>5. Ordered(Now') /\ Gates(Now')
  BY <1>4 DEF StreamInv
<1>6. running'.kind = "none"
  BY <1>2 DEF NoBlock
<1>7. Calls'
  BY <1>1, <1>2, <1>3, <1>6 DEF Calls
<1>8. BuffersAccounted'
  <2>1. DataBlocks(connectionsQueue)' = DataBlocks(connectionsQueue)
    BY <1>2
  <2>2. DataBlocks(connectionsQueue) \in Nat
    <3>1. [kind |-> "sent", n |-> 0] \in Block /\ connectionsQueue \in Seq(Block)
      BY CallFields DEF Block, BlockKinds, StreamInv, IInv
    <3> QED BY <3>1, DataBlocksAppend
  <2> QED BY <1>1, <1>2, <1>3, <1>6, <2>1, <2>2 DEF BuffersAccounted
<1> QED BY <1>5, <1>7, <1>8 DEF StreamInv

\* A step that leaves the blocks, the flags and the callbacks alone.
LEMMA QuietInv ==
  ASSUME StreamInv, IInv', UNCHANGED <<connectionsQueue, running, pcb>>,
         conn'.alive = conn.alive, conn'.state = conn.state,
         conn'.didNotifyActive = conn.didNotifyActive, conn'.readEOF = conn.readEOF,
         user'.activated = user.activated, user'.eof = user.eof,
         pbufs' - user'.releases = pbufs - user.releases
  PROVE  StreamInv'
<1>1. Now' = [conn |-> conn', pcb |-> pcb, queue |-> connectionsQueue, pbufs |-> pbufs',
             stale |-> stale', dropped |-> dropped']
  BY DEF Now
<1>2. Now'.conn = conn' /\ Now'.pcb = pcb /\ Now'.queue = connectionsQueue
  BY <1>1
<1>3. Ordered(Now') /\ Gates(Now')
  BY <1>2, NowType DEF StreamInv, Ordered, Gates
<1>4. Calls'
  BY DEF StreamInv, Calls
<1>5. BuffersAccounted'
  <2>1. DataBlocks(connectionsQueue)' = DataBlocks(connectionsQueue)
    OBVIOUS
  <2>2. /\ user.releases \in Nat
        /\ pbufs \in Int
        /\ (user.releases \in Nat)'
        /\ (pbufs \in Int)'
        /\ connectionsQueue \in Seq(Block)
    BY CallFields DEF StreamInv, IInv, TypeOK, User
  <2>3. DataBlocks(connectionsQueue) \in Nat
    <3>1. [kind |-> "sent", n |-> 0] \in Block
      BY DEF Block, BlockKinds
    <3> QED BY <2>2, <3>1, DataBlocksAppend
  <2> QED BY <2>1, <2>2, <2>3 DEF StreamInv, BuffersAccounted
<1> QED BY <1>3, <1>4, <1>5 DEF StreamInv

\* Every step preserves the invariant.
LEMMA StreamStep ==
  ASSUME StreamInv, [Next]_vars
  PROVE  StreamInv'
<1>1. IInv'
  BY UserCallInv, NetworkInv, TimersInv, CallbacksInv, StutterInv DEF Next, StreamInv
<1>2. TypeOK /\ user \in User /\ conn \in Conn /\ user.releases \in Nat /\ pbufs \in Int
  BY CallFields DEF StreamInv, IInv, TypeOK
<1>3. CASE (UserCall /\ ~DropConnection) \/ Network \/ Timers
  BY <1>1, <1>3, UserCallIsPackets, LwipIsPackets, PacketsInv
<1>4. CASE DropConnection
  <2>1. /\ user' = [user EXCEPT !.holds = FALSE]
        /\ conn' = [conn EXCEPT !.exists = FALSE]
        /\ UNCHANGED <<pcb, connectionsQueue, pbufs, stale, dropped, running>>
    BY <1>4 DEF DropConnection
  <2>2. /\ conn'.alive = conn.alive
        /\ conn'.state = conn.state
        /\ conn'.didNotifyActive = conn.didNotifyActive
        /\ conn'.readEOF = conn.readEOF
    BY <1>2, <2>1 DEF Conn
  <2>3. /\ user'.activated = user.activated
        /\ user'.eof = user.eof
        /\ user'.releases = user.releases
    BY <1>2, <2>1 DEF User
  <2> QED BY <1>1, <2>1, <2>2, <2>3, QuietInv
<1>5. ASSUME NEW mode \in ReadModes, RunAccept(mode)
      PROVE  StreamInv'
  <2>1. /\ running = NoBlock
        /\ connectionsQueue # <<>>
        /\ Head(connectionsQueue).kind = "accept"
        /\ connectionsQueue' = Tail(connectionsQueue)
        /\ user' = [user EXCEPT !.holds = TRUE]
        /\ conn' = [conn EXCEPT !.handlers = mode]
        /\ UNCHANGED <<pcb, pbufs, stale, dropped, running>>
    BY <1>5 DEF RunAccept
  <2>2. /\ conn'.alive = conn.alive
        /\ conn'.state = conn.state
        /\ conn'.didNotifyActive = conn.didNotifyActive
        /\ conn'.readEOF = conn.readEOF
    BY <1>2, <2>1 DEF Conn
  <2>3. /\ user'.activated = user.activated
        /\ user'.eof = user.eof
        /\ user'.releases = user.releases
    BY <1>2, <2>1 DEF User
  <2> QED BY <1>1, <1>2, <2>1, <2>2, <2>3, HeadInv
<1>6. CASE TakeBlock
  <2> DEFINE b == Head(connectionsQueue)
  <2>1. /\ running = NoBlock
        /\ connectionsQueue # <<>>
        /\ b.kind # "accept"
        /\ connectionsQueue' = Tail(connectionsQueue)
        /\ UNCHANGED <<conn, pcb, pbufs, stale, dropped>>
        /\ IF PassesCheck(b)
             THEN running' = b /\ user' = user
             ELSE /\ running' = running
                  /\ user' = IF b.kind = "data" THEN [user EXCEPT !.releases = user.releases + 1]
                                                ELSE user
    BY <1>6 DEF TakeBlock
  <2>2. /\ PassesCheck(b) => conn.alive \/ b.kind = "terminated"
        /\ ~PassesCheck(b) => ~conn.alive
    BY NowType DEF PassesCheck, StreamInv, IInv, WorldInv, Live, Dead
  <2> HIDE DEF b
  <2>3. /\ user'.activated = user.activated
        /\ user'.eof = user.eof
        /\ PassesCheck(b) => user'.releases = user.releases
        /\ ~PassesCheck(b) => user'.releases = user.releases + (IF b.kind = "data" THEN 1 ELSE 0)
    <3>1. CASE PassesCheck(b)
      BY <2>1, <3>1
    <3>2. CASE ~PassesCheck(b) /\ b.kind = "data"
      BY <1>2, <2>1, <3>2 DEF User
    <3>3. CASE ~PassesCheck(b) /\ b.kind # "data"
      BY <1>2, <2>1, <3>3
    <3> QED BY <3>1, <3>2, <3>3
  <2>4. \/ /\ running' = b
           /\ b.kind # "accept"
           /\ conn.alive \/ b.kind = "terminated"
           /\ user'.releases = user.releases
        \/ /\ running' = NoBlock
           /\ b.kind = "activated" => ~conn.alive
           /\ user'.releases = user.releases + (IF b.kind = "data" THEN 1 ELSE 0)
    BY <2>1, <2>2, <2>3
  <2> QED BY <1>1, <2>1, <2>3, <2>4, HeadInv DEF b
<1>7. CASE CallBlock
  BY <1>1, <1>7, CallInv
<1>8. CASE ReleaseBuffer
  <2>1. /\ user' = [user EXCEPT !.releases = user.releases - 1]
        /\ pbufs' = pbufs - 1
        /\ UNCHANGED <<conn, pcb, connectionsQueue, stale, dropped, running>>
    BY <1>8 DEF ReleaseBuffer
  <2>2. /\ user'.activated = user.activated
        /\ user'.eof = user.eof
        /\ user'.releases = user.releases - 1
    BY <1>2, <2>1 DEF User
  <2>3. pbufs' - user'.releases = pbufs - user.releases
    BY <1>2, <2>1, <2>2
  <2> QED BY <1>1, <2>1, <2>2, <2>3, QuietInv
<1>9. CASE UNCHANGED vars
  BY <1>1, <1>9, QuietInv DEF vars
<1> QED
  BY <1>3, <1>4, <1>5, <1>6, <1>7, <1>8, <1>9 DEF Next, Callbacks

-----------------------------------------------------------------------------
(* The steps of the contract.                                              *)

\* A step of the packets queue is the contract's Die or changes nothing the contract
\* speaks of.
LEMMA PacketsContract ==
  ASSUME StreamInv, PacketsStep
  PROVE  [Contract!Next]_(Contract!vars)
<1>1. PICK v : Step(Now, v) /\ Becomes(v) /\ WorldInv(v, 0)
  BY DEF PacketsStep
<1>2. conn.alive \in BOOLEAN /\ conn'.alive \in BOOLEAN
  BY <1>1 DEF StreamInv, IInv, TypeOK, Becomes, WorldInv, World, Conn
<1>3. conn'.alive => conn.alive
  <2>1. Live(Now) \/ Dead(Now)
    BY DEF StreamInv, IInv, WorldInv
  <2> QED BY <1>1, <2>1, NowType DEF Step, Live, Dead, Becomes
<1>4. /\ running' = running
      /\ user'.activated = user.activated
      /\ user'.eof = user.eof
      /\ user'.terminated = user.terminated
  BY DEF PacketsStep
<1>5. CASE conn'.alive = conn.alive
  BY <1>4, <1>5 DEF Contract!vars
<1>6. CASE conn.alive /\ ~conn'.alive
  <2>1. Contract!Die
    BY <1>2, <1>4, <1>6 DEF Contract!Die
  <2> QED BY <2>1 DEF Contract!Next
<1> QED BY <1>2, <1>3, <1>5, <1>6

\* A block whose check passes begins a callback that the contract allows.
LEMMA TakeBegins ==
  ASSUME StreamInv, TakeBlock
  PROVE  [Contract!Next]_(Contract!vars)
<1> DEFINE b == Head(connectionsQueue)
           kind == IF b.kind = "copied" THEN "data" ELSE b.kind
<1>1. /\ running = NoBlock
      /\ connectionsQueue # <<>>
      /\ b.kind # "accept"
      /\ UNCHANGED conn
      /\ IF PassesCheck(b)
           THEN running' = b /\ user' = user
           ELSE /\ running' = running
                /\ user' \in {user, [user EXCEPT !.releases = user.releases + 1]}
  BY DEF TakeBlock
<1>2. /\ user \in User
      /\ connectionsQueue \in Seq(Block)
  BY CallFields DEF StreamInv, IInv, TypeOK
<1>3. b \in Block /\ b = connectionsQueue[1] /\ 1 \in 1 .. Len(connectionsQueue)
  BY <1>1, <1>2
<1>4. /\ b.kind = "activated" => ~user.activated /\ conn.didNotifyActive
      /\ b.kind = "eof" => ~user.eof /\ conn.readEOF
      /\ b.kind \in AfterActivated \ {"activated"} /\ conn.alive => user.activated
      /\ b.kind \in BeforeEOF => ~user.eof
  BY <1>1, HeadMayRun
<1>5. b.kind = "terminated" => ~conn.alive /\ ~user.terminated
  <2>1. b.kind = "terminated" => conn.didNotifyTerminated
    BY <1>3, NowType DEF StreamInv, IInv, WorldInv, QueueInv, TerminatedLast
  <2>2. conn.didNotifyTerminated => ~conn.alive
    BY NowType DEF StreamInv, IInv, WorldInv, Live, Dead
  <2>3. ~user.terminated
    BY <1>1 DEF StreamInv, IInv, LastCall
  <2> QED BY <2>1, <2>2, <2>3
<1> HIDE DEF b
<1>6. CASE PassesCheck(b)
  <2>1. b.kind \in BlockKinds
    BY <1>3 DEF Block
  <2>2. kind \in Contract!Kinds
    BY <1>1, <2>1 DEF BlockKinds, Contract!Kinds
  <2>3. Contract!May(kind)
    <3>1. conn.alive \/ b.kind = "terminated"
      BY <1>6 DEF PassesCheck
    <3>2. CASE b.kind = "activated"
      BY <1>4, <3>1, <3>2 DEF Contract!May
    <3>3. CASE b.kind \in {"data", "copied"}
      BY <1>4, <3>1, <3>3 DEF Contract!May, AfterActivated, BeforeEOF
    <3>4. CASE b.kind = "sent"
      BY <1>4, <3>1, <3>4 DEF Contract!May, AfterActivated
    <3>5. CASE b.kind = "writable"
      BY <3>1, <3>5 DEF Contract!May
    <3>6. CASE b.kind = "eof"
      BY <1>4, <3>1, <3>6 DEF Contract!May
    <3>7. CASE b.kind = "terminated"
      BY <1>5, <3>7 DEF Contract!May
    <3> QED BY <1>1, <2>1, <3>2, <3>3, <3>4, <3>5, <3>6, <3>7 DEF BlockKinds
  <2>4. Contract!Begin(kind)
    <3>1. running.kind = "none"
      BY <1>1 DEF NoBlock
    <3>2. running' = b /\ user' = user /\ conn' = conn
      BY <1>1, <1>6
    <3> QED BY <2>3, <3>1, <3>2 DEF Contract!Begin
  <2> QED BY <2>2, <2>4 DEF Contract!Next
<1>7. CASE ~PassesCheck(b)
  <2>1. /\ running' = running
        /\ conn' = conn
        /\ user'.activated = user.activated
        /\ user'.eof = user.eof
        /\ user'.terminated = user.terminated
    BY <1>1, <1>2, <1>7 DEF User
  <2> QED BY <2>1 DEF Contract!vars
<1> QED BY <1>6, <1>7

\* A callback that was made returns.
LEMMA CallReturns ==
  ASSUME StreamInv, CallBlock
  PROVE  Contract!Next
<1>1. /\ user \in User
      /\ user.activated \in BOOLEAN
      /\ user.eof \in BOOLEAN
      /\ user.terminated \in BOOLEAN
      /\ running \in Block \cup {NoBlock}
  BY CallFields DEF StreamInv, IInv, TypeOK
<1>2. /\ running # NoBlock
      /\ running' = NoBlock
      /\ conn' = conn
      /\ user' = CASE running.kind = "activated"  -> [user EXCEPT !.activated = TRUE]
                   [] running.kind = "eof"        -> [user EXCEPT !.eof = TRUE]
                   [] running.kind = "terminated" -> [user EXCEPT !.terminated = TRUE]
                   [] running.kind = "data"       -> [user EXCEPT !.unacked = @ + running.n,
                                                                  !.releases = @ + 1]
                   [] OTHER                       -> user
  BY DEF CallBlock, world
<1>3. running.kind # "none" /\ running'.kind = "none"
  BY <1>1, <1>2 DEF Block, BlockKinds, NoBlock
<1>4. /\ user'.activated = (user.activated \/ running.kind = "activated")
      /\ user'.eof = (user.eof \/ running.kind = "eof")
      /\ user'.terminated = (user.terminated \/ running.kind = "terminated")
  <2>1. CASE running.kind = "activated"
    BY <1>1, <1>2, <2>1 DEF User
  <2>2. CASE running.kind = "eof"
    BY <1>1, <1>2, <2>2 DEF User
  <2>3. CASE running.kind = "terminated"
    BY <1>1, <1>2, <2>3 DEF User
  <2>4. CASE running.kind = "data"
    BY <1>1, <1>2, <2>4 DEF User
  <2>5. CASE running.kind \notin {"activated", "eof", "terminated", "data"}
    BY <1>1, <1>2, <2>5 DEF User
  <2> QED BY <2>1, <2>2, <2>3, <2>4, <2>5
<1>5. Contract!Return
  <2> DEFINE callback == IF running.kind = "copied" THEN "data" ELSE running.kind
  <2>1. /\ callback # "none"
        /\ callback = "activated" <=> running.kind = "activated"
        /\ callback = "eof" <=> running.kind = "eof"
        /\ callback = "terminated" <=> running.kind = "terminated"
    BY <1>3
  <2>2. callback' = "none"
    BY <1>3
  <2>3. /\ user'.activated = (user.activated \/ callback = "activated")
        /\ user'.eof = (user.eof \/ callback = "eof")
        /\ user'.terminated = (user.terminated \/ callback = "terminated")
    <3> HIDE DEF callback
    <3> QED BY <1>4, <2>1, Zenon
  <2>4. conn'.alive = conn.alive
    BY <1>2
  <2> QED BY <2>1, <2>2, <2>3, <2>4, Zenon DEF Contract!Return
<1> QED BY <1>5 DEF Contract!Next

\* Every step is a step of the contract or none.
LEMMA ContractStep ==
  ASSUME StreamInv, [Next]_vars
  PROVE  [Contract!Next]_(Contract!vars)
<1>1. user \in User /\ conn \in Conn
  BY DEF StreamInv, IInv, TypeOK
<1>2. ASSUME running' = running, conn'.alive = conn.alive,
             user'.activated = user.activated, user'.eof = user.eof,
             user'.terminated = user.terminated
      PROVE  [Contract!Next]_(Contract!vars)
  BY <1>2 DEF Contract!vars
<1>3. CASE (UserCall /\ ~DropConnection) \/ Network \/ Timers
  BY <1>3, UserCallIsPackets, LwipIsPackets, PacketsContract
<1>4. CASE DropConnection
  <2>1. /\ running' = running
        /\ user' = [user EXCEPT !.holds = FALSE]
        /\ conn' = [conn EXCEPT !.exists = FALSE]
    BY <1>4 DEF DropConnection
  <2> QED BY <1>1, <1>2, <2>1 DEF User, Conn
<1>5. ASSUME NEW mode \in ReadModes, RunAccept(mode)
      PROVE  [Contract!Next]_(Contract!vars)
  <2>1. /\ running' = running
        /\ user' = [user EXCEPT !.holds = TRUE]
        /\ conn' = [conn EXCEPT !.handlers = mode]
    BY <1>5 DEF RunAccept
  <2> QED BY <1>1, <1>2, <2>1 DEF User, Conn
<1>6. CASE TakeBlock
  BY <1>6, TakeBegins
<1>7. CASE CallBlock
  BY <1>7, CallReturns
<1>8. CASE ReleaseBuffer
  <2>1. /\ running' = running
        /\ user' = [user EXCEPT !.releases = user.releases - 1]
        /\ conn' = conn
    BY <1>8 DEF ReleaseBuffer
  <2> QED BY <1>1, <1>2, <2>1 DEF User
<1>9. CASE UNCHANGED vars
  BY <1>2, <1>9 DEF vars
<1> QED
  BY <1>3, <1>4, <1>5, <1>6, <1>7, <1>8, <1>9 DEF Next, Callbacks

-----------------------------------------------------------------------------
(* Theorems.                                                               *)

\* StreamInv is an invariant of every behaviour of the system.
THEOREM StreamInvariance == Spec => []StreamInv
<1>1. Init => StreamInv
  BY InitStream
<1>2. StreamInv /\ [Next]_vars => StreamInv'
  BY StreamStep
<1> QED BY <1>1, <1>2, PTL DEF Spec

\* Data reaches the upper layer between onActivated and onReadEOF only, for every window,
\* every sequence of refusals and retries, and every interleaving of the two queues.
THEOREM DataStaysInStream == Spec => []DataWithinStream
<1>1. StreamInv => DataWithinStream
  BY DEF StreamInv, Calls, DataWithinStream
<1> QED BY <1>1, StreamInvariance, PTL

\* Every receive buffer taken over from lwIP is owed exactly one release, also when the
\* connection dies while the buffer is queued.
THEOREM BuffersAreAccounted == Spec => []BuffersAccounted
<1>1. StreamInv => BuffersAccounted
  BY DEF StreamInv
<1> QED BY <1>1, StreamInvariance, PTL

\* TunForgeTCP implements the contract of TFTCPConnection.h: the upper layer sees
\* callbacks begin on a live connection only, in the order and as often as promised, and
\* after its death onTerminated alone.
THEOREM ContractIsKept == Spec => KeepsContract
<1>1. Init => Contract!Init
  <2> SUFFICES ASSUME Init PROVE Contract!Init
    OBVIOUS
  <2>1. /\ conn.alive = TRUE
        /\ running.kind = "none"
        /\ user.activated = FALSE
        /\ user.eof = FALSE
        /\ user.terminated = FALSE
    BY DEF Init, initWithTCPPcb, NoBlock
  <2> QED BY <2>1 DEF Contract!Init
<1>2. StreamInv /\ [Next]_vars => [Contract!Next]_(Contract!vars)
  BY ContractStep
<1> QED BY <1>1, <1>2, StreamInvariance, PTL DEF Spec, KeepsContract, Contract!Spec

-----------------------------------------------------------------------------
(* The bytes of the connections queue.                                     *)

\* The bytes of a queue's data blocks, as DataBytes counts them.
Bytes(q) == UNION {{i} \X (1 .. q[i].n) : i \in {k \in DOMAIN q : q[k].kind = "data"}}

\* The bytes of one block.
BytesOf(b) == IF b.kind = "data" THEN b.n ELSE 0

\* A queue has finitely many bytes, each a data block and a place in it.
LEMMA BytesFinite ==
  ASSUME NEW q \in Seq(Block)
  PROVE  /\ IsFiniteSet(Bytes(q))
         /\ DataBytes(q) = Cardinality(Bytes(q))
         /\ DataBytes(q) \in Nat
         /\ \A x : x \in Bytes(q) <=>
              \E i \in 1 .. Len(q), j \in Nat \ {0} :
                x = <<i, j>> /\ q[i].kind = "data" /\ j <= q[i].n
<1> DEFINE D == {k \in DOMAIN q : q[k].kind = "data"}
           S == {{i} \X (1 .. q[i].n) : i \in D}
<1>1. /\ DOMAIN q = 1 .. Len(q)
      /\ Len(q) \in Nat
      /\ \A i \in 1 .. Len(q) : q[i] \in Block
  OBVIOUS
<1>2. \A i \in 1 .. Len(q) : q[i].n \in Nat
  BY <1>1 DEF Block
<1>3. IsFiniteSet(D)
  <2>1. IsFiniteSet(1 .. Len(q)) /\ D \subseteq 1 .. Len(q)
    BY <1>1, FS_Interval
  <2> QED BY <2>1, FS_Subset
<1>4. \A T \in S : IsFiniteSet(T)
  <2>1. ASSUME NEW i \in D
        PROVE  IsFiniteSet({i} \X (1 .. q[i].n))
    <3>1. 1 \in Int /\ q[i].n \in Int
      BY <1>1, <1>2
    <3>2. IsFiniteSet({i}) /\ IsFiniteSet(1 .. q[i].n)
      BY <3>1, FS_Singleton, FS_Interval
    <3> QED BY <3>2, FS_Product
  <2> HIDE DEF D
  <2> QED BY <2>1
<1>5. IsFiniteSet(S)
  <2> DEFINE f == [i \in D |-> {i} \X (1 .. q[i].n)]
  <2>1. f \in Surjection(D, S)
    BY DEF Surjection
  <2> QED BY <1>3, <2>1, FS_Surjection
<1>6. IsFiniteSet(Bytes(q))
  BY <1>4, <1>5, FS_UNION DEF Bytes
<1>7. DataBytes(q) = Cardinality(Bytes(q))
  BY DEF DataBytes, Bytes
<1>8. ASSUME NEW x
      PROVE  x \in Bytes(q) <=>
               \E i \in 1 .. Len(q), j \in Nat \ {0} :
                 x = <<i, j>> /\ q[i].kind = "data" /\ j <= q[i].n
  <2>1. ASSUME x \in Bytes(q)
        PROVE  \E i \in 1 .. Len(q), j \in Nat \ {0} :
                 x = <<i, j>> /\ q[i].kind = "data" /\ j <= q[i].n
    <3>1. PICK i \in D : x \in {i} \X (1 .. q[i].n)
      BY <2>1 DEF Bytes
    <3>2. PICK j \in 1 .. q[i].n : x = <<i, j>>
      BY <3>1
    <3>3. i \in 1 .. Len(q) /\ j \in Nat \ {0} /\ j <= q[i].n
      BY <1>1, <1>2
    <3> QED BY <3>2, <3>3
  <2>2. ASSUME NEW i \in 1 .. Len(q), NEW j \in Nat \ {0}, x = <<i, j>>, q[i].kind = "data",
               j <= q[i].n
        PROVE  x \in Bytes(q)
    <3>1. i \in D /\ j \in 1 .. q[i].n
      BY <1>1, <1>2, <2>2
    <3>2. x \in {i} \X (1 .. q[i].n)
      BY <2>2, <3>1
    <3> QED BY <3>1, <3>2 DEF Bytes
  <2> QED BY <2>1, <2>2
<1> QED BY <1>6, <1>7, <1>8, FS_CardinalityType

\* The bytes of one block of a queue.
LEMMA BytesOfBlock ==
  ASSUME NEW n, NEW m \in Nat
  PROVE  IsFiniteSet({n} \X (1 .. m)) /\ Cardinality({n} \X (1 .. m)) = m
<1>1. IsFiniteSet({n}) /\ Cardinality({n}) = 1
  BY FS_Singleton
<1>2. 1 \in Int /\ m \in Int
  OBVIOUS
<1>3. IsFiniteSet(1 .. m)
  BY <1>2, FS_Interval
<1>4. Cardinality(1 .. m) = m
  <2>1. Cardinality(1 .. m) = IF 1 > m THEN 0 ELSE m - 1 + 1
    BY <1>2, FS_Interval
  <2> QED BY <2>1
<1>5. IsFiniteSet({n} \X (1 .. m)) /\ Cardinality({n} \X (1 .. m)) = 1 * m
  <2> DEFINE A == {n}
             B == 1 .. m
  <2> HIDE DEF A, B
  <2>1. IsFiniteSet(A \X B) /\ Cardinality(A \X B) = Cardinality(A) * Cardinality(B)
    BY <1>1, <1>3, FS_Product DEF A, B
  <2> QED BY <1>1, <1>4, <2>1 DEF A, B
<1> QED BY <1>5

\* One block more adds its bytes.
LEMMA BytesAppend ==
  ASSUME NEW q \in Seq(Block), NEW b \in Block
  PROVE  DataBytes(Append(q, b)) = DataBytes(q) + BytesOf(b)
<1> DEFINE a == Append(q, b)
           n == Len(q) + 1
           N == {n} \X (1 .. b.n)
<1>1. /\ a \in Seq(Block)
      /\ Len(q) \in Nat
      /\ Len(a) = n
      /\ \A i \in 1 .. Len(q) : a[i] = q[i]
      /\ a[n] = b
      /\ n \in Nat
  OBVIOUS
<1>2. b.n \in Nat
  BY DEF Block
<1> HIDE DEF a
<1>3. \A i \in 1 .. n : i \in 1 .. Len(q) \/ i = n
  BY <1>1
<1>4. 1 .. Len(q) \subseteq 1 .. n /\ n \in 1 .. n /\ n \notin 1 .. Len(q)
  BY <1>1
<1> HIDE DEF n
<1>5. CASE b.kind # "data"
  <2>1. Bytes(a) = Bytes(q)
    <3>1. ASSUME NEW x \in Bytes(a) PROVE x \in Bytes(q)
      <4>1. PICK i \in 1 .. n, j \in Nat \ {0} : x = <<i, j>> /\ a[i].kind = "data" /\ j <= a[i].n
        BY <1>1, BytesFinite
      <4>2. i \in 1 .. Len(q)
        BY <1>1, <1>3, <1>5, <4>1
      <4> QED BY <1>1, <4>1, <4>2, BytesFinite
    <3>2. ASSUME NEW x \in Bytes(q) PROVE x \in Bytes(a)
      <4>1. PICK i \in 1 .. Len(q), j \in Nat \ {0} : x = <<i, j>> /\ q[i].kind = "data" /\ j <= q[i].n
        BY BytesFinite
      <4>2. i \in 1 .. Len(a)
        BY <1>1, <1>4
      <4> QED BY <1>1, <4>1, <4>2, BytesFinite
    <3> QED BY <3>1, <3>2
  <2>2. DataBytes(a) = DataBytes(q) /\ DataBytes(q) \in Nat
    BY <1>1, <2>1, BytesFinite
  <2> QED BY <1>5, <2>2 DEF BytesOf, a
<1>6. CASE b.kind = "data"
  <2>1. Bytes(a) = Bytes(q) \cup N
    <3>1. ASSUME NEW x \in Bytes(a) PROVE x \in Bytes(q) \cup N
      <4>1. PICK i \in 1 .. n, j \in Nat \ {0} : x = <<i, j>> /\ a[i].kind = "data" /\ j <= a[i].n
        BY <1>1, BytesFinite
      <4>2. CASE i \in 1 .. Len(q)
        <5>1. x \in Bytes(q)
          BY <1>1, <4>1, <4>2, BytesFinite
        <5> QED BY <5>1
      <4>3. CASE i = n
        <5>1. j \in 1 .. b.n
          BY <1>1, <1>2, <4>1, <4>3
        <5> QED BY <4>1, <4>3, <5>1
      <4> QED BY <1>3, <4>2, <4>3
    <3>2. ASSUME NEW x \in Bytes(q) PROVE x \in Bytes(a)
      <4>1. PICK i \in 1 .. Len(q), j \in Nat \ {0} : x = <<i, j>> /\ q[i].kind = "data" /\ j <= q[i].n
        BY BytesFinite
      <4>2. i \in 1 .. Len(a)
        BY <1>1, <1>4
      <4> QED BY <1>1, <4>1, <4>2, BytesFinite
    <3>3. ASSUME NEW x \in N PROVE x \in Bytes(a)
      <4>1. PICK j \in 1 .. b.n : x = <<n, j>>
        OBVIOUS
      <4>2. j \in Nat \ {0} /\ j <= a[n].n /\ n \in 1 .. Len(a)
        BY <1>1, <1>2, <1>4
      <4> QED BY <1>1, <1>6, <4>1, <4>2, BytesFinite
    <3> QED BY <3>1, <3>2, <3>3
  <2>2. Bytes(q) \cap N = {}
    <3> SUFFICES ASSUME NEW x \in Bytes(q), x \in N PROVE FALSE
      OBVIOUS
    <3>1. PICK i \in 1 .. Len(q), j \in Nat \ {0} : x = <<i, j>>
      BY BytesFinite
    <3>2. x[1] = n
      OBVIOUS
    <3> QED BY <1>4, <3>1, <3>2
  <2>3. IsFiniteSet(N) /\ Cardinality(N) = b.n
    BY <1>2, BytesOfBlock
  <2> HIDE DEF N
  <2>4. IsFiniteSet(Bytes(q))
    BY BytesFinite
  <2>5. Cardinality(Bytes(q) \cup N) = Cardinality(Bytes(q)) + Cardinality(N) - Cardinality(Bytes(q) \cap N)
    BY <2>3, <2>4, FS_Union
  <2>6. Cardinality({}) = 0
    BY FS_EmptySet
  <2>7. DataBytes(a) = Cardinality(Bytes(q) \cup N) /\ DataBytes(q) = Cardinality(Bytes(q))
        /\ DataBytes(q) \in Nat
    BY <1>1, <2>1, BytesFinite
  <2>8. DataBytes(a) = DataBytes(q) + b.n
    <3>1. DataBytes(a) = DataBytes(q) + b.n - 0
      BY <2>2, <2>3, <2>5, <2>6, <2>7
    <3> QED BY <1>2, <2>7, <3>1
  <2> QED BY <1>6, <2>8 DEF BytesOf, a
<1> QED BY <1>5, <1>6

\* A queue without its oldest block has lost that block's bytes.
LEMMA BytesTail ==
  ASSUME NEW q \in Seq(Block), q # <<>>
  PROVE  DataBytes(q) = DataBytes(Tail(q)) + BytesOf(Head(q))
<1> DEFINE t == Tail(q)
           m == BytesOf(Head(q))
           N == {1} \X (1 .. m)
           S == Bytes(q) \ N
           T == Bytes(t)
           f == [x \in T |-> <<x[1] + 1, x[2]>>]
<1>1. /\ t \in Seq(Block)
      /\ Len(q) \in Nat
      /\ Len(q) > 0
      /\ Len(t) = Len(q) - 1
      /\ \A i \in 1 .. (Len(q) - 1) : t[i] = q[i + 1]
      /\ Head(q) = q[1]
      /\ q[1] \in Block
  OBVIOUS
<1>2. m \in Nat
  BY <1>1 DEF BytesOf, Block
<1> HIDE DEF t
<1>3. IsFiniteSet(N) /\ Cardinality(N) = m
  <2> HIDE DEF m
  <2> QED BY <1>2, BytesOfBlock
<1>4. N \subseteq Bytes(q)
  <2> SUFFICES ASSUME NEW x \in N PROVE x \in Bytes(q)
    OBVIOUS
  <2>1. PICK j \in 1 .. m : x = <<1, j>>
    OBVIOUS
  <2>2. j \in Nat \ {0} /\ j <= q[1].n /\ q[1].kind = "data" /\ 1 \in 1 .. Len(q)
    BY <1>1, <1>2 DEF BytesOf
  <2> QED BY <2>1, <2>2, BytesFinite
<1>5. ASSUME NEW x
      PROVE  x \in S <=> \E i \in 2 .. Len(q), j \in Nat \ {0} :
                          x = <<i, j>> /\ q[i].kind = "data" /\ j <= q[i].n
  <2>1. ASSUME x \in S
        PROVE  \E i \in 2 .. Len(q), j \in Nat \ {0} :
                 x = <<i, j>> /\ q[i].kind = "data" /\ j <= q[i].n
    <3>1. PICK i \in 1 .. Len(q), j \in Nat \ {0} : x = <<i, j>> /\ q[i].kind = "data" /\ j <= q[i].n
      BY <2>1, BytesFinite
    <3>2. i # 1
      <4> SUFFICES ASSUME i = 1 PROVE FALSE
        OBVIOUS
      <4>1. j \in 1 .. m
        BY <1>1, <3>1, <1>2 DEF BytesOf
      <4> QED BY <2>1, <3>1, <4>1
    <3>3. i \in 2 .. Len(q)
      BY <1>1, <3>2
    <3> QED BY <3>1, <3>3
  <2>2. ASSUME NEW i \in 2 .. Len(q), NEW j \in Nat \ {0}, x = <<i, j>>, q[i].kind = "data",
               j <= q[i].n
        PROVE  x \in S
    <3>1. i \in 1 .. Len(q) /\ i # 1
      BY <1>1
    <3>2. x \in Bytes(q)
      BY <2>2, <3>1, BytesFinite
    <3>3. x \notin N
      BY <2>2, <3>1
    <3> QED BY <3>2, <3>3
  <2> QED BY <2>1, <2>2
<1>6. ASSUME NEW x \in T
      PROVE  \E i \in 1 .. (Len(q) - 1), j \in Nat \ {0} :
               x = <<i, j>> /\ q[i + 1].kind = "data" /\ j <= q[i + 1].n
  BY <1>1, <1>6, BytesFinite
<1>7. f \in Bijection(T, S)
  <2>1. ASSUME NEW x \in T
        PROVE  f[x] \in S /\ x = <<f[x][1] - 1, f[x][2]>>
    <3>1. PICK i \in 1 .. (Len(q) - 1), j \in Nat \ {0} :
            x = <<i, j>> /\ q[i + 1].kind = "data" /\ j <= q[i + 1].n
      BY <1>6
    <3>2. f[x] = <<i + 1, j>>
      BY <3>1
    <3>3. i + 1 \in 2 .. Len(q) /\ i = (i + 1) - 1
      BY <1>1
    <3> HIDE DEF S, f
    <3>4. f[x] \in S
      BY <1>5, <3>1, <3>2, <3>3
    <3> QED BY <3>1, <3>2, <3>3, <3>4
  <2>2. ASSUME NEW y \in S
        PROVE  \E x \in T : f[x] = y
    <3>1. PICK i \in 2 .. Len(q), j \in Nat \ {0} : y = <<i, j>> /\ q[i].kind = "data" /\ j <= q[i].n
      BY <1>5
    <3>2. i - 1 \in 1 .. Len(t) /\ t[i - 1] = q[i] /\ (i - 1) + 1 = i
      BY <1>1
    <3>3. <<i - 1, j>> \in T
      BY <1>1, <3>1, <3>2, BytesFinite
    <3>4. f[<<i - 1, j>>] = y
      BY <3>1, <3>2, <3>3
    <3> QED BY <3>3, <3>4
  <2> HIDE DEF S, T
  <2>3. f \in [T -> S]
    <3>1. \A x \in T : f[x] \in S
      BY <2>1
    <3> QED BY <3>1
  <2>4. \A x, y \in T : f[x] = f[y] => x = y
    <3> HIDE DEF f
    <3> SUFFICES ASSUME NEW x \in T, NEW y \in T, f[x] = f[y] PROVE x = y
      OBVIOUS
    <3>1. x = <<f[x][1] - 1, f[x][2]>> /\ y = <<f[y][1] - 1, f[y][2]>>
      BY <2>1
    <3> QED BY <3>1
  <2> HIDE DEF f
  <2> QED BY <2>2, <2>3, <2>4 DEF Bijection, Injection, Surjection, IsInjective
<1>8. IsFiniteSet(Bytes(q)) /\ IsFiniteSet(T) /\ DataBytes(q) = Cardinality(Bytes(q))
      /\ DataBytes(t) = Cardinality(T) /\ DataBytes(t) \in Nat
  BY <1>1, BytesFinite
<1> HIDE DEF N, T
<1>9. IsFiniteSet(S) /\ Cardinality(S) = Cardinality(T)
  <2>1. ExistsBijection(T, S)
    <3> HIDE DEF f
    <3> QED BY <1>7 DEF ExistsBijection
  <2> QED BY <1>8, <2>1, FS_Bijection
<1>10. S \cup N = Bytes(q) /\ S \cap N = {}
  BY <1>4
<1> HIDE DEF S, m
<1>11. Cardinality(S \cup N) = Cardinality(S) + Cardinality(N) - Cardinality(S \cap N)
  BY <1>3, <1>9, FS_Union
<1>12. Cardinality({}) = 0
  BY FS_EmptySet
<1>13. DataBytes(q) = DataBytes(t) + m - 0
  BY <1>3, <1>8, <1>9, <1>10, <1>11, <1>12
<1> QED BY <1>2, <1>8, <1>13 DEF t, m

-----------------------------------------------------------------------------
(* The bytes behind inflightAckBytes.                                      *)

\* What an operation that leaves the connection alive does to inflightAckBytes: it adds
\* to it no more than the data blocks it posts carry and the bytes it drops, and nothing
\* before activation.
Backs(w, v) ==
  v.conn.alive =>
    /\ w.conn.alive
    /\ v.conn.inflight - DataBytes(v.queue) - v.dropped
         <= w.conn.inflight - DataBytes(w.queue) - w.dropped
    /\ v.conn.state = "New" => w.conn.state = "New" /\ v.conn.inflight = w.conn.inflight

\* The numbers of a world.
LEMMA InflightParts ==
  ASSUME NEW w \in World
  PROVE  w.conn.inflight \in Nat /\ DataBytes(w.queue) \in Nat /\ w.dropped \in Nat
BY Parts, BytesFinite DEF Conn

\* Backs composes.
LEMMA BacksTrans ==
  ASSUME NEW u \in World, NEW v \in World, NEW w \in World, Backs(u, v), Backs(v, w)
  PROVE  Backs(u, w)
<1>1. /\ u.conn.inflight \in Nat /\ DataBytes(u.queue) \in Nat /\ u.dropped \in Nat
      /\ v.conn.inflight \in Nat /\ DataBytes(v.queue) \in Nat /\ v.dropped \in Nat
      /\ w.conn.inflight \in Nat /\ DataBytes(w.queue) \in Nat /\ w.dropped \in Nat
  BY InflightParts
<1> QED BY <1>1 DEF Backs

\* A change of the pcb, or of other fields of the connection, needs no bytes.
LEMMA SilentBacks ==
  ASSUME NEW w \in World, NEW v, v.queue = w.queue, v.dropped = w.dropped,
         v.conn.inflight = w.conn.inflight, v.conn.alive => w.conn.alive,
         v.conn.state = "New" => w.conn.state = "New"
  PROVE  Backs(w, v)
BY InflightParts DEF Backs

\* Nor does an operation that ends the connection.
LEMMA DeadBacks ==
  ASSUME NEW w, NEW v, ~v.conn.alive
  PROVE  Backs(w, v)
BY DEF Backs

\* Nor does posting a block.
LEMMA PostBacks ==
  ASSUME NEW w \in World, NEW u \in World, NEW kind \in BlockKinds, NEW n \in Nat,
         u.queue = w.queue, u.dropped = w.dropped, u.conn.inflight = w.conn.inflight,
         u.conn.alive => w.conn.alive,
         u.conn.state = "New" => w.conn.state = "New"
  PROVE  Backs(w, Post(u, kind, n))
<1> DEFINE b == [kind |-> kind, n |-> n]
           q == Append(u.queue, b)
           v == Post(u, kind, n)
<1>1. b \in Block /\ w.queue \in Seq(Block)
  BY Parts DEF Block
<1>2. v.conn = u.conn
  BY PostLemma
<1>3. (v.queue = u.queue \/ v.queue = q) /\ v.dropped = u.dropped
  BY DEF Post, World
<1>4. /\ w.conn.inflight \in Nat
      /\ DataBytes(w.queue) \in Nat
      /\ w.dropped \in Nat
      /\ BytesOf(b) \in Nat
  BY InflightParts DEF BytesOf
<1>5. DataBytes(q) = DataBytes(w.queue) + BytesOf(b)
  BY <1>1, BytesAppend
<1> HIDE DEF b, q, v
<1>6. DataBytes(w.queue) <= DataBytes(v.queue) /\ DataBytes(v.queue) \in Nat
  BY <1>3, <1>4, <1>5
<1>7. Backs(w, v)
  BY <1>2, <1>3, <1>4, <1>6 DEF Backs
<1> QED BY <1>7 DEF v

\* updateWritableLocked.
LEMMA WritableBacks ==
  ASSUME NEW w \in World, NEW x \in BOOLEAN
  PROVE  Backs(w, updateWritableLocked(w, x))
<1> DEFINE u == [w EXCEPT !.conn.writable = x]
           n == IF x THEN 1 ELSE 0
<1>1. /\ u \in World
      /\ u.queue = w.queue /\ u.dropped = w.dropped
      /\ u.conn.inflight = w.conn.inflight
      /\ u.conn.alive = w.conn.alive
      /\ u.conn.state = w.conn.state
  BY DEF World, Conn
<1>2. n \in Nat /\ "writable" \in BlockKinds
  BY DEF BlockKinds
<1>3. updateWritableLocked(w, x) = IF w.conn.writable = x THEN w ELSE Post(u, "writable", n)
  BY DEF updateWritableLocked
<1> HIDE DEF u, n
<1>4. Backs(w, Post(u, "writable", n)) /\ Backs(w, w)
  BY <1>1, <1>2, PostBacks, SilentBacks
<1> QED BY <1>3, <1>4

\* markActive.
LEMMA MarkActiveBacks ==
  ASSUME NEW w \in World
  PROVE  Backs(w, markActive(w))
<1> DEFINE p == tcp_backlog_accepted(w.pcb)
           u == [w EXCEPT !.conn.state = "Active", !.pcb = p]
           a == [u EXCEPT !.conn.didNotifyActive = TRUE]
<1>1. p \in Pcb
  BY Parts DEF tcp_backlog_accepted, Pcb
<1>2. markActive(w) \in {w, u, Post(a, "activated", 0)}
  BY DEF markActive, notifyActiveOnceLocked
<1> HIDE DEF p
<1>3. /\ u \in World
      /\ u.queue = w.queue /\ u.dropped = w.dropped
      /\ u.conn.inflight = w.conn.inflight
      /\ u.conn.alive = w.conn.alive
      /\ u.conn.state = "Active"
  BY <1>1 DEF World, Conn, ConnStates
<1> HIDE DEF u
<1>4. /\ a \in World
      /\ a.queue = w.queue /\ a.dropped = w.dropped
      /\ a.conn.inflight = w.conn.inflight
      /\ a.conn.alive = w.conn.alive
      /\ a.conn.state = "Active"
  BY <1>3 DEF World, Conn
<1> HIDE DEF a
<1>5. "activated" \in BlockKinds /\ 0 \in Nat
  BY DEF BlockKinds
<1>6. Backs(w, w) /\ Backs(w, u) /\ Backs(w, Post(a, "activated", 0))
  BY <1>3, <1>4, <1>5, SilentBacks, PostBacks
<1> QED BY <1>2, <1>6

\* setInboundDeliveryEnabled.
LEMMA SetInboundBacks ==
  ASSUME NEW w \in World, NEW x
  PROVE  Backs(w, setInboundDeliveryEnabled(w, x))
<1> DEFINE v == [w EXCEPT !.conn.recvEnabled = x]
<1>1. /\ v.queue = w.queue /\ v.dropped = w.dropped
      /\ v.conn.inflight = w.conn.inflight
      /\ v.conn.alive = w.conn.alive
      /\ v.conn.state = w.conn.state
  BY DEF World, Conn
<1>2. setInboundDeliveryEnabled(w, x) = v
  BY DEF setInboundDeliveryEnabled
<1> HIDE DEF v
<1> QED BY <1>1, <1>2, SilentBacks

\* A change of the pcb alone.
LEMMA PcbBacks ==
  ASSUME NEW w \in World, NEW p
  PROVE  Backs(w, [w EXCEPT !.pcb = p])
<1> DEFINE v == [w EXCEPT !.pcb = p]
<1>1. v.queue = w.queue /\ v.dropped = w.dropped /\ v.conn = w.conn
  BY DEF World
<1> HIDE DEF v
<1>2. Backs(w, v)
  BY <1>1, SilentBacks
<1> QED BY <1>2 DEF v

\* shutdownWrite.
LEMMA ShutdownWriteBacks ==
  ASSUME NEW w \in World, NEW nomem
  PROVE  Backs(w, shutdownWrite(w, nomem))
<1> DEFINE q == tcp_shutdown(w.pcb, nomem)
           v == [w EXCEPT !.conn.writeFIN = TRUE, !.pcb = q]
<1>1. shutdownWrite(w, nomem) \in {w, v}
  BY DEF shutdownWrite
<1> HIDE DEF q
<1>2. /\ v.queue = w.queue /\ v.dropped = w.dropped
      /\ v.conn.inflight = w.conn.inflight
      /\ v.conn.alive = w.conn.alive
      /\ v.conn.state = w.conn.state
  BY DEF World, Conn
<1> HIDE DEF v
<1>3. Backs(w, w) /\ Backs(w, v)
  BY <1>2, SilentBacks
<1> QED BY <1>1, <1>3

\* writeBytes.
LEMMA WriteBytesBacks ==
  ASSUME NEW w, NEW k \in Nat, NEW length \in Nat, NEW nomem \in BOOLEAN, WorldInv(w, k)
  PROVE  Backs(w, writeBytes(w, length, nomem))
<1> DEFINE q == tcp_write(w.pcb, length, nomem)
           t == [w EXCEPT !.pcb = q]
           e == tcp_write_err(w.pcb, length, nomem)
<1>1. w \in World /\ w.pcb \in Pcb
  BY Parts DEF WorldInv
<1>2. CASE ~w.conn.alive \/ ~w.conn.pcb \/ w.conn.state # "Active" \/ w.conn.writeFIN
  <2>1. writeBytes(w, length, nomem) = w
    BY <1>2 DEF writeBytes
  <2> QED BY <1>1, <2>1, SilentBacks
<1>3. CASE w.conn.alive /\ w.conn.pcb /\ w.conn.state = "Active" /\ ~w.conn.writeFIN
  <2>1. e \in {"ERR_CONN", "ERR_MEM", "ERR_OK"}
    BY DEF tcp_write_err
  <2>2. writeBytes(w, length, nomem) =
             CASE e = "ERR_OK"  -> updateWritableLocked(t, tf_tcp_write_ready(t.pcb))
               [] e = "ERR_MEM" -> updateWritableLocked(t, FALSE)
               [] OTHER         -> abortLocked(t, "Abort")
    BY <1>3 DEF writeBytes
  <2>3. q \in Pcb
    <3>1. CASE e = "ERR_OK"
      <4>1. q = [w.pcb EXCEPT !.snd_buf = w.pcb.snd_buf - length]
        BY <3>1 DEF tcp_write
      <4>2. length <= w.pcb.snd_buf
        BY <1>1, <3>1, LwipAssumption DEF tcp_write_err, Pcb
      <4>3. w.pcb.snd_buf - length \in 0 .. TCP_SND_BUF
        BY <1>1, <4>2, LwipAssumption DEF Pcb
      <4> HIDE DEF q
      <4> QED BY <1>1, <4>1, <4>3 DEF Pcb
    <3>2. CASE e # "ERR_OK"
      BY <1>1, <3>2 DEF tcp_write
    <3> QED BY <3>1, <3>2
  <2>4. e = "ERR_CONN" => q = w.pcb
    BY DEF tcp_write
  <2> HIDE DEF q
  <2>5. t \in World /\ Backs(w, t)
    BY <1>1, <2>3, PcbBacks DEF World
  <2>6. CASE e \in {"ERR_OK", "ERR_MEM"}
    <3>1. PICK x \in BOOLEAN : writeBytes(w, length, nomem) = updateWritableLocked(t, x)
      BY <2>2, <2>6, WriteReady
    <3> HIDE DEF t
    <3>2. Backs(t, updateWritableLocked(t, x)) /\ updateWritableLocked(t, x) \in World
      BY <2>5, WritableBacks, WritableFlow
    <3> QED BY <1>1, <2>5, <3>1, <3>2, BacksTrans
  <2>7. CASE e = "ERR_CONN"
    <3>1. writeBytes(w, length, nomem) = abortLocked(t, "Abort")
      BY <2>2, <2>7
    <3>2. t = w
      BY <1>1, <2>4, <2>7 DEF World
    <3>3. "Abort" \in Reasons
      BY DEF Reasons
    <3> QED BY <3>1, <3>2, <3>3, AbortFlow, DeadBacks
  <2> QED BY <2>1, <2>6, <2>7
<1> QED BY <1>2, <1>3

\* acknowledgeDeliveredBytes on an active connection takes the bytes from
\* inflightAckBytes, as many of them as it holds.
LEMMA AcknowledgeTakes ==
  ASSUME NEW w, NEW k \in Nat, NEW bytes \in Nat, WorldInv(w, k)
  PROVE  LET v == acknowledgeDeliveredBytes(w, bytes) IN
         /\ v.queue = w.queue /\ v.dropped = w.dropped
         /\ v.conn.alive = w.conn.alive
         /\ v.conn.state = w.conn.state
         /\ v.conn.inflight =
              IF ~w.conn.alive \/ w.conn.state # "Active" THEN w.conn.inflight
              ELSE IF bytes < w.conn.inflight THEN w.conn.inflight - bytes ELSE 0
<1> DEFINE v == acknowledgeDeliveredBytes(w, bytes)
           credit == IF bytes < w.conn.inflight THEN bytes ELSE w.conn.inflight
           q == tcp_recved(w.pcb, credit)
           rest == w.conn.inflight + (0 - credit)
           u == [w EXCEPT !.pcb = q]
           m == IF rest < 0 THEN 0 ELSE rest
           x == [u EXCEPT !.conn.inflight = m]
<1>1. w \in World /\ w.conn.inflight \in Nat /\ (w.conn.alive => w.conn.pcb)
  BY Parts DEF WorldInv, Conn, Live, Dead
<1>2. CASE ~w.conn.alive \/ w.conn.state # "Active" \/ bytes = 0
  <2>1. v = w
    BY <1>2 DEF acknowledgeDeliveredBytes
  <2>2. bytes = 0 => w.conn.inflight = IF bytes < w.conn.inflight THEN w.conn.inflight - bytes ELSE 0
    BY <1>1
  <2> QED BY <1>2, <2>1, <2>2
<1>3. CASE ~(~w.conn.alive \/ w.conn.state # "Active" \/ bytes = 0)
  <2>1. v = updateInflightAckBytes(u, 0 - credit)
    BY <1>1, <1>3 DEF acknowledgeDeliveredBytes
  <2>2. m = IF bytes < w.conn.inflight THEN w.conn.inflight - bytes ELSE 0
    BY <1>1
  <2>3. u.conn = w.conn /\ u.queue = w.queue /\ u.dropped = w.dropped
    BY <1>1 DEF World
  <2>4. v = x
    <3> HIDE DEF u, credit
    <3> QED BY <2>1, <2>3 DEF updateInflightAckBytes
  <2> HIDE DEF m, q
  <2>5. /\ x.queue = w.queue /\ x.dropped = w.dropped
        /\ x.conn.alive = w.conn.alive
        /\ x.conn.state = w.conn.state
        /\ x.conn.inflight = m
    BY <1>1 DEF World, Conn
  <2> HIDE DEF v, x
  <2> QED BY <1>3, <2>2, <2>4, <2>5 DEF v
<1> QED BY <1>2, <1>3

\* The recv callback: the bytes it counts are in the block it posts, acknowledged at
\* once, or dropped.
LEMMA EventRecvBacks ==
  ASSUME NEW w, NEW k \in Nat, NEW tot \in Nat, NEW nomem \in BOOLEAN, WorldInv(w, tot + k),
         TCP_EVENT_RECV_err(w) = "ERR_OK"
  PROVE  Backs(w, TCP_EVENT_RECV(w, tot, nomem))
<1>1. w \in World /\ w.conn.inflight \in Nat /\ DataBytes(w.queue) \in Nat /\ w.dropped \in Nat
  BY InflightParts DEF WorldInv
<1>2. CASE ~w.conn.alive
  <2> DEFINE x == [w EXCEPT !.pcb = tcp_recved(w.pcb, tot)]
  <2>1. TCP_EVENT_RECV(w, tot, nomem) \in {w, x}
    BY <1>2 DEF TCP_EVENT_RECV, tf_tcp_recv, tf_conn_from_arg
  <2>2. Backs(w, x) /\ Backs(w, w)
    BY <1>1, PcbBacks, SilentBacks
  <2> HIDE DEF x
  <2> QED BY <2>1, <2>2
<1>3. CASE w.conn.alive
  <2> DEFINE u == updateInflightAckBytes(w, tot)
             v == Deliver(u, tot, nomem)
  <2>1. tf_conn_from_arg(w) /\ w.pcb.callbacks
    BY <1>3, LiveFromArg
  <2>2. shouldAllowRecv(w)
    BY <2>1 DEF TCP_EVENT_RECV_err, tf_tcp_recv_err
  <2>3. w.conn.state = "Active"
    BY <2>2 DEF shouldAllowRecv
  <2>4. TCP_EVENT_RECV(w, tot, nomem) = v
    BY <2>1, <2>2 DEF TCP_EVENT_RECV, tf_tcp_recv
  <2>5. /\ WorldInv(u, k)
        /\ u \in World
        /\ u.conn.alive
        /\ u.conn.state = "Active"
        /\ u.conn.handlers = w.conn.handlers
    BY <1>3, <2>3, InflightInv DEF WorldInv
  <2>6. u.queue = w.queue /\ u.dropped = w.dropped
    BY <1>1, <2>5, InflightFlow
  <2>7. u.conn.inflight = w.conn.inflight + tot
    <3> DEFINE m == IF w.conn.inflight + tot < 0 THEN 0 ELSE w.conn.inflight + tot
    <3>1. m = w.conn.inflight + tot
      BY <1>1
    <3>2. u = [w EXCEPT !.conn.inflight = m]
      BY DEF updateInflightAckBytes
    <3> HIDE DEF m, u
    <3>3. u.conn.inflight = m
      BY <1>1, <3>2 DEF World, Conn
    <3> QED BY <3>1, <3>3
  <2>8. u.conn.handlers \in {"bytes", "copy", "noread"}
    BY <2>5, Parts DEF WorldInv, UnsetIsNew, Conn, Handlers
  <2> HIDE DEF u
  <2>9. CASE u.conn.handlers = "bytes" /\ ~nomem
    <3> DEFINE n == u.pbufs + 1
               b == [kind |-> "data", n |-> tot]
               y == [u EXCEPT !.pbufs = n]
    <3>1. v = [y EXCEPT !.queue = Append(y.queue, b)]
      <4>1. v = Post(y, "data", tot)
        BY <2>9 DEF Deliver
      <4>2. y.conn = u.conn
        BY <2>5 DEF World
      <4> QED BY <2>9, <4>1, <4>2 DEF Post
    <3>2. v.conn = u.conn /\ v.queue = Append(w.queue, b) /\ v.dropped = w.dropped
      BY <2>5, <2>6, <3>1 DEF World
    <3>3. b \in Block /\ BytesOf(b) = tot
      BY DEF Block, BlockKinds, BytesOf
    <3> HIDE DEF v, b
    <3>4. DataBytes(v.queue) = DataBytes(w.queue) + tot
      BY <1>1, <3>2, <3>3, Parts, BytesAppend
    <3>5. v.conn.inflight - DataBytes(v.queue) - v.dropped
            <= w.conn.inflight - DataBytes(w.queue) - w.dropped
      BY <1>1, <2>7, <3>2, <3>4
    <3>6. Backs(w, v)
      BY <1>3, <2>5, <3>2, <3>5 DEF Backs
    <3> QED BY <2>4, <3>6
  <2>10. CASE u.conn.handlers = "copy" /\ ~nomem
    <3> DEFINE c == acknowledgeDeliveredBytes(u, tot)
    <3>1. v = Post(c, "copied", tot)
      BY <2>10 DEF Deliver
    <3>2. /\ c \in World
          /\ c.queue = w.queue /\ c.dropped = w.dropped
          /\ c.conn.state = "Active"
          /\ c.conn.inflight = IF tot < u.conn.inflight THEN u.conn.inflight - tot ELSE 0
      BY <2>5, <2>6, AcknowledgeTakes, AcknowledgeInv, ZenonT(60) DEF WorldInv
    <3> HIDE DEF c, v
    <3>3. c.conn.inflight = w.conn.inflight
      BY <1>1, <2>7, <3>2
    <3>4. "copied" \in BlockKinds
      BY DEF BlockKinds
    <3>5. Backs(w, v)
      BY <1>1, <1>3, <3>1, <3>2, <3>3, <3>4, PostBacks
    <3> QED BY <2>4, <3>5
  <2>11. CASE u.conn.handlers = "noread" \/ nomem
    <3> DEFINE x == [u EXCEPT !.pcb = tcp_recved(u.pcb, tot)]
    <3>1. v \in {Dropped(u, tot), Dropped(x, tot)}
      BY <2>8, <2>11 DEF Deliver
    <3>2. x.conn = u.conn /\ x.queue = u.queue /\ x.dropped = u.dropped
      BY <2>5 DEF World
    <3>3. u.conn.handlers = "noread" => WorldInv(x, k)
      BY <2>5, RecvedInv
    <3>4. u.conn.handlers # "noread" => v = Dropped(u, tot)
      BY <2>8, <2>11 DEF Deliver
    <3> HIDE DEF v, x
    <3>5. v.conn = u.conn /\ v.queue = u.queue /\ v.dropped = u.dropped + tot
      BY <2>5, <3>1, <3>2, <3>3, <3>4, DroppedInv
    <3>6. v.conn.inflight - DataBytes(v.queue) - v.dropped
            <= w.conn.inflight - DataBytes(w.queue) - w.dropped
      BY <1>1, <2>6, <2>7, <3>5
    <3>7. Backs(w, v)
      BY <1>3, <2>5, <3>5, <3>6 DEF Backs
    <3> QED BY <2>4, <3>7
  <2> QED BY <2>8, <2>9, <2>10, <2>11
<1> QED BY <1>2, <1>3

\* The recv callback with p = NULL.
LEMMA EventClosedBacks ==
  ASSUME NEW w \in World
  PROVE  Backs(w, TCP_EVENT_CLOSED(w))
<1> DEFINE u == [w EXCEPT !.conn.readEOF = TRUE]
           v == Post(u, "eof", 0)
<1>1. TCP_EVENT_CLOSED(w) \in {w, v}
  BY DEF TCP_EVENT_CLOSED, tf_tcp_recv_fin, handlePeerFINLocked
<1>2. /\ u \in World
      /\ u.queue = w.queue /\ u.dropped = w.dropped
      /\ u.conn.inflight = w.conn.inflight
      /\ u.conn.alive = w.conn.alive
      /\ u.conn.state = w.conn.state
  BY DEF World, Conn
<1> HIDE DEF u
<1>3. "eof" \in BlockKinds /\ 0 \in Nat
  BY DEF BlockKinds
<1>4. Backs(w, w) /\ Backs(w, v)
  BY <1>2, <1>3, SilentBacks, PostBacks
<1> QED BY <1>1, <1>4

\* The sent callback.
LEMMA EventSentBacks ==
  ASSUME NEW w \in World, NEW len \in Nat
  PROVE  Backs(w, TCP_EVENT_SENT(w, len))
<1> DEFINE u == updateWritableLocked(w, tf_tcp_write_ready(w.pcb))
           v == Post(u, "sent", len)
<1>1. TCP_EVENT_SENT(w, len) \in {w, v}
  BY DEF TCP_EVENT_SENT, tf_tcp_sent
<1>2. u \in World /\ Backs(w, u)
  BY WriteReady, WritableFlow, WritableBacks
<1> HIDE DEF u
<1>3. "sent" \in BlockKinds
  BY DEF BlockKinds
<1>4. v \in World /\ Backs(u, v)
  BY <1>2, <1>3, PostLemma, PostBacks
<1> HIDE DEF v
<1>5. Backs(w, w) /\ Backs(w, v)
  BY <1>2, <1>4, SilentBacks, BacksTrans
<1> QED BY <1>1, <1>5

\* The poll callback.
LEMMA EventPollBacks ==
  ASSUME NEW w, NEW k \in Nat, NEW timeout, NEW nomem \in BOOLEAN, WorldInv(w, k)
  PROVE  Backs(w, TCP_EVENT_POLL(w, timeout, nomem))
<1> DEFINE u == updateWritableLocked(w, tf_tcp_write_ready(w.pcb))
           a == abortLocked(w, "Abort")
<1>1. w \in World
  BY DEF WorldInv
<1>2. Backs(w, w)
  BY <1>1, SilentBacks
<1>3. CASE ~w.conn.alive
  <2>1. TCP_EVENT_POLL(w, timeout, nomem) = w
    BY <1>3 DEF TCP_EVENT_POLL, tf_tcp_poll, tf_conn_from_arg
  <2> QED BY <1>2, <2>1
<1>4. CASE w.conn.alive
  <2>1. Backs(w, u)
    BY <1>1, WriteReady, WritableBacks
  <2>2. ~u.conn.pendingClose
    BY <1>4, WriteReady, UpdateWritable
  <2>3. Backs(w, a)
    <3>1. "Abort" \in Reasons
      BY DEF Reasons
    <3> QED BY <3>1, AbortFlow, DeadBacks
  <2>4. TCP_EVENT_POLL(w, timeout, nomem) \in {w, a, u}
    BY <2>2 DEF TCP_EVENT_POLL, tf_tcp_poll
  <2> HIDE DEF u, a
  <2> QED BY <1>2, <2>1, <2>3, <2>4
<1> QED BY <1>3, <1>4

\* A FIN is reported.
LEMMA ReportFinBacks ==
  ASSUME NEW w, WorldInv(w, 1)
  PROVE  Backs(w, ReportFin(w))
<1> DEFINE q == CreditFin(w.pcb)
           u == [w EXCEPT !.pcb = q]
           v == TCP_EVENT_CLOSED(u)
<1>1. w \in World /\ w.pcb \in Pcb
  BY Parts DEF WorldInv
<1>2. ReportFin(w) = v
  BY DEF ReportFin
<1>3. q \in Pcb
  <2> DEFINE r == IF w.pcb.rcv_wnd = TCP_WND THEN TCP_WND ELSE w.pcb.rcv_wnd + 1
  <2>1. q = [w.pcb EXCEPT !.rcv_wnd = r]
    BY DEF CreditFin
  <2>2. r \in 0 .. TCP_WND
    BY <1>1, LwipAssumption DEF Pcb
  <2> HIDE DEF r, q
  <2> QED BY <1>1, <2>1, <2>2 DEF Pcb
<1>4. v \in World
  BY <1>2, ReportFinInv DEF WorldInv
<1> HIDE DEF q
<1>5. u \in World /\ Backs(w, u)
  BY <1>1, <1>3, PcbBacks DEF World
<1> HIDE DEF u
<1>6. Backs(u, v)
  BY <1>5, EventClosedBacks
<1> HIDE DEF v
<1> QED BY <1>1, <1>2, <1>4, <1>5, <1>6, BacksTrans

\* Refused data that is taken.
LEMMA RefusedDataBacks ==
  ASSUME NEW w, WorldInv(w, 0), NEW nomem \in BOOLEAN
  PROVE  Backs(w, tcp_process_refused_data(w, nomem))
<1> DEFINE tot == w.pcb.refused
           fin == IF w.pcb.refusedFin THEN 1 ELSE 0
           o   == [w EXCEPT !.pcb.refused = 0, !.pcb.refusedFin = FALSE]
           t   == TCP_EVENT_RECV(o, tot, nomem)
           v   == tcp_process_refused_data(w, nomem)
<1>1. tot \in Nat /\ fin \in Nat /\ w \in World /\ w.pcb \in Pcb
  BY Parts, LwipAssumption DEF WorldInv, Pcb
<1>2. v = IF tot = 0 \/ TCP_EVENT_RECV_err(o) # "ERR_OK" THEN w
          ELSE IF w.pcb.refusedFin THEN ReportFin(t) ELSE t
  BY SMTT(30) DEF tcp_process_refused_data
<1>3. WorldInv(o, tot + fin) /\ o.conn = w.conn
  BY OfferedInv
<1>4. o.queue = w.queue /\ o.dropped = w.dropped
  BY <1>1 DEF World
<1>5. v \in World
  BY RefusedDataInv DEF WorldInv
<1> HIDE DEF o, v
<1>6. o \in World /\ Backs(w, o)
  BY <1>1, <1>3, <1>4, SilentBacks DEF WorldInv
<1>7. CASE tot = 0 \/ TCP_EVENT_RECV_err(o) # "ERR_OK"
  BY <1>1, <1>2, <1>7, SilentBacks DEF v
<1>8. CASE ~(tot = 0 \/ TCP_EVENT_RECV_err(o) # "ERR_OK")
  <2> HIDE DEF tot
  <2>1. WorldInv(t, fin) /\ t \in World /\ Backs(o, t)
    <3> HIDE DEF fin
    <3> QED BY <1>1, <1>3, <1>8, EventRecvInv, EventRecvBacks DEF WorldInv
  <2> HIDE DEF t
  <2>2. Backs(w, t)
    BY <1>1, <1>6, <2>1, BacksTrans
  <2>3. CASE w.pcb.refusedFin
    <3>1. v = ReportFin(t) /\ WorldInv(t, 1)
      BY <1>2, <1>8, <2>1, <2>3
    <3>2. Backs(t, v)
      BY <3>1, ReportFinBacks
    <3> QED BY <1>1, <1>5, <2>1, <2>2, <3>2, BacksTrans DEF v
  <2>4. CASE ~w.pcb.refusedFin
    BY <1>2, <1>8, <2>2, <2>4 DEF v
  <2> QED BY <2>3, <2>4
<1> QED BY <1>7, <1>8

\* Data of a segment is delivered or kept as refused data.
LEMMA DeliverDataBacks ==
  ASSUME NEW w, NEW k \in Nat, NEW data \in Nat, WorldInv(w, data + k), NEW nomem \in BOOLEAN
  PROVE  Backs(w, DeliverData(w, data, nomem))
<1> DEFINE q == [w.pcb EXCEPT !.refused = data]
           u == [w EXCEPT !.pcb = q]
<1>1. w \in World
  BY DEF WorldInv
<1>2. CASE data = 0
  BY <1>1, <1>2, SilentBacks DEF DeliverData
<1>3. CASE data # 0 /\ TCP_EVENT_RECV_err(w) = "ERR_OK"
  <2>1. DeliverData(w, data, nomem) = TCP_EVENT_RECV(w, data, nomem)
    BY <1>3 DEF DeliverData
  <2> QED BY <1>3, <2>1, EventRecvBacks
<1>4. CASE data # 0 /\ TCP_EVENT_RECV_err(w) # "ERR_OK"
  <2>1. DeliverData(w, data, nomem) = u
    BY <1>1, <1>4 DEF DeliverData, World
  <2>2. Backs(w, u)
    BY <1>1, PcbBacks
  <2> HIDE DEF u
  <2> QED BY <2>1, <2>2
<1> QED BY <1>2, <1>3, <1>4

\* A FIN is reported behind the data, or waits for it.
LEMMA DeliverFinBacks ==
  ASSUME NEW w, WorldInv(w, 1)
  PROVE  Backs(w, DeliverFin(w))
<1> DEFINE q == [w.pcb EXCEPT !.refusedFin = TRUE]
           u == [w EXCEPT !.pcb = q]
<1>1. w \in World
  BY DEF WorldInv
<1>2. DeliverFin(w) \in {u, ReportFin(w)}
  BY <1>1 DEF DeliverFin, World
<1>3. Backs(w, u) /\ Backs(w, ReportFin(w))
  BY <1>1, PcbBacks, ReportFinBacks
<1> HIDE DEF u
<1> QED BY <1>2, <1>3

\* The pcb whose last ACK arrived takes the connection with it.
LEMMA DelayedCloseEnds ==
  ASSUME NEW w, NEW k \in Nat, WorldInv(w, k)
  PROVE  ~tcp_input_delayed_close(w).conn.alive
<1> DEFINE t == IF w.pcb.rxclosed THEN w ELSE TCP_EVENT_ERR(w, w.pcb.callbacks, "ERR_CLSD")
           v == tcp_free([t EXCEPT !.pcb = tcp_pcb_purge(t.pcb)])
<1>1. WorldInv(t, k)
  BY EventErrInv
<1>2. tcp_input_delayed_close(w) = v
  BY DEF tcp_input_delayed_close
<1> HIDE DEF t
<1>3. ~v.conn.alive
  BY <1>1, FreeFlow
<1> QED BY <1>2, <1>3

\* The callbacks of one segment.
LEMMA InputCallbacksBacks ==
  ASSUME NEW w, NEW s \in Segment, NEW rcvd, NEW closed \in BOOLEAN,
         rcvd.data \in 0 .. TCP_WND, rcvd.data <= MaxRun, rcvd.fin \in BOOLEAN,
         WorldInv(w, rcvd.data + (IF rcvd.fin THEN 1 ELSE 0)),
         rcvd.data > 0 \/ rcvd.fin => w.pcb.refused = 0,
         NEW nomem \in BOOLEAN
  PROVE  Backs(w, InputCallbacks(w, s, rcvd, closed, nomem))
<1> DEFINE f == IF rcvd.fin THEN 1 ELSE 0
           k == rcvd.data + f
           a == IF s.acked > 0 THEN TCP_EVENT_SENT(w, s.acked) ELSE w
           d == DeliverData(a, rcvd.data, nomem)
           v == InputCallbacks(w, s, rcvd, closed, nomem)
<1>1. f \in Nat /\ k \in Nat /\ rcvd.data \in Nat /\ s.acked \in Nat
  BY LwipAssumption DEF Segment
<1>2. WorldInv(w, k) /\ w \in World
  BY DEF WorldInv
<1>3. v = IF closed THEN tcp_input_delayed_close(a)
          ELSE IF rcvd.data > 0 /\ a.pcb.rxclosed THEN tcp_abandon(a)
          ELSE IF rcvd.fin THEN DeliverFin(d) ELSE d
  BY DEF InputCallbacks
<1>4. v \in World
  BY <1>1, InputCallbacksInv DEF WorldInv
<1> HIDE DEF k, v
<1>5. WorldInv(a, k) /\ a \in World /\ a.conn.handlers = w.conn.handlers /\ a.pcb = w.pcb
  BY <1>1, <1>2, EventSentInv, StepRefl DEF WorldInv, Step
<1>6. Backs(w, a)
  BY <1>1, <1>2, EventSentBacks, SilentBacks
<1> HIDE DEF a
<1>7. SUFFICES Backs(a, v)
  BY <1>2, <1>4, <1>5, <1>6, BacksTrans DEF v
<1>8. CASE closed
  BY <1>1, <1>3, <1>5, <1>8, DelayedCloseEnds, DeadBacks
<1>9. CASE ~closed /\ rcvd.data > 0 /\ a.pcb.rxclosed
  BY <1>3, <1>5, <1>9, AbandonFlow, DeadBacks
<1>10. CASE ~closed /\ ~(rcvd.data > 0 /\ a.pcb.rxclosed)
  <2> DEFINE b == rcvd.data
  <2>1. /\ b \in 0 .. TCP_WND /\ b \in Nat /\ b <= MaxRun /\ f \in Nat /\ WorldInv(a, b + f)
        /\ b > 0 => a.pcb.refused = 0
    BY <1>1, <1>5 DEF k
  <2>2. f = IF rcvd.fin THEN 1 ELSE 0
    OBVIOUS
  <2> HIDE DEF f, b
  <2>3. LET x == DeliverData(a, b, nomem) IN Backs(a, x)
    BY <2>1, DeliverDataBacks
  <2>4. LET x == DeliverData(a, b, nomem) IN WorldInv(x, f)
    BY <1>1, <2>1, DeliverDataInv
  <2>5. Backs(a, d) /\ WorldInv(d, f) /\ d \in World
    BY <2>3, <2>4 DEF b, WorldInv
  <2> HIDE DEF d
  <2>6. CASE rcvd.fin
    <3>1. v = DeliverFin(d) /\ WorldInv(d, 1)
      BY <1>3, <1>10, <2>2, <2>5, <2>6
    <3>2. Backs(d, v)
      BY <3>1, DeliverFinBacks
    <3> QED BY <1>4, <1>5, <2>5, <3>2, BacksTrans
  <2>7. CASE ~rcvd.fin
    BY <1>3, <1>10, <2>5, <2>7
  <2> QED BY <2>6, <2>7
<1> QED BY <1>8, <1>9, <1>10

\* tcp_input.
LEMMA InputBacks ==
  ASSUME NEW w, NEW s \in Segment, WorldInv(w, 0), Acceptable(w.pcb, s),
         NEW nomem \in BOOLEAN
  PROVE  Backs(w, tcp_input(w, s, nomem))
<1> DEFINE t == tcp_process_refused_data(w, nomem)
           p == t.pcb
           q == tcp_process(p, s)
           u == [t EXCEPT !.pcb = q]
           r == Received(p, s)
           c == ClosedByAck(p, s)
           v == tcp_input(w, s, nomem)
<1>1. /\ WorldInv(t, 0)
      /\ Step(w, t)
      /\ t.pcb.state = w.pcb.state
      /\ t.pcb.snd_buf = w.pcb.snd_buf
      /\ w \in World
      /\ t \in World
     
  BY RefusedDataInv DEF WorldInv
<1>2. v = IF p.refused > 0 /\ (s.len > 0 \/ s.fin) THEN t ELSE InputCallbacks(u, s, r, c, nomem)
  BY DEF tcp_input
<1>3. v \in World
  BY <1>1, InputInv DEF WorldInv
<1>4. Backs(w, t)
  BY RefusedDataBacks
<1> HIDE DEF t, v
<1>5. CASE p.refused > 0 /\ (s.len > 0 \/ s.fin)
  BY <1>2, <1>4, <1>5 DEF v
<1>6. CASE ~(p.refused > 0 /\ (s.len > 0 \/ s.fin))
  <2>1. Acceptable(p, s) /\ c \in BOOLEAN
    BY <1>1 DEF Acceptable, ClosedByAck
  <2>2. /\ r.data \in 0 .. TCP_WND
        /\ r.data <= MaxRun
        /\ r.fin \in BOOLEAN
        /\ WorldInv(u, r.data + (IF r.fin THEN 1 ELSE 0))
        /\ r.data > 0 \/ r.fin => u.pcb.refused = 0
        /\ Step(t, u)
    BY <1>1, <1>6, <2>1, ProcessInv
  <2>3. u \in World /\ Backs(t, u)
    BY <1>1, <2>2, PcbBacks DEF WorldInv
  <2> HIDE DEF u, q, r, c
  <2>5. Backs(u, v)
    BY <1>2, <1>6, <2>1, <2>2, InputCallbacksBacks
  <2>6. Backs(w, u)
    BY <1>1, <1>4, <2>3, BacksTrans
  <2> QED BY <1>1, <1>3, <2>3, <2>5, <2>6, BacksTrans DEF v
<1> QED BY <1>5, <1>6

\* A RST ends the connection.
LEMMA InputRstEnds ==
  ASSUME NEW w, NEW nomem \in BOOLEAN, WorldInv(w, 0)
  PROVE  ~tcp_input_rst(w, nomem).conn.alive
<1> DEFINE t == tcp_process_refused_data(w, nomem)
           u == TCP_EVENT_ERR(t, t.pcb.callbacks, "ERR_RST")
           v == tcp_free([u EXCEPT !.pcb = tcp_pcb_purge(u.pcb)])
<1>1. WorldInv(t, 0)
  BY RefusedDataInv
<1>2. tcp_input_rst(w, nomem) = v
  BY DEF tcp_input_rst
<1> HIDE DEF t
<1>3. WorldInv(u, 0)
  BY <1>1, EventErrInv
<1> HIDE DEF u
<1>4. ~v.conn.alive
  BY <1>3, FreeFlow
<1> QED BY <1>2, <1>4

\* A pending FIN.
LEMMA ClosependBacks ==
  ASSUME NEW w \in World, NEW nofin
  PROVE  Backs(w, tcp_handle_closepend(w, nofin))
<1> DEFINE q == tcp_close_shutdown_fin([w.pcb EXCEPT !.closepend = FALSE], nofin)
           v == [w EXCEPT !.pcb = q]
<1>1. tcp_handle_closepend(w, nofin) \in {w, v}
  BY DEF tcp_handle_closepend
<1> HIDE DEF q
<1>2. Backs(w, w) /\ Backs(w, v)
  BY SilentBacks, PcbBacks
<1> HIDE DEF v
<1> QED BY <1>1, <1>2

\* tcp_fasttmr.
LEMMA FasttmrBacks ==
  ASSUME NEW w, NEW nofin, NEW nomem \in BOOLEAN, WorldInv(w, 0)
  PROVE  Backs(w, tcp_fasttmr(w, nofin, nomem))
<1> DEFINE z == tcp_handle_closepend(w, nofin)
           v == tcp_process_refused_data(z, nomem)
<1>1. WorldInv(z, 0) /\ Step(w, z) /\ w \in World /\ z \in World
  BY ClosependInv DEF WorldInv
<1>2. Backs(w, z)
  BY <1>1, ClosependBacks
<1>3. tcp_fasttmr(w, nofin, nomem) = v
  BY DEF tcp_fasttmr
<1> HIDE DEF z
<1>4. Backs(z, v) /\ v \in World
  BY <1>1, RefusedDataBacks, RefusedDataInv DEF WorldInv
<1> HIDE DEF v
<1> QED BY <1>1, <1>2, <1>3, <1>4, BacksTrans

\* A pcb shortage.
LEMMA AllocShortageBacks ==
  ASSUME NEW w, NEW nofin, NEW killed, WorldInv(w, 0)
  PROVE  Backs(w, tcp_alloc_shortage(w, nofin, killed))
<1> DEFINE z == tcp_handle_closepend(w, nofin)
           v == tcp_abandon(z)
<1>1. WorldInv(z, 0) /\ w \in World
  BY ClosependInv DEF WorldInv
<1>2. Backs(w, z)
  BY <1>1, ClosependBacks
<1>3. tcp_alloc_shortage(w, nofin, killed) \in {v, z}
  BY DEF tcp_alloc_shortage
<1> HIDE DEF z
<1>4. Backs(w, v)
  BY <1>1, AbandonFlow, DeadBacks
<1> HIDE DEF v
<1> QED BY <1>2, <1>3, <1>4

-----------------------------------------------------------------------------
(* InflightBacked in the behaviours of TunForgeTCP.                        *)

\* InflightBacked needs, to be inductive, that nothing is in flight before activation,
\* where acknowledgeDeliveredBytes is ignored.
Backed ==
  /\ InflightBacked
  /\ conn.alive /\ conn.state = "New" => conn.inflight = 0

\* The bytes on their way to the upper layer or with it, and the dropped ones.
Held == DataBytes(connectionsQueue) + BytesOf(running) + user.unacked + dropped

\* The terms of Held are numbers.
LEMMA HeldType ==
  ASSUME NEW c \in Conn, NEW q \in Seq(Block), NEW b \in Block \cup {NoBlock}, NEW u \in User
  PROVE  /\ c.inflight \in Nat
         /\ DataBytes(q) \in Nat
         /\ BytesOf(b) \in Nat
         /\ u.unacked \in Nat
<1>1. b \in Block => b.n \in Nat
  BY DEF Block
<1>2. b = NoBlock => b.kind # "data"
  BY DEF NoBlock
<1>3. BytesOf(b) \in Nat
  BY <1>1, <1>2 DEF BytesOf
<1> QED BY <1>3, BytesFinite DEF Conn, User

\* InflightBacked in terms of Held.
LEMMA BackedByHeld ==
  /\ InflightBacked <=> (conn.alive => conn.inflight <= Held)
  /\ InflightBacked' <=> (conn'.alive => conn'.inflight <= Held')
  /\ Held' = DataBytes(connectionsQueue') + BytesOf(running') + user'.unacked + dropped'
<1>1. /\ DataBytes(connectionsQueue)' = DataBytes(connectionsQueue')
      /\ BytesOf(running)' = BytesOf(running')
  BY DEF DataBytes, BytesOf
<1>2. Held' = DataBytes(connectionsQueue') + BytesOf(running') + user'.unacked + dropped'
  BY <1>1 DEF Held
<1>3. /\ BytesOf(running) = IF running.kind = "data" THEN running.n ELSE 0
      /\ BytesOf(running') = IF running'.kind = "data" THEN running'.n ELSE 0
  BY DEF BytesOf
<1> QED BY <1>1, <1>2, <1>3 DEF InflightBacked, Held

\* A step that leaves no fewer bytes held and adds nothing to inflightAckBytes.
LEMMA BackedFrame ==
  ASSUME TypeOK, TypeOK', Backed,
         conn'.alive => conn.alive,
         conn'.alive => conn'.inflight = conn.inflight,
         conn'.state = "New" => conn.state = "New",
         conn'.alive => Held <= Held'
  PROVE  Backed'
<1>1. conn.inflight \in Nat /\ Held \in Nat
  BY HeldType, SMTT(30) DEF Held, TypeOK
<1>2. Held' \in Nat
  <2>1. /\ DataBytes(connectionsQueue') \in Nat
        /\ BytesOf(running') \in Nat
        /\ user'.unacked \in Nat
        /\ dropped' \in Nat
    BY HeldType DEF TypeOK
  <2> QED BY <2>1, BackedByHeld
<1>3. conn'.alive => conn'.inflight <= Held'
  <2>1. conn.alive => conn.inflight <= Held
    BY BackedByHeld DEF Backed
  <2> QED BY <1>1, <1>2, <2>1
<1>4. InflightBacked'
  BY <1>3, BackedByHeld
<1> QED BY <1>4 DEF Backed

\* A step of the packets queue that Backs describes, the upper layer unchanged.
LEMMA PacketsBacked ==
  ASSUME IInv, TypeOK', Backed, NEW v, WorldInv(v, 0), Step(Now, v), Backs(Now, v), Becomes(v),
         UNCHANGED <<running, user>>
  PROVE  Backed'
<1>1. /\ v \in World
      /\ v.conn = conn'
      /\ v.queue = connectionsQueue'
      /\ v.dropped = dropped'
  BY DEF WorldInv, Becomes
<1>2. /\ conn.inflight \in Nat
      /\ DataBytes(connectionsQueue) \in Nat
      /\ BytesOf(running) \in Nat
      /\ user.unacked \in Nat
      /\ dropped \in Nat
  BY HeldType DEF IInv, TypeOK
<1>3. v.conn.inflight \in Nat /\ DataBytes(v.queue) \in Nat /\ v.dropped \in Nat
  BY <1>1, InflightParts
<1>4. Held' = DataBytes(v.queue) + BytesOf(running) + user.unacked + v.dropped
  BY <1>1, BackedByHeld
<1>5. conn'.alive =>
        /\ conn.alive
        /\ v.conn.inflight - DataBytes(v.queue) - v.dropped
             <= conn.inflight - DataBytes(connectionsQueue) - dropped
        /\ conn'.state = "New" => conn.state = "New" /\ conn'.inflight = conn.inflight
  BY <1>1, NowType DEF Backs
<1>6. ASSUME conn'.alive
       PROVE  conn'.inflight <= Held'
  <2>1. conn.inflight <= DataBytes(connectionsQueue) + BytesOf(running) + user.unacked + dropped
    BY <1>5, <1>6, BackedByHeld DEF Backed, Held
  <2> QED BY <1>1, <1>2, <1>3, <1>4, <1>5, <1>6, <2>1
<1>7. InflightBacked'
  BY <1>6, BackedByHeld
<1> QED BY <1>5, <1>7 DEF Backed

\* acknowledgeDeliveredBytes takes from inflightAckBytes what the upper layer no longer
\* owes.
LEMMA AcknowledgeBacked ==
  ASSUME IInv, TypeOK', Backed, NEW bytes \in AckSizes, AcknowledgeDeliveredBytes(bytes)
  PROVE  Backed'
<1> DEFINE v == acknowledgeDeliveredBytes(Now, bytes)
           m == IF user.unacked < bytes THEN 0 ELSE user.unacked - bytes
<1>1. bytes \in Nat /\ 0 \in Nat
  BY SystemAssumption
<1>2. WorldInv(Now, 0) /\ TypeOK
  BY DEF IInv
<1>3. /\ conn.inflight \in Nat
      /\ DataBytes(connectionsQueue) \in Nat
      /\ BytesOf(running) \in Nat
      /\ user.unacked \in Nat
      /\ dropped \in Nat
  BY <1>2, HeldType DEF TypeOK
<1>4. /\ v.queue = connectionsQueue /\ v.dropped = dropped
      /\ v.conn.alive = conn.alive
      /\ v.conn.state = conn.state
      /\ v.conn.inflight =
           IF ~conn.alive \/ conn.state # "Active" THEN conn.inflight
           ELSE IF bytes < conn.inflight THEN conn.inflight - bytes ELSE 0
  BY <1>1, <1>2, AcknowledgeTakes, NowType
<1>6. /\ conn' = v.conn
      /\ connectionsQueue' = v.queue
      /\ dropped' = v.dropped
      /\ running' = running
      /\ user' = [user EXCEPT !.unacked = m]
  BY DEF AcknowledgeDeliveredBytes, Becomes
<1> HIDE DEF v, m
<1>7. user'.unacked = m
  BY <1>2, <1>6 DEF TypeOK, User
<1>9. ASSUME conn'.alive
      PROVE  conn'.inflight <= Held'
  <2>1. conn.inflight <= DataBytes(connectionsQueue) + BytesOf(running) + user.unacked + dropped
    BY <1>4, <1>6, <1>9, BackedByHeld DEF Backed, Held
  <2>2. Held' = DataBytes(connectionsQueue) + BytesOf(running) + m + dropped
    BY <1>4, <1>6, <1>7, BackedByHeld
  <2>3. CASE conn.state = "Active"
    <3>1. conn'.inflight = IF bytes < conn.inflight THEN conn.inflight - bytes ELSE 0
      BY <1>4, <1>6, <1>9, <2>3
    <3> QED BY <1>1, <1>3, <2>1, <2>2, <3>1 DEF m
  <2>4. CASE conn.state # "Active"
    <3>1. conn.state = "New" /\ conn.alive
      BY <1>2, <1>4, <1>6, <1>9, <2>4, NowType DEF WorldInv, Live, Dead
    <3>2. conn'.inflight = 0
      BY <1>4, <1>6, <2>4, <3>1 DEF Backed
    <3> QED BY <1>1, <1>3, <2>2, <3>2 DEF m
  <2> QED BY <2>3, <2>4
<1>10. InflightBacked'
  BY <1>9, BackedByHeld
<1>11. conn'.alive /\ conn'.state = "New" => conn'.inflight = 0
  BY <1>4, <1>6 DEF Backed
<1> QED BY <1>10, <1>11 DEF Backed

\* The oldest block leaves the queue, for the callback that is made next.
LEMMA TakeBacked ==
  ASSUME IInv, TypeOK', Backed, TakeBlock
  PROVE  Backed'
<1> DEFINE b == Head(connectionsQueue)
<1>1. TypeOK /\ (conn.alive => conn.exists)
  BY NowType DEF IInv, WorldInv, Live, Dead
<1>2. /\ connectionsQueue \in Seq(Block)
      /\ connectionsQueue # <<>>
      /\ connectionsQueue' = Tail(connectionsQueue)
      /\ conn' = conn
      /\ dropped' = dropped
      /\ running = NoBlock
      /\ conn.alive => running' = b /\ user' = user
  BY <1>1 DEF TakeBlock, PassesCheck, TypeOK
<1>3. DataBytes(connectionsQueue) = DataBytes(Tail(connectionsQueue)) + BytesOf(b)
  BY <1>2, BytesTail
<1>4. BytesOf(running) = 0
  BY <1>2 DEF BytesOf, NoBlock
<1> HIDE DEF b
<1>5. ASSUME conn'.alive
      PROVE  Held <= Held'
  <2>1. running' = b /\ user' = user
    BY <1>2, <1>5
  <2>2. Held' = DataBytes(Tail(connectionsQueue)) + BytesOf(b) + user.unacked + dropped
    BY <1>2, <2>1, BackedByHeld
  <2>3. Held = DataBytes(connectionsQueue) + 0 + user.unacked + dropped
    BY <1>4 DEF Held
  <2>4. DataBytes(connectionsQueue) \in Nat /\ user.unacked \in Nat /\ dropped \in Nat
    BY <1>1, HeldType DEF TypeOK
  <2> QED BY <1>3, <2>2, <2>3, <2>4
<1> QED BY <1>1, <1>2, <1>5, BackedFrame DEF Backed

\* The upper layer owes an acknowledgement for the bytes it is given.
LEMMA CallBacked ==
  ASSUME IInv, TypeOK', Backed, CallBlock
  PROVE  Backed'
<1> DEFINE n == user.unacked + running.n
           r == user.releases + 1
<1>1. TypeOK /\ user \in User
  BY DEF IInv, TypeOK
<1>2. /\ conn' = conn /\ connectionsQueue' = connectionsQueue /\ dropped' = dropped
      /\ running' = NoBlock
  BY DEF CallBlock, world
<1>3. BytesOf(running') = 0
  BY <1>2 DEF BytesOf, NoBlock
<1>4. user'.unacked = user.unacked + BytesOf(running)
  <2>1. user.unacked \in Nat
    BY <1>1 DEF User
  <2>2. CASE running.kind = "data"
    <3>1. user' = [user EXCEPT !.unacked = n, !.releases = r]
      BY <2>2 DEF CallBlock
    <3> HIDE DEF n, r
    <3>2. user'.unacked = n
      BY <1>1, <3>1 DEF User
    <3> QED BY <2>2, <3>2 DEF n, BytesOf
  <2>3. CASE running.kind # "data"
    <3>1. user' \in {user, [user EXCEPT !.activated = TRUE], [user EXCEPT !.eof = TRUE],
                     [user EXCEPT !.terminated = TRUE]}
      BY <2>3 DEF CallBlock
    <3>2. user'.unacked = user.unacked
      BY <1>1, <3>1 DEF User
    <3> QED BY <2>1, <2>3, <3>2 DEF BytesOf
  <2> QED BY <2>2, <2>3
<1>5. Held <= Held'
  <2>1. /\ DataBytes(connectionsQueue) \in Nat
        /\ BytesOf(running) \in Nat
        /\ user.unacked \in Nat
        /\ dropped \in Nat
    BY <1>1, HeldType DEF TypeOK
  <2>2. Held' = DataBytes(connectionsQueue) + 0 + (user.unacked + BytesOf(running)) + dropped
    BY <1>2, <1>3, <1>4, BackedByHeld
  <2> QED BY <2>1, <2>2 DEF Held
<1> QED BY <1>1, <1>2, <1>5, BackedFrame DEF Backed

\* The accept block carries no bytes.
LEMMA AcceptBacked ==
  ASSUME IInv, TypeOK', Backed, NEW mode \in ReadModes, RunAccept(mode)
  PROVE  Backed'
<1>1. TypeOK /\ conn \in Conn /\ user \in User /\ connectionsQueue \in Seq(Block)
  BY DEF IInv, TypeOK
<1>2. /\ connectionsQueue # <<>>
      /\ Head(connectionsQueue).kind = "accept"
      /\ connectionsQueue' = Tail(connectionsQueue)
      /\ running' = running
      /\ dropped' = dropped
      /\ user' = [user EXCEPT !.holds = TRUE]
      /\ conn' = [conn EXCEPT !.handlers = mode]
  BY DEF RunAccept
<1>3. /\ conn'.alive = conn.alive
      /\ conn'.inflight = conn.inflight
      /\ conn'.state = conn.state
      /\ user'.unacked = user.unacked
  BY <1>1, <1>2 DEF Conn, User
<1>4. DataBytes(connectionsQueue) = DataBytes(connectionsQueue') + 0
  BY <1>1, <1>2, BytesTail DEF BytesOf
<1>5. Held <= Held'
  <2>1. /\ DataBytes(connectionsQueue') \in Nat
        /\ BytesOf(running) \in Nat
        /\ user.unacked \in Nat
        /\ dropped \in Nat
    BY <1>1, HeldType DEF TypeOK
  <2>2. Held' = DataBytes(connectionsQueue') + BytesOf(running) + user.unacked + dropped
    BY <1>2, <1>3, BackedByHeld
  <2> QED BY <1>4, <2>1, <2>2 DEF Held
<1> QED BY <1>1, <1>3, <1>5, BackedFrame

\* The steps that touch neither the queue nor inflightAckBytes.
LEMMA QuietBacked ==
  ASSUME IInv, TypeOK', Backed, ReleaseBuffer \/ DropConnection \/ NewStateTimeout \/ UNCHANGED vars
  PROVE  Backed'
<1>1. TypeOK /\ conn \in Conn /\ user \in User
  BY DEF IInv, TypeOK
<1>2. CASE DropConnection
  <2>1. ~conn.alive /\ conn' = [conn EXCEPT !.exists = FALSE]
    BY <1>2 DEF DropConnection
  <2>2. ~conn'.alive /\ conn'.state = conn.state /\ conn'.handlers = conn.handlers
    BY <1>1, <2>1 DEF Conn
  <2> QED BY <1>1, <2>2, BackedFrame DEF Backed
<1>3. CASE ~DropConnection
  <2>1. /\ conn' = conn /\ connectionsQueue' = connectionsQueue /\ running' = running
        /\ dropped' = dropped
    BY <1>3 DEF ReleaseBuffer, NewStateTimeout, world, vars
  <2>2. user'.unacked = user.unacked
    <3> DEFINE r == user.releases - 1
    <3>1. user' = user \/ user' = [user EXCEPT !.releases = r]
      BY <1>3 DEF ReleaseBuffer, NewStateTimeout, vars
    <3> HIDE DEF r
    <3> QED BY <1>1, <3>1 DEF User
  <2>3. Held' = Held /\ Held \in Nat
    <3>1. Held \in Nat
      BY <1>1, HeldType, SMTT(30) DEF Held, TypeOK
    <3> QED BY <2>1, <2>2, <3>1, BackedByHeld DEF Held
  <2>4. Held <= Held'
    BY <2>3
  <2> QED BY <1>1, <2>1, <2>4, BackedFrame DEF Backed
<1> QED BY <1>2, <1>3

\* The calls of the upper layer that run one operation.
LEMMA UserCallBacked ==
  ASSUME IInv, TypeOK', Backed, UserCall
  PROVE  Backed'
<1>1. WorldInv(Now, 0) /\ 0 \in Nat /\ Now \in World /\ user \in User
  BY DEF IInv, WorldInv, TypeOK
<1>2. CASE MarkActive
  <2> DEFINE v == markActive(Now)
  <2>1. Now.conn.handlers # "unset"
    BY <1>2, NowType DEF MarkActive, IInv, LastCall
  <2>2. WorldInv(v, 0) /\ Step(Now, v) /\ Backs(Now, v)
    BY <1>1, <2>1, MarkActiveInv, MarkActiveBacks
  <2>3. Becomes(v) /\ UNCHANGED <<running, user>>
    BY <1>2 DEF MarkActive
  <2> HIDE DEF v
  <2> QED BY <2>2, <2>3, PacketsBacked
<1>3. ASSUME NEW enabled \in BOOLEAN, SetInboundDeliveryEnabled(enabled)
      PROVE  Backed'
  <2> DEFINE v == setInboundDeliveryEnabled(Now, enabled)
  <2>1. WorldInv(v, 0) /\ Step(Now, v) /\ Backs(Now, v)
    BY <1>1, SetInboundInv, SetInboundBacks
  <2>2. Becomes(v) /\ UNCHANGED <<running, user>>
    BY <1>3 DEF SetInboundDeliveryEnabled
  <2> HIDE DEF v
  <2> QED BY <2>1, <2>2, PacketsBacked
<1>4. ASSUME NEW length \in WriteSizes, NEW nomem \in MayRunOut, WriteBytes(length, nomem)
      PROVE  Backed'
  <2> DEFINE v == writeBytes(Now, length, nomem)
  <2>1. length \in Nat /\ nomem \in BOOLEAN
    BY SystemAssumption
  <2>2. WorldInv(v, 0) /\ Step(Now, v) /\ Backs(Now, v)
    BY <1>1, <2>1, WriteBytesInv, WriteBytesBacks
  <2>3. Becomes(v) /\ UNCHANGED <<running, user>>
    BY <1>4 DEF WriteBytes
  <2> HIDE DEF v
  <2> QED BY <2>2, <2>3, PacketsBacked
<1>5. ASSUME NEW nomem \in MayRunOut, ShutdownWrite(nomem)
      PROVE  Backed'
  <2> DEFINE v == shutdownWrite(Now, nomem)
  <2>1. WorldInv(v, 0) /\ Step(Now, v) /\ Backs(Now, v)
    BY <1>1, ShutdownWriteInv, ShutdownWriteBacks
  <2>2. Becomes(v) /\ UNCHANGED <<running, user>>
    BY <1>5 DEF ShutdownWrite
  <2> HIDE DEF v
  <2> QED BY <2>1, <2>2, PacketsBacked
<1>6. ASSUME NEW nomem \in MayRunOut, GracefulClose(nomem)
      PROVE  Backed'
  <2> DEFINE v == gracefulClose(Now, nomem)
  <2>1. nomem \in BOOLEAN
    BY SystemAssumption
  <2>2. WorldInv(v, 0) /\ Step(Now, v) /\ Backs(Now, v)
    BY <1>1, <2>1, GracefulCloseInv, GracefulCloseFlow, DeadBacks
  <2>3. Becomes(v) /\ UNCHANGED <<running, user>>
    BY <1>6 DEF GracefulClose
  <2> HIDE DEF v
  <2> QED BY <2>2, <2>3, PacketsBacked
<1>7. CASE Abort
  <2> DEFINE v == abortLocked(Now, "Abort")
  <2>1. "Abort" \in Reasons
    BY DEF Reasons
  <2>2. WorldInv(v, 0) /\ Step(Now, v) /\ Backs(Now, v)
    BY <1>1, <2>1, AbortInv, AbortFlow, DeadBacks
  <2>3. Becomes(v) /\ UNCHANGED <<running, user>>
    BY <1>7 DEF Abort, abort
  <2> HIDE DEF v
  <2> QED BY <2>2, <2>3, PacketsBacked
<1> QED
  BY <1>2, <1>3, <1>4, <1>5, <1>6, <1>7, AcknowledgeBacked, QuietBacked DEF UserCall

\* lwIP's input and timers.
LEMMA LwipBacked ==
  ASSUME IInv, TypeOK', Backed, Network \/ Timers
  PROVE  Backed'
<1>1. /\ WorldInv(Now, 0)
      /\ 0 \in Nat
      /\ Now \in World
      /\ MayRunOut \subseteq BOOLEAN
  BY SystemAssumption DEF IInv, WorldInv
<1>2. ASSUME NEW s \in Segment, NEW nomem \in MayRunOut, TcpInput(s, nomem)
      PROVE  Backed'
  <2> DEFINE v == tcp_input(Now, s, nomem)
  <2>1. Acceptable(Now.pcb, s)
    BY <1>2, NowType DEF TcpInput
  <2>2. WorldInv(v, 0) /\ Step(Now, v) /\ Backs(Now, v)
    BY <1>1, <2>1, InputInv, InputBacks
  <2>3. Becomes(v) /\ UNCHANGED <<running, user>>
    BY <1>2 DEF TcpInput
  <2> HIDE DEF v
  <2> QED BY <2>2, <2>3, PacketsBacked
<1>3. ASSUME NEW nomem \in MayRunOut, TcpInputRst(nomem)
      PROVE  Backed'
  <2> DEFINE v == tcp_input_rst(Now, nomem)
  <2>1. WorldInv(v, 0) /\ Step(Now, v) /\ Backs(Now, v)
    BY <1>1, InputRstInv, InputRstEnds, DeadBacks
  <2>2. Becomes(v) /\ UNCHANGED <<running, user>>
    BY <1>3 DEF TcpInputRst
  <2> HIDE DEF v
  <2> QED BY <2>1, <2>2, PacketsBacked
<1>4. ASSUME NEW nofin \in MayRunOut, NEW killed \in BOOLEAN, TcpAllocShortage(nofin, killed)
      PROVE  Backed'
  <2> DEFINE v == tcp_alloc_shortage(Now, nofin, killed)
  <2>1. WorldInv(v, 0) /\ Step(Now, v) /\ Backs(Now, v)
    BY <1>1, AllocShortageInv, AllocShortageBacks
  <2>2. Becomes(v) /\ UNCHANGED <<running, user>>
    BY <1>4 DEF TcpAllocShortage
  <2> HIDE DEF v
  <2> QED BY <2>1, <2>2, PacketsBacked
<1>5. ASSUME NEW nofin \in MayRunOut, NEW nomem \in MayRunOut, TcpFasttmr(nofin, nomem)
      PROVE  Backed'
  <2> DEFINE v == tcp_fasttmr(Now, nofin, nomem)
  <2>1. WorldInv(v, 0) /\ Step(Now, v) /\ Backs(Now, v)
    BY <1>1, FasttmrInv, FasttmrBacks
  <2>2. Becomes(v) /\ UNCHANGED <<running, user>>
    BY <1>5 DEF TcpFasttmr
  <2> HIDE DEF v
  <2> QED BY <2>1, <2>2, PacketsBacked
<1>6. ASSUME NEW nomem \in MayRunOut, TcpSlowtmrPoll(nomem)
      PROVE  Backed'
  <2> DEFINE v == TCP_EVENT_POLL(Now, timedOut, nomem)
  <2>1. WorldInv(v, 0) /\ Step(Now, v) /\ Backs(Now, v)
    BY <1>1, EventPollInv, EventPollBacks
  <2>2. Becomes(v) /\ UNCHANGED <<running, user>>
    BY <1>6 DEF TcpSlowtmrPoll, tcp_slowtmr_poll
  <2> HIDE DEF v
  <2> QED BY <2>1, <2>2, PacketsBacked
<1>7. CASE TcpSlowtmrRemove
  <2> DEFINE v == tcp_slowtmr_remove(Now)
  <2>1. WorldInv(v, 0) /\ Step(Now, v)
    BY <1>1, SlowtmrRemoveInv
  <2>2. Backs(Now, v)
    BY <1>1, FreeErrFlow, DeadBacks DEF tcp_slowtmr_remove
  <2>3. Becomes(v) /\ UNCHANGED <<running, user>>
    BY <1>7 DEF TcpSlowtmrRemove
  <2> HIDE DEF v
  <2> QED BY <2>1, <2>2, <2>3, PacketsBacked
<1>8. CASE TcpSlowtmrTimeWait
  <2> DEFINE v == tcp_slowtmr_timewait(Now)
  <2>1. WorldInv(v, 0) /\ Step(Now, v) /\ Backs(Now, v)
    BY <1>1, FreeInv, FreeFlow, DeadBacks DEF tcp_slowtmr_timewait
  <2>2. Becomes(v) /\ UNCHANGED <<running, user>>
    BY <1>8 DEF TcpSlowtmrTimeWait
  <2> HIDE DEF v
  <2> QED BY <2>1, <2>2, PacketsBacked
<1> QED
  BY <1>2, <1>3, <1>4, <1>5, <1>6, <1>7, <1>8, QuietBacked DEF Network, Timers

\* Whatever is counted in inflightAckBytes is in a queued or running block or with the
\* upper layer, who can still have it acknowledged, or was dropped by tf_tcp_recv itself:
\* for every read handler and whichever allocations fail, no other order of blocks,
\* acknowledgements, retries and timers takes a part of the window out of every hand.
THEOREM InflightIsBacked == Spec => []InflightBacked
<1>1. Init => Backed
  <2> SUFFICES ASSUME Init PROVE Backed
    OBVIOUS
  <2>1. conn.inflight = 0
    BY DEF Init, initWithTCPPcb
  <2>2. TypeOK
    BY InitInv DEF IInv
  <2>3. Held \in Nat
    BY <2>2, HeldType DEF Held, TypeOK
  <2> QED BY <2>1, <2>3, BackedByHeld DEF Backed
<1>2. IInv /\ TypeOK' /\ Backed /\ [Next]_vars => Backed'
  <2> SUFFICES ASSUME IInv, TypeOK', Backed, [Next]_vars PROVE Backed'
    OBVIOUS
  <2>1. CASE UserCall
    BY <2>1, UserCallBacked
  <2>2. CASE Network \/ Timers
    BY <2>2, LwipBacked
  <2>3. CASE Callbacks
    <3>1. ASSUME NEW mode \in ReadModes, RunAccept(mode)
          PROVE  Backed'
      BY <3>1, AcceptBacked
    <3> QED BY <2>3, <3>1, TakeBacked, CallBacked, QuietBacked DEF Callbacks
  <2>4. CASE UNCHANGED vars
    BY <2>4, QuietBacked
  <2> QED BY <2>1, <2>2, <2>3, <2>4 DEF Next
<1>3. Backed => InflightBacked
  BY DEF Backed
<1>4. IInv => TypeOK
  BY DEF IInv
<1> QED BY <1>1, <1>2, <1>3, <1>4, Invariance, PTL DEF Spec
=============================================================================
