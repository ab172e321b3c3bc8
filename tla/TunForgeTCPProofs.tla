-------------------------- MODULE TunForgeTCPProofs --------------------------
(***************************************************************************)
(* The safety theorems of TunForgeTCP.  IInv is inductive: InitInv, one    *)
(* lemma per group of actions, and StutterInv.  The steps of the packets   *)
(* queue follow from ConnectionProofs through BecomesInv; the steps of the *)
(* connections queue are proved here.                                      *)
(***************************************************************************)
EXTENDS TunForgeTCP, ConnectionProofs

\* The part of the invariant about the upper layer: it calls only once its handlers
\* are set, and with onTerminated taken the queue has run dry.
LastCall ==
  /\ user.holds => conn.handlers # "unset"
  /\ user.terminated \/ running.kind = "terminated" =>
       conn.didNotifyTerminated /\ connectionsQueue = <<>>
  /\ ~(user.terminated /\ running.kind = "terminated")

\* The inductive invariant of Spec.
IInv == TypeOK /\ WorldInv(Now, 0) /\ LastCall

\* The world of a state, component by component.
LEMMA NowType ==
  /\ Now \in World <=> /\ conn \in Conn
                       /\ pcb \in Pcb
                       /\ connectionsQueue \in Seq(Block)
                       /\ pbufs \in Int
                       /\ stale \in BOOLEAN
                       /\ dropped \in Nat
  /\ Now.conn = conn
  /\ Now.pcb = pcb
  /\ Now.queue = connectionsQueue
  /\ Now.dropped = dropped
BY DEF Now, World

\* The invariant holds initially: tunforge_accept hands over an established pcb.
LEMMA InitInv == Init => IInv
<1> SUFFICES ASSUME Init PROVE IInv
  OBVIOUS
<1> USE LwipAssumption, LowWaterAssumption, SystemAssumption
<1>1. conn \in Conn
  BY DEF Init, initWithTCPPcb, Conn, ConnStates, Reasons, Handlers
<1>2. pcb = [state |-> "ESTABLISHED", callbacks |-> TRUE, backlogpend |-> TRUE,
             rxclosed |-> FALSE, closepend |-> FALSE, rcv_wnd |-> TCP_WND,
             refused |-> 0, refusedFin |-> FALSE, snd_buf |-> TCP_SND_BUF]
  BY DEF Init, setupPcb, tcp_alloc
<1>3. pcb \in Pcb
  BY <1>2 DEF Pcb, PcbStates, ActiveStates
<1>4. connectionsQueue \in Seq(Block) /\ Len(connectionsQueue) = 1
      /\ connectionsQueue[1].kind = "accept"
  BY DEF Init, Block, BlockKinds
<1>5. TypeOK
  <2>1. pbufs \in Int /\ dropped \in Nat /\ running = NoBlock
    BY DEF Init
  <2>4. stale \in BOOLEAN /\ timedOut \in BOOLEAN
    BY Zenon DEF Init
  <2>2. user \in User
    BY DEF Init, User
  <2>3. segments \in 0 .. MaxSegments /\ writes \in 0 .. MaxWrites
    BY DEF Init
  <2> QED BY <1>1, <1>3, <1>4, <2>1, <2>2, <2>3, <2>4 DEF TypeOK
<1>6. Now \in World
  BY <1>5, NowType DEF TypeOK
<1>7. Live(Now) /\ Owes(Now, 0) /\ RefusedRun(Now) /\ UnsetIsNew(Now) /\ Slot(Now)
  BY <1>2, NowType DEF Init, initWithTCPPcb, Live, Owes, RefusedRun, UnsetIsNew, Slot
<1>8. QueueInv(Now)
  BY <1>4, NowType DEF Init, initWithTCPPcb, QueueInv, AcceptFirst, TerminatedLast
<1>9. LastCall
  BY DEF Init, LastCall, NoBlock
<1> QED BY <1>5, <1>6, <1>7, <1>8, <1>9 DEF IInv, WorldInv

\* A step of the packets queue that runs one operation of the previous module.
LEMMA BecomesInv ==
  ASSUME IInv, NEW v, WorldInv(v, 0), Step(Now, v), Becomes(v),
         running' = running,
         user' \in User, user'.holds = user.holds, user'.terminated = user.terminated,
         timedOut' \in BOOLEAN, segments' \in 0 .. MaxSegments, writes' \in 0 .. MaxWrites
  PROVE  IInv'
<1>1. v \in World
  BY DEF WorldInv
<1>2. Now' = v
  BY <1>1 DEF Now, Becomes, World
<1>3. WorldInv(Now', 0)
  BY <1>2
<1>4. TypeOK'
  <2>1. /\ conn' \in Conn
        /\ pcb' \in Pcb
        /\ connectionsQueue' \in Seq(Block)
        /\ pbufs' \in Int
        /\ stale' \in BOOLEAN
        /\ dropped' \in Nat
    BY <1>1, Parts DEF Becomes
  <2>2. running' \in Block \cup {NoBlock}
    BY DEF IInv, TypeOK
  <2> QED BY <2>1, <2>2 DEF TypeOK
<1>5. LastCall'
  <2>1. conn'.handlers = conn.handlers
    BY NowType DEF Step, Becomes
  <2>2. ASSUME conn.didNotifyTerminated, connectionsQueue = <<>>
        PROVE  conn'.didNotifyTerminated /\ connectionsQueue' = <<>>
    <3>1. Dead(Now)
      BY <2>2, NowType DEF IInv, WorldInv, Live
    <3>2. Dead(v) /\ v.queue = Now.queue
      BY <3>1 DEF Step
    <3> QED BY <2>2, <3>2, NowType DEF Becomes, Dead
  <2>3. LastCall
    BY DEF IInv
  <2> QED BY <2>1, <2>2, <2>3 DEF LastCall
<1> QED BY <1>3, <1>4, <1>5 DEF IInv

\* Types of the upper layer's fields.
LEMMA UserFields ==
  ASSUME TypeOK
  PROVE  /\ user.holds \in BOOLEAN
         /\ user.unacked \in Nat
         /\ user.releases \in Nat
         /\ user.terminated \in BOOLEAN
BY DEF TypeOK, User

\* The upper layer's calls preserve the invariant.
LEMMA UserCallInv ==
  ASSUME IInv, UserCall
  PROVE  IInv'
<1>1. TypeOK /\ WorldInv(Now, 0) /\ 0 \in Nat
  BY DEF IInv
<1>2. /\ user \in User
      /\ timedOut \in BOOLEAN
      /\ segments \in 0 .. MaxSegments
      /\ writes \in 0 .. MaxWrites
  BY <1>1 DEF TypeOK
<1>3. CASE MarkActive
  <2>1. Now.conn.handlers # "unset"
    BY <1>3, NowType DEF MarkActive, IInv, LastCall
  <2>2. WorldInv(markActive(Now), 0) /\ Step(Now, markActive(Now))
    BY <1>1, <2>1, MarkActiveInv
  <2> QED BY <1>2, <1>3, <2>2, BecomesInv DEF MarkActive
<1>4. ASSUME NEW enabled \in BOOLEAN, SetInboundDeliveryEnabled(enabled)
      PROVE  IInv'
  <2> DEFINE v == setInboundDeliveryEnabled(Now, enabled)
  <2>1. WorldInv(v, 0) /\ Step(Now, v)
    BY <1>1, SetInboundInv
  <2>2. Becomes(v) /\ UNCHANGED <<running, user, timedOut, segments, writes>>
    BY <1>4 DEF SetInboundDeliveryEnabled
  <2> QED BY <1>2, <2>1, <2>2, BecomesInv
<1>5. ASSUME NEW bytes \in AckSizes, AcknowledgeDeliveredBytes(bytes)
      PROVE  IInv'
  <2> DEFINE v == acknowledgeDeliveredBytes(Now, bytes)
             m == IF user.unacked < bytes THEN 0 ELSE user.unacked - bytes
  <2>1. bytes \in Nat
    BY SystemAssumption
  <2>2. WorldInv(v, 0) /\ Step(Now, v)
    BY <1>1, <2>1, AcknowledgeInv
  <2>3. /\ Becomes(v)
        /\ UNCHANGED <<running, timedOut, segments, writes>>
        /\ user' = [user EXCEPT !.unacked = m]
    BY <1>5 DEF AcknowledgeDeliveredBytes
  <2>4. m \in Nat
    BY <1>1, <2>1, UserFields
  <2> HIDE DEF v, m
  <2>5. user' \in User /\ user'.holds = user.holds /\ user'.terminated = user.terminated
    BY <1>2, <2>3, <2>4 DEF User
  <2> QED BY <1>2, <2>2, <2>3, <2>5, BecomesInv
<1>6. ASSUME NEW length \in WriteSizes, NEW nomem \in MayRunOut, WriteBytes(length, nomem)
      PROVE  IInv'
  <2> DEFINE v == writeBytes(Now, length, nomem)
  <2>1. length \in Nat /\ nomem \in BOOLEAN /\ MaxWrites \in Nat
    BY SystemAssumption
  <2>2. WorldInv(v, 0) /\ Step(Now, v)
    BY <1>1, <2>1, WriteBytesInv
  <2>3. /\ Becomes(v)
        /\ UNCHANGED <<running, user, timedOut, segments>>
        /\ writes > 0
        /\ writes' = writes - 1
    BY <1>6 DEF WriteBytes
  <2>4. writes' \in 0 .. MaxWrites
    BY <1>2, <2>1, <2>3
  <2> HIDE DEF v
  <2> QED BY <1>2, <2>2, <2>3, <2>4, BecomesInv
<1>7. ASSUME NEW nomem \in MayRunOut, ShutdownWrite(nomem)
      PROVE  IInv'
  <2> DEFINE v == shutdownWrite(Now, nomem)
  <2>1. WorldInv(v, 0) /\ Step(Now, v)
    BY <1>1, ShutdownWriteInv
  <2>2. Becomes(v) /\ UNCHANGED <<running, user, timedOut, segments, writes>>
    BY <1>7 DEF ShutdownWrite
  <2> QED BY <1>2, <2>1, <2>2, BecomesInv
<1>8. ASSUME NEW nomem \in MayRunOut, GracefulClose(nomem)
      PROVE  IInv'
  <2> DEFINE v == gracefulClose(Now, nomem)
  <2>0. nomem \in BOOLEAN
    BY SystemAssumption
  <2>1. WorldInv(v, 0) /\ Step(Now, v)
    BY <1>1, <2>0, GracefulCloseInv
  <2>2. Becomes(v) /\ UNCHANGED <<running, user, timedOut, segments, writes>>
    BY <1>8 DEF GracefulClose
  <2> QED BY <1>2, <2>1, <2>2, BecomesInv
<1>9. CASE Abort
  <2> DEFINE v == abortLocked(Now, "Abort")
  <2>1. "Abort" \in Reasons
    BY DEF Reasons
  <2>2. WorldInv(v, 0) /\ Step(Now, v)
    BY <1>1, <2>1, AbortInv
  <2>3. Becomes(v) /\ UNCHANGED <<running, user, timedOut, segments, writes>>
    BY <1>9 DEF Abort, abort
  <2> QED BY <1>2, <2>2, <2>3, BecomesInv
<1>10. CASE DropConnection
  <2>1. /\ ~conn.alive
        /\ user' = [user EXCEPT !.holds = FALSE]
        /\ conn' = [conn EXCEPT !.exists = FALSE]
        /\ UNCHANGED <<pcb, connectionsQueue, pbufs, stale, dropped, running, timedOut, segments, writes>>
    BY <1>10 DEF DropConnection
  <2>2. conn \in Conn /\ Now \in World
    BY <1>1 DEF TypeOK, WorldInv
  <2>3. /\ conn' \in Conn
        /\ ~conn'.exists
        /\ conn'.alive = conn.alive
        /\ conn'.pcb = conn.pcb
        /\ conn'.didNotifyTerminated = conn.didNotifyTerminated
        /\ conn'.state = conn.state
        /\ conn'.pendingClose = conn.pendingClose
        /\ conn'.inflight = conn.inflight
        /\ conn'.handlers = conn.handlers
    BY <2>1, <2>2 DEF Conn
  <2>4. user' \in User /\ ~user'.holds /\ user'.terminated = user.terminated
    BY <1>2, <2>1 DEF User
  <2>5. TypeOK'
    BY <1>1, <2>1, <2>3, <2>4 DEF TypeOK
  <2>6. Now' \in World /\ Now'.conn = conn' /\ Now'.pcb = pcb /\ Now'.queue = connectionsQueue
    BY <2>1, <2>5 DEF Now, World, TypeOK
  <2>7. Dead(Now') /\ Dead(Now)
    BY <1>1, <2>1, <2>3, <2>6, NowType DEF WorldInv, Live, Dead
  <2>8. QueueInv(Now')
    BY <1>1, <2>3, <2>6, NowType, QueueFrame DEF WorldInv
  <2>9. WorldInv(Now', 0)
    BY <1>1, <2>3, <2>6, <2>7, <2>8, NowType
       DEF WorldInv, Dead, Owes, RefusedRun, UnsetIsNew, Slot
  <2>10. LastCall'
    BY <2>1, <2>3, <2>4 DEF IInv, LastCall
  <2> QED BY <2>5, <2>9, <2>10 DEF IInv
<1> QED
  BY <1>3, <1>4, <1>5, <1>6, <1>7, <1>8, <1>9, <1>10 DEF UserCall

\* Segments, RSTs and the pcb shortage preserve the invariant.
LEMMA NetworkInv ==
  ASSUME IInv, Network
  PROVE  IInv'
<1>1. TypeOK /\ WorldInv(Now, 0) /\ 0 \in Nat
  BY DEF IInv
<1>2. /\ user \in User
      /\ timedOut \in BOOLEAN
      /\ segments \in 0 .. MaxSegments
      /\ writes \in 0 .. MaxWrites
  BY <1>1 DEF TypeOK
<1>3. ASSUME NEW s \in Segment, NEW nomem \in MayRunOut, TcpInput(s, nomem)
      PROVE  IInv'
  <2> DEFINE v == tcp_input(Now, s, nomem)
  <2>1. nomem \in BOOLEAN /\ MaxSegments \in Nat
    BY SystemAssumption
  <2>2. Acceptable(Now.pcb, s)
    BY <1>3, NowType DEF TcpInput
  <2>3. WorldInv(v, 0) /\ Step(Now, v)
    BY <1>1, <2>1, <2>2, InputInv
  <2>4. /\ Becomes(v)
        /\ UNCHANGED <<running, user, timedOut, writes>>
        /\ segments' = segments \/ (segments > 0 /\ segments' = segments - 1)
    BY <1>3 DEF TcpInput
  <2>5. segments' \in 0 .. MaxSegments
    BY <1>2, <2>1, <2>4
  <2> HIDE DEF v
  <2> QED BY <1>2, <2>3, <2>4, <2>5, BecomesInv
<1>4. ASSUME NEW nomem \in MayRunOut, TcpInputRst(nomem)
      PROVE  IInv'
  <2> DEFINE v == tcp_input_rst(Now, nomem)
  <2>1. nomem \in BOOLEAN
    BY SystemAssumption
  <2>2. WorldInv(v, 0) /\ Step(Now, v)
    BY <1>1, <2>1, InputRstInv
  <2>3. Becomes(v) /\ UNCHANGED <<running, user, timedOut, segments, writes>>
    BY <1>4 DEF TcpInputRst
  <2> QED BY <1>2, <2>2, <2>3, BecomesInv
<1>5. ASSUME NEW nofin \in MayRunOut, NEW killed \in BOOLEAN, TcpAllocShortage(nofin, killed)
      PROVE  IInv'
  <2> DEFINE v == tcp_alloc_shortage(Now, nofin, killed)
  <2>1. WorldInv(v, 0) /\ Step(Now, v)
    BY <1>1, AllocShortageInv
  <2>2. Becomes(v) /\ UNCHANGED <<running, user, timedOut, segments, writes>>
    BY <1>5 DEF TcpAllocShortage
  <2> QED BY <1>2, <2>1, <2>2, BecomesInv
<1> QED BY <1>3, <1>4, <1>5 DEF Network

\* The timers preserve the invariant.
LEMMA TimersInv ==
  ASSUME IInv, Timers
  PROVE  IInv'
<1>1. TypeOK /\ WorldInv(Now, 0) /\ 0 \in Nat
  BY DEF IInv
<1>2. /\ user \in User
      /\ timedOut \in BOOLEAN
      /\ segments \in 0 .. MaxSegments
      /\ writes \in 0 .. MaxWrites
  BY <1>1 DEF TypeOK
<1>3. ASSUME NEW nofin \in MayRunOut, NEW nomem \in MayRunOut, TcpFasttmr(nofin, nomem)
      PROVE  IInv'
  <2> DEFINE v == tcp_fasttmr(Now, nofin, nomem)
  <2>1. nomem \in BOOLEAN
    BY SystemAssumption
  <2>2. WorldInv(v, 0) /\ Step(Now, v)
    BY <1>1, <2>1, FasttmrInv
  <2>3. Becomes(v) /\ UNCHANGED <<running, user, timedOut, segments, writes>>
    BY <1>3 DEF TcpFasttmr
  <2> QED BY <1>2, <2>2, <2>3, BecomesInv
<1>4. ASSUME NEW nomem \in MayRunOut, TcpSlowtmrPoll(nomem)
      PROVE  IInv'
  <2> DEFINE v == TCP_EVENT_POLL(Now, timedOut, nomem)
  <2>1. nomem \in BOOLEAN
    BY SystemAssumption
  <2>2. WorldInv(v, 0) /\ Step(Now, v)
    BY <1>1, <2>1, EventPollInv
  <2>3. Becomes(v) /\ UNCHANGED <<running, user, timedOut, segments, writes>>
    BY <1>4 DEF TcpSlowtmrPoll, tcp_slowtmr_poll
  <2> QED BY <1>2, <2>2, <2>3, BecomesInv
<1>5. CASE TcpSlowtmrRemove
  <2> DEFINE v == tcp_slowtmr_remove(Now)
  <2>1. WorldInv(v, 0) /\ Step(Now, v)
    BY <1>1, SlowtmrRemoveInv
  <2>2. Becomes(v) /\ UNCHANGED <<running, user, timedOut, segments, writes>>
    BY <1>5 DEF TcpSlowtmrRemove
  <2> QED BY <1>2, <2>1, <2>2, BecomesInv
<1>6. CASE TcpSlowtmrTimeWait
  <2> DEFINE v == tcp_free([Now EXCEPT !.pcb = tcp_pcb_purge(Now.pcb)])
  <2>1. WorldInv(v, 0) /\ Step(Now, v)
    BY <1>1, FreeInv
  <2>2. Becomes(v) /\ UNCHANGED <<running, user, timedOut, segments, writes>>
    BY <1>6 DEF TcpSlowtmrTimeWait, tcp_slowtmr_timewait
  <2> QED BY <1>2, <2>1, <2>2, BecomesInv
<1>7. CASE NewStateTimeout
  <2>1. /\ UNCHANGED <<conn, pcb, connectionsQueue, pbufs, stale, dropped>>
        /\ UNCHANGED <<running, user, segments, writes>>
        /\ timedOut' = TRUE
    BY <1>7 DEF NewStateTimeout, world
  <2>2. Becomes(Now) /\ Step(Now, Now)
    BY <2>1, StepRefl DEF Becomes, Now
  <2> QED BY <1>1, <1>2, <2>1, <2>2, BecomesInv
<1> QED BY <1>3, <1>4, <1>5, <1>6, <1>7 DEF Timers

\* The connections queue preserves the invariant.
LEMMA CallbacksInv ==
  ASSUME IInv, Callbacks
  PROVE  IInv'
<1>1. TypeOK /\ WorldInv(Now, 0) /\ LastCall
  BY DEF IInv
<1>2. /\ user \in User
      /\ conn \in Conn
      /\ connectionsQueue \in Seq(Block)
      /\ running \in Block \cup {NoBlock}
      /\ pbufs \in Int
  BY <1>1 DEF TypeOK
<1>3. ASSUME NEW mode \in ReadModes, RunAccept(mode)
      PROVE  IInv'
  <2>1. /\ connectionsQueue # <<>>
        /\ Head(connectionsQueue).kind = "accept"
        /\ connectionsQueue' = Tail(connectionsQueue)
        /\ user' = [user EXCEPT !.holds = TRUE]
        /\ conn' = [conn EXCEPT !.handlers = mode]
        /\ UNCHANGED <<pcb, pbufs, stale, dropped, running, timedOut, segments, writes>>
    BY <1>3 DEF RunAccept
  <2>2. mode \in Handlers /\ mode # "unset"
    BY SystemAssumption DEF Handlers
  <2>3. conn.handlers = "unset" /\ connectionsQueue = <<[kind |-> "accept", n |-> 0]>>
    <3>1. Head(connectionsQueue) = connectionsQueue[1] /\ 1 \in 1 .. Len(connectionsQueue)
      BY <1>2, <2>1
    <3> QED BY <1>1, <2>1, <3>1, NowType DEF WorldInv, QueueInv, AcceptFirst
  <2>4. connectionsQueue' = <<>>
    BY <2>1, <2>3
  <2>5. /\ conn' \in Conn
        /\ conn'.handlers = mode
        /\ conn'.alive = conn.alive
        /\ conn'.pcb = conn.pcb
        /\ conn'.didNotifyTerminated = conn.didNotifyTerminated
        /\ conn'.state = conn.state
        /\ conn'.pendingClose = conn.pendingClose
        /\ conn'.refAlive = conn.refAlive
        /\ conn'.exists = conn.exists
        /\ conn'.inflight = conn.inflight
    BY <1>2, <2>1, <2>2 DEF Conn
  <2>6. user' \in User /\ user'.terminated = user.terminated
    BY <1>2, <2>1 DEF User
  <2>7. TypeOK'
    <3>1. connectionsQueue' \in Seq(Block)
      BY <2>4
    <3> QED BY <1>1, <2>1, <2>5, <2>6, <3>1 DEF TypeOK
  <2>8. Now' \in World /\ Now'.conn = conn' /\ Now'.pcb = pcb /\ Now'.queue = <<>>
    BY <2>1, <2>4, <2>7 DEF Now, World, TypeOK
  <2>9. QueueInv(Now')
    <3>1. Len(<<>>) = 0
      OBVIOUS
    <3> QED BY <2>2, <2>5, <2>8, <3>1 DEF QueueInv, AcceptFirst, TerminatedLast
  <2>10. Live(Now') \/ Dead(Now')
    BY <1>1, <2>5, <2>8, NowType DEF WorldInv, Live, Dead
  <2>11. Owes(Now', 0)
    BY <1>1, <2>3, <2>5, <2>8, NowType DEF WorldInv, Owes
  <2>12. UnsetIsNew(Now') /\ RefusedRun(Now') /\ Slot(Now')
    BY <1>1, <2>2, <2>5, <2>8, NowType DEF WorldInv, UnsetIsNew, RefusedRun, Slot
  <2>13. WorldInv(Now', 0)
    BY <2>8, <2>9, <2>10, <2>11, <2>12 DEF WorldInv
  <2>14. LastCall'
    BY <1>1, <2>1, <2>2, <2>4, <2>5, <2>6 DEF LastCall
  <2> QED BY <2>7, <2>13, <2>14 DEF IInv
<1>4. CASE TakeBlock
  <2> DEFINE b == Head(connectionsQueue)
             q == Tail(connectionsQueue)
  <2>1. /\ connectionsQueue # <<>>
        /\ b.kind # "accept"
        /\ connectionsQueue' = q
        /\ UNCHANGED <<conn, pcb, pbufs, stale, dropped, timedOut, segments, writes>>
        /\ running = NoBlock
        /\ running' \in {b, NoBlock}
        /\ user' \in {user, [user EXCEPT !.releases = user.releases + 1]}
    BY <1>4 DEF TakeBlock
  <2>2. /\ b \in Block
        /\ b = connectionsQueue[1]
        /\ q \in Seq(Block)
        /\ Len(connectionsQueue) \in Nat
        /\ Len(connectionsQueue) > 0
        /\ Len(q) = Len(connectionsQueue) - 1
        /\ \A i \in 1 .. Len(q) : q[i] = connectionsQueue[i + 1]
    BY <1>2, <2>1
  <2> HIDE DEF b, q
  <2>3. /\ conn.handlers # "unset"
        /\ \A i \in 1 .. Len(connectionsQueue) : connectionsQueue[i].kind # "accept"
    <3>1. AcceptFirst(Now)
      BY <1>1 DEF WorldInv, QueueInv
    <3>2. ASSUME connectionsQueue = <<[kind |-> "accept", n |-> 0]>>
          PROVE  FALSE
      BY <2>1, <2>2, <3>2
    <3> QED BY <3>1, <3>2, NowType DEF AcceptFirst
  <2>4. \A i \in 1 .. Len(connectionsQueue) :
          connectionsQueue[i].kind = "terminated" =>
            conn.didNotifyTerminated /\ i = Len(connectionsQueue)
    BY <1>1, NowType DEF WorldInv, QueueInv, TerminatedLast
  <2>5. /\ \A i \in 1 .. Len(q) : q[i].kind # "accept"
        /\ \A i \in 1 .. Len(q) :
             q[i].kind = "terminated" => conn.didNotifyTerminated /\ i = Len(q)
    BY <2>2, <2>3, <2>4
  <2>6. b.kind = "terminated" => conn.didNotifyTerminated /\ q = <<>>
    <3>1. b.kind = "terminated" => conn.didNotifyTerminated /\ Len(q) = 0
      BY <2>2, <2>4
    <3>2. Len(q) = 0 => q = <<>>
      BY <2>2
    <3> QED BY <3>1, <3>2
  <2>7. user' \in User /\ user'.holds = user.holds /\ user'.terminated = user.terminated
    <3>1. user.releases + 1 \in Nat
      BY <1>1, UserFields
    <3> QED BY <1>2, <2>1, <3>1 DEF User
  <2>8. TypeOK'
    BY <1>1, <2>1, <2>2, <2>7 DEF TypeOK
  <2>9. Now' \in World /\ Now'.conn = conn /\ Now'.pcb = pcb /\ Now'.queue = q
    BY <2>1, <2>8 DEF Now, World, TypeOK
  <2>10. QueueInv(Now')
    BY <2>3, <2>5, <2>9 DEF QueueInv, AcceptFirst, TerminatedLast
  <2>11. WorldInv(Now', 0)
    BY <1>1, <2>9, <2>10, NowType DEF WorldInv, Live, Dead, Owes, RefusedRun, UnsetIsNew, Slot
  <2>12. LastCall'
    <3>1. ~user.terminated
      BY <1>1, <2>1 DEF LastCall
    <3>2. running'.kind = "terminated" => conn.didNotifyTerminated /\ q = <<>>
      BY <2>1, <2>6 DEF NoBlock
    <3> QED BY <1>1, <2>1, <2>7, <3>1, <3>2 DEF LastCall
  <2> QED BY <2>8, <2>11, <2>12 DEF IInv
<1>5. CASE CallBlock
  <2>1. /\ running # NoBlock
        /\ running' = NoBlock
        /\ UNCHANGED <<conn, pcb, connectionsQueue, pbufs, stale, dropped, timedOut, segments, writes>>
        /\ user' = CASE running.kind = "activated"  -> [user EXCEPT !.activated = TRUE]
                     [] running.kind = "eof"        -> [user EXCEPT !.eof = TRUE]
                     [] running.kind = "terminated" -> [user EXCEPT !.terminated = TRUE]
                     [] running.kind = "data"       -> [user EXCEPT !.unacked = @ + running.n,
                                                                    !.releases = @ + 1]
                     [] OTHER                       -> user
    BY <1>5 DEF CallBlock, world
  <2>2. user.unacked + running.n \in Nat /\ user.releases + 1 \in Nat
    BY <1>1, <1>2, <2>1, UserFields DEF Block
  <2>3. /\ user' \in User
        /\ user'.holds = user.holds
        /\ user'.terminated => user.terminated \/ running.kind = "terminated"
    <3>1. CASE running.kind = "activated"
      BY <1>2, <2>1, <3>1 DEF User
    <3>2. CASE running.kind = "eof"
      BY <1>2, <2>1, <3>2 DEF User
    <3>3. CASE running.kind = "terminated"
      BY <1>2, <2>1, <3>3 DEF User
    <3>4. CASE running.kind = "data"
      BY <1>2, <2>1, <2>2, <3>4 DEF User
    <3>5. CASE running.kind \notin {"activated", "eof", "terminated", "data"}
      BY <1>2, <2>1, <3>5 DEF User
    <3> QED BY <3>1, <3>2, <3>3, <3>4, <3>5
  <2>4. TypeOK'
    BY <1>1, <2>1, <2>3 DEF TypeOK
  <2>5. Now' = Now
    BY <2>1 DEF Now
  <2>6. WorldInv(Now', 0)
    BY <1>1, <2>5
  <2>7. LastCall'
    BY <1>1, <2>1, <2>3 DEF LastCall, NoBlock
  <2> QED BY <2>4, <2>6, <2>7 DEF IInv
<1>6. CASE ReleaseBuffer
  <2>1. /\ user.releases > 0
        /\ user' = [user EXCEPT !.releases = user.releases - 1]
        /\ pbufs' = pbufs - 1
        /\ UNCHANGED <<conn, pcb, connectionsQueue, stale, dropped, running, timedOut, segments, writes>>
    BY <1>6 DEF ReleaseBuffer
  <2>2. user.releases - 1 \in Nat /\ pbufs' \in Int
    BY <1>1, <1>2, <2>1, UserFields
  <2>3. user' \in User /\ user'.holds = user.holds /\ user'.terminated = user.terminated
    BY <1>2, <2>1, <2>2 DEF User
  <2>4. TypeOK'
    BY <1>1, <2>1, <2>2, <2>3 DEF TypeOK
  <2>5. Now' \in World /\ Now'.conn = conn /\ Now'.pcb = pcb /\ Now'.queue = connectionsQueue
    BY <2>1, <2>4 DEF Now, World, TypeOK
  <2>6. WorldInv(Now', 0)
    BY <1>1, <2>5, NowType, AgreeInv DEF Agree
  <2>7. LastCall'
    BY <1>1, <2>1, <2>3 DEF LastCall
  <2> QED BY <2>4, <2>6, <2>7 DEF IInv
<1> QED BY <1>3, <1>4, <1>5, <1>6 DEF Callbacks

\* Stuttering preserves the invariant.
LEMMA StutterInv ==
  ASSUME IInv, UNCHANGED vars
  PROVE  IInv'
<1>1. Now' = Now
  BY DEF vars, Now
<1>2. WorldInv(Now', 0)
  BY <1>1 DEF IInv
<1>3. TypeOK' /\ LastCall'
  BY DEF vars, IInv, TypeOK, LastCall
<1> QED BY <1>2, <1>3 DEF IInv

-----------------------------------------------------------------------------
(* Theorems.                                                               *)

\* IInv is an invariant of every behaviour of the system, for every window, low-water
\* mark, allocation outcome and interleaving.
THEOREM Invariance == Spec => []IInv
<1>1. Init => IInv
  BY InitInv
<1>2. IInv /\ [Next]_vars => IInv'
  BY UserCallInv, NetworkInv, TimersInv, CallbacksInv, StutterInv DEF Next
<1> QED BY <1>1, <1>2, PTL DEF Spec

\* The variables keep their types: in particular the receive window never leaves
\* 0 .. TCP_WND, nor the send buffer 0 .. TCP_SND_BUF.
THEOREM TypeCorrect == Spec => []TypeOK
<1>1. IInv => TypeOK
  BY DEF IInv
<1> QED BY <1>1, Invariance, PTL

\* No interleaving of lwIP's ways to free a pcb (RST, abort, timeouts, last ACK, pcb
\* shortage, close with unread data) with the upper layer's calls leaves self.pcb
\* pointing to a freed pcb, or a terminated connection holding one.
THEOREM NoDanglingPcb == Spec => []PcbNeverDangles
<1>1. IInv => PcbNeverDangles
  <2> SUFFICES ASSUME IInv PROVE PcbNeverDangles
    OBVIOUS
  <2>1. Live(Now) \/ Dead(Now)
    BY DEF IInv, WorldInv
  <2> QED BY <2>1, NowType DEF Live, Dead, PcbNeverDangles
<1> QED BY <1>1, Invariance, PTL

\* A graceful close completes within its step of the packets queue, also without
\* memory for the FIN: the retry of tf_tcp_poll is never needed.
THEOREM ClosesAtOnce == Spec => []NotLeftClosing
<1>1. IInv => NotLeftClosing
  <2> SUFFICES ASSUME IInv PROVE NotLeftClosing
    OBVIOUS
  <2>1. Live(Now) \/ Dead(Now)
    BY DEF IInv, WorldInv
  <2> QED BY <2>1, NowType DEF Live, Dead, NotLeftClosing
<1> QED BY <1>1, Invariance, PTL

\* Flow control loses and invents no byte on a live connection, for every window size
\* and whatever is refused, retried, dropped or acknowledged in whichever order.
THEOREM WindowIsConserved == Spec => []WindowConserved
<1>1. IInv => WindowConserved
  <2> SUFFICES ASSUME IInv PROVE WindowConserved
    OBVIOUS
  <2>1. Owes(Now, 0)
    BY DEF IInv, WorldInv
  <2>2. /\ pcb.rcv_wnd \in Int
        /\ pcb.refused \in Int
        /\ conn.inflight \in Int
    BY LwipAssumption, SMTT(30) DEF IInv, TypeOK, Pcb, Conn
  <2> QED BY <2>1, <2>2, NowType DEF Owes, WindowConserved
<1> QED BY <1>1, Invariance, PTL

\* onTerminated is made at most once and after every other callback.
THEOREM TerminationIsLast == Spec => []TerminatedIsLast
<1>1. IInv => TerminatedIsLast
  <2> SUFFICES ASSUME IInv PROVE TerminatedIsLast
    OBVIOUS
  <2>1. TerminatedLast(Now) /\ LastCall
    BY DEF IInv, WorldInv, QueueInv
  <2>2. DOMAIN connectionsQueue = 1 .. Len(connectionsQueue)
    BY DEF IInv, TypeOK
  <2> QED BY <2>1, <2>2, NowType DEF TerminatedLast, LastCall, TerminatedIsLast
<1> QED BY <1>1, Invariance, PTL

\* The listener's backlog slot is returned by activation or with the pcb.
THEOREM SlotIsReturned == Spec => []BacklogSlotReturned
<1>1. IInv => BacklogSlotReturned
  BY NowType DEF IInv, WorldInv, Slot, BacklogSlotReturned
<1> QED BY <1>1, Invariance, PTL

\* After the upper layer has enabled delivery and acknowledged everything, what is
\* missing from the window of an active connection is one run and its FIN at most.
LEMMA WindowReopens ==
  ASSUME IInv, conn.state = "Active", pcb.state \in ActiveStates
  PROVE  LET v == acknowledgeDeliveredBytes(setInboundDeliveryEnabled(Now, TRUE), conn.inflight) IN
         /\ v.conn.recvEnabled
         /\ v.conn.alive
         /\ v.conn.state = "Active"
         /\ v.pcb.rcv_wnd \in Nat
         /\ v.pcb.rcv_wnd + MaxRun + 1 >= TCP_WND
<1> DEFINE u   == [Now EXCEPT !.conn.recvEnabled = TRUE]
           v   == acknowledgeDeliveredBytes(u, conn.inflight)
           fin == IF pcb.refusedFin THEN 1 ELSE 0
           p   == tcp_recved(pcb, conn.inflight)
<1>1. /\ Now \in World
      /\ conn \in Conn
      /\ pcb \in Pcb
      /\ conn.inflight \in Nat
      /\ pcb.rcv_wnd \in Nat
      /\ pcb.refused \in Nat
      /\ TCP_WND \in Nat
      /\ MaxRun \in Nat
  <2>1. Now \in World /\ conn \in Conn /\ pcb \in Pcb
    BY DEF IInv, WorldInv, TypeOK
  <2> QED BY <2>1, LwipAssumption DEF Conn, Pcb
<1>2. conn.alive /\ conn.pcb /\ pcb.state # "TIME_WAIT"
  BY NowType DEF IInv, WorldInv, Live, Dead, ActiveStates
<1>3. /\ u \in World
      /\ u.pcb = pcb
      /\ u.conn = [conn EXCEPT !.recvEnabled = TRUE]
  BY <1>1, NowType DEF World, Conn
<1>4. setInboundDeliveryEnabled(Now, TRUE) = u
  BY DEF setInboundDeliveryEnabled
<1> HIDE DEF u
<1>5. /\ u.conn \in Conn
      /\ u.conn.recvEnabled
      /\ u.conn.alive
      /\ u.conn.pcb
      /\ u.conn.state = "Active"
      /\ u.conn.inflight = conn.inflight
  BY <1>1, <1>2, <1>3, ZenonT(60) DEF Conn
<1>6. fin \in 0 .. 1
  OBVIOUS
<1>7. pcb.rcv_wnd + pcb.refused + fin + conn.inflight >= TCP_WND /\ pcb.refused <= MaxRun
  <2>1. Owes(Now, 0) /\ RefusedRun(Now)
    BY DEF IInv, WorldInv
  <2>2. pcb.rcv_wnd + pcb.refused + fin + conn.inflight + 0 >= TCP_WND
    BY <1>2, <2>1, NowType DEF Owes
  <2> HIDE DEF fin
  <2> QED BY <1>1, <1>6, <2>1, <2>2, NowType DEF RefusedRun
<1> HIDE DEF fin
<1>8. CASE conn.inflight = 0
  <2>1. v = u
    BY <1>8 DEF acknowledgeDeliveredBytes
  <2>2. pcb.rcv_wnd + MaxRun + 1 >= TCP_WND
    BY <1>1, <1>6, <1>7, <1>8
  <2> QED BY <1>1, <1>3, <1>4, <1>5, <2>1, <2>2
<1>9. CASE conn.inflight > 0
  <2>1. /\ p \in Pcb
        /\ p.rcv_wnd = IF pcb.rcv_wnd + conn.inflight > TCP_WND
                         THEN TCP_WND ELSE pcb.rcv_wnd + conn.inflight
    BY <1>1, RecvedLemma
  <2> HIDE DEF p
  <2>2. p.rcv_wnd \in Nat /\ p.rcv_wnd + MaxRun + 1 >= TCP_WND
    BY <1>1, <1>6, <1>7, <2>1
  <2> DEFINE x == [u EXCEPT !.pcb = p]
  <2>3. v = updateInflightAckBytes(x, 0 - conn.inflight)
    BY <1>1, <1>3, <1>5, <1>9 DEF acknowledgeDeliveredBytes, p
  <2>4. x \in World /\ x.pcb = p /\ x.conn = u.conn
    BY <1>3, <2>1 DEF World
  <2> HIDE DEF x, v
  <2>5. /\ v.pcb = p
        /\ v.conn.recvEnabled = u.conn.recvEnabled
        /\ v.conn.alive = u.conn.alive
        /\ v.conn.state = u.conn.state
    <3> DEFINE m == IF x.conn.inflight + (0 - conn.inflight) < 0
                      THEN 0 ELSE x.conn.inflight + (0 - conn.inflight)
    <3>1. v = [x EXCEPT !.conn.inflight = m]
      BY <2>3 DEF updateInflightAckBytes
    <3> DEFINE c == [x.conn EXCEPT !.inflight = m]
    <3> HIDE DEF m
    <3>2. x.conn \in Conn
      BY <1>5, <2>4
    <3>3. /\ c.recvEnabled = x.conn.recvEnabled
          /\ c.alive = x.conn.alive
          /\ c.state = x.conn.state
      BY <3>2 DEF Conn
    <3>4. v = [x EXCEPT !.conn = c]
      BY <3>1
    <3> HIDE DEF c
    <3>5. v.conn = c /\ v.pcb = x.pcb
      BY <2>4, <3>4 DEF World
    <3> QED BY <2>4, <3>3, <3>5
  <2> QED BY <1>4, <1>5, <2>2, <2>5 DEF v
<1>10. conn.inflight = 0 \/ conn.inflight > 0
  BY <1>1
<1> QED BY <1>8, <1>9, <1>10

\* Data refused on an active connection can be delivered whenever one run, the FIN
\* behind it and the low-water mark fit the window together.  The hypothesis is the
\* limit: with a longer run the receive gate may stay shut for good, although the
\* upper layer acknowledged everything.
THEOREM RefusedDrains ==
  ASSUME MaxRun + 1 + TCP_RCVLOWAT <= TCP_WND
  PROVE  Spec => []RefusedCanDrain
<1>1. IInv => RefusedCanDrain
  <2> DEFINE v == acknowledgeDeliveredBytes(setInboundDeliveryEnabled(Now, TRUE), conn.inflight)
  <2> SUFFICES ASSUME IInv, conn.state = "Active", pcb.state \in ActiveStates
               PROVE  shouldAllowRecv(v)
    BY DEF RefusedCanDrain
  <2>1. /\ v.conn.recvEnabled
        /\ v.conn.alive
        /\ v.conn.state = "Active"
        /\ v.pcb.rcv_wnd \in Nat
        /\ v.pcb.rcv_wnd + MaxRun + 1 >= TCP_WND
    BY WindowReopens
  <2> HIDE DEF v
  <2>2. TCP_RCVLOWAT \in Nat /\ MaxRun \in Nat /\ TCP_WND \in Nat
    BY LwipAssumption, LowWaterAssumption
  <2>3. v.pcb.rcv_wnd >= TCP_RCVLOWAT
    BY <2>1, <2>2
  <2> QED BY <2>1, <2>3 DEF shouldAllowRecv, tf_tcp_read_ready
<1> QED BY <1>1, Invariance, PTL
==============================================================================
