----------------------------- MODULE TFIPStack ------------------------------
(***************************************************************************)
(* The life cycle of the stack: TFIPStack's start, stop, inputPacket and   *)
(* accept bridge (TFIPStack.m), the TFObjectRef it hands to lwIP, the      *)
(* listener with its backlog and the pool of pcbs (tcp.c, tcp_in.c), and   *)
(* the dispatch timer that drives lwIP's timeouts (LwipTimeouts).          *)
(*                                                                         *)
(* Everything here runs on the serial packets queue, one block after the   *)
(* other, except AcceptBlock, which runs on the connections queue.  Of     *)
(* a connection only its place in the backlog and its state are kept: the  *)
(* rest is in TunForgeTCP.                                                 *)
(***************************************************************************)
EXTENDS LwipTimeouts, FiniteSets

CONSTANTS
  Pcbs,       \* the pool of MEMP_NUM_TCP_PCB pcbs
  BACKLOG,    \* TCP_DEFAULT_LISTEN_BACKLOG
  MaxRefs,    \* bound: TFObjectRefs at a time
  MaxConns,   \* bound: TFTCPConnections at a time
  MaxLag      \* bound: how late the dispatch timer is served

\* The longest that one sys_check_timeouts starts after another.
MaxIdle == TCP_TMR_INTERVAL + MaxLag

ASSUME StackAssumption ==
  /\ IsFiniteSet(Pcbs) /\ BACKLOG \in Nat \ {0}
  /\ MaxRefs \in Nat \ {0} /\ MaxConns \in Nat /\ MaxLag \in Nat
  /\ 2 * MaxIdle + TCP_TMR_INTERVAL < TICKS \div 2
  /\ 2 * MaxIdle + IP_TMR_INTERVAL < TICKS \div 2

VARIABLES
  stack,      \* the properties of TFIPStack
  refs,       \* the TFObjectRefs of the stack
  netif,      \* tunforge_virtual_netif
  listener,   \* the property listener and the listening pcb
  pcbs,       \* tcp_active_pcbs and tcp_tw_pcbs
  conns,      \* the state of the TFTCPConnections
  connQ,      \* accept blocks on the connections queue
  packetsQ,   \* blocks on the packets queue
  check,      \* the now of a sys_check_timeouts that is running
  idle        \* ticks since the dispatch timer was served

stackVars == <<stack, refs, netif>>
worldVars == <<listener, pcbs, conns>>
queueVars == <<connQ, packetsQ>>
vars == <<timeVars, stackVars, worldVars, queueVars, check, idle>>

None == 0    \* NULL or nil where the number of a ref or a connection stands
NotChecking == -1

Refs == 1 .. MaxRefs
Conns == 1 .. MaxConns

\* A listener goes by the number of the ref that is its arg, and that becomes
\* the arg of its connections until they are accepted.
NoListener == [arg |-> None, accepts_pending |-> 0]
Free == [st |-> "free"]

\* FIN_WAIT stands for FIN_WAIT_1 and FIN_WAIT_2, ESTABLISHED also for
\* CLOSE_WAIT.  pend is TF_BACKLOGPEND, conn the TFTCPConnection that is alive
\* and has the pcb.
Pcb == [st : {"SYN_RCVD", "ESTABLISHED", "FIN_WAIT", "CLOSING", "LAST_ACK", "TIME_WAIT"},
        listener : {None} \cup Refs, pend : BOOLEAN, conn : {None} \cup Conns]

InState(ps, S) == {p \in Pcbs : ps[p].st \in S}
InUse(ps) == {p \in Pcbs : ps[p].st # "free"}

\* Whether a ref is owned, by the property stackRef or by retainedVoidPointer.
Owned(r) == stack.stackRef = r \/ refs[r].retains > 0

\* One block of the packets queue runs at a time.
QueueFree == check = NotChecking

-----------------------------------------------------------------------------
(* Pcbs and the backlog.  The operators take and return the listener l,    *)
(* the pcbs ps and the connections cs as one record w.                     *)

World == [l |-> listener, ps |-> pcbs, cs |-> conns]

Becomes(w) == listener' = w.l /\ pcbs' = w.ps /\ conns' = w.cs

tcp_backlog_delayed(w, p) ==
  IF w.ps[p].pend \/ w.ps[p].listener = None
    THEN w
    ELSE [w EXCEPT !.l.accepts_pending = @ + 1, !.ps[p].pend = TRUE]

\* Mutant of tcp_backlog_accepted: the listener is not told.
tcp_backlog_accepted_silent(w, p) == [w EXCEPT !.ps[p].pend = FALSE]

\* The slot of a pcb in the backlog is given back.  A pcb whose listener was
\* closed has none.
tcp_backlog_accepted(w, p) ==
  IF w.ps[p].pend /\ w.ps[p].listener # None
    THEN [w EXCEPT !.l.accepts_pending = @ - 1, !.ps[p].pend = FALSE]
    ELSE w

\* tcp_pcb_purge does nothing to a pcb in TIME_WAIT.
tcp_pcb_purge(w, p) ==
  IF w.ps[p].st = "TIME_WAIT" THEN w ELSE tcp_backlog_accepted(w, p)

\* Every pcb of D is purged and freed; errf ends its connection.  A purge touches
\* no other pcb, so that the listener counts those that gave a slot back.
FreeAll(w, D) ==
  LET used == D \cap InUse(w.ps)
      slots == {p \in used : tcp_pcb_purge(w, p).l # w.l}
  IN [l  |-> [w.l EXCEPT !.accepts_pending = @ - Cardinality(slots)],
      ps |-> [p \in Pcbs |-> IF p \in D THEN Free ELSE w.ps[p]],
      cs |-> [c \in Conns |->
                IF \E p \in used : w.ps[p].conn = c THEN "Dead" ELSE w.cs[c]]]

\* tcp_alloc: the pcbs of which one is taken, and killed before if it is in
\* use.  All have one priority, so that tcp_kill_prio kills none.
Allocable ==
  LET FirstOf(A, B) == IF A # {} THEN A ELSE B
  IN FirstOf(InState(pcbs, {"free"}), FirstOf(InState(pcbs, {"TIME_WAIT"}),
       FirstOf(InState(pcbs, {"LAST_ACK"}), InState(pcbs, {"CLOSING"}))))

\* The listening pcb is freed, and no pcb points to it.
tcp_listen_closed(w) ==
  [w EXCEPT !.l = NoListener,
            !.ps = [p \in Pcbs |-> IF w.ps[p].st = "free" THEN Free
                                   ELSE [w.ps[p] EXCEPT !.listener = None]]]

-----------------------------------------------------------------------------
(* start and stop.                                                         *)

Smallest(S) == CHOOSE n \in S : \A m \in S : n <= m

\* The numbers of which a new ref takes one: nothing refers to them.
NewRefs == {r \in Refs : ~Owned(r) /\ \A p \in InUse(pcbs) : pcbs[p].listener # r}

StackRefAlive == stack.stackRef # None /\ refs[stack.stackRef].alive

\* The ref that start leaves in stackRef.
StartRef == IF StackRefAlive THEN stack.stackRef ELSE Smallest(NewRefs)

\* The part of setupLockedOnLWIPQueue behind its guard.  Without a pcb for
\* tcp_new there is no listener: a release build goes on behind the NSAssert.
\* tcp_listen frees the pcb that it copies.
setupLockedOnLWIPQueue(r) ==
  /\ stack' = [stackRef |-> r, ready |-> TRUE, state |-> r, timer |-> TRUE]
  /\ refs' = [refs EXCEPT ![r] = [alive |-> TRUE, retains |-> @.retains + 1]]
  /\ netif' = [listed |-> TRUE, state |-> r]
  /\ \/ /\ Allocable = {}
        /\ UNCHANGED worldVars
     \/ \E p \in Allocable :
          Becomes([FreeAll(World, {p}) EXCEPT !.l = [arg |-> r, accepts_pending |-> 0]])

\* The timer's first event is due at once.
start ==
  /\ QueueFree
  /\ StackRefAlive \/ NewRefs # {}
  /\ timeouts' = sys_restart_timeouts(timeouts)
  /\ idle' = TCP_TMR_INTERVAL
  /\ \/ /\ stack.ready
        /\ stack' = [stack EXCEPT !.stackRef = StartRef, !.timer = TRUE]
        /\ refs' = [refs EXCEPT ![StartRef].alive = TRUE]
        /\ UNCHANGED <<netif, worldVars>>
     \/ /\ ~stack.ready
        /\ setupLockedOnLWIPQueue(StartRef)
  /\ UNCHANGED <<clock, tcpActive, queueVars, check>>

\* stackRef is invalidated and state released.
StopRefs ==
  [r \in Refs |->
     [alive   |-> refs[r].alive /\ r # stack.stackRef,
      retains |-> IF r = stack.state THEN refs[r].retains - 1 ELSE refs[r].retains]]

\* Mutant of StopListener: the listener is forgotten, and not closed.
StopListener_open(w) == w

StopListener(w) == IF w.l = NoListener THEN w ELSE tcp_listen_closed(w)

\* D are the connections with the address of the netif, which netif_remove
\* aborts; the others stay.
stop(D) ==
  /\ QueueFree
  /\ D \subseteq InUse(pcbs) \ InState(pcbs, {"TIME_WAIT"})
  /\ ~netif.listed => D = {}
  /\ stack' = [stackRef |-> None, ready |-> FALSE, state |-> None, timer |-> FALSE]
  /\ refs' = StopRefs
  /\ Becomes(FreeAll(StopListener(World), D))
  /\ netif' = IF netif.state = stack.state THEN [listed |-> FALSE, state |-> None] ELSE netif
  /\ idle' = 0
  /\ UNCHANGED <<timeVars, queueVars, check>>

-----------------------------------------------------------------------------
(* inputPacket: what a packet does to the pool and to the backlog.         *)

\* The guards of inputPacket.
Input ==
  /\ QueueFree
  /\ StackRefAlive
  /\ stack.ready
  /\ UNCHANGED <<stackVars, clock, check, idle>>

\* Mutant of BacklogOpen: the slots are counted one too late.
BacklogOpen_late == listener.accepts_pending <= BACKLOG

BacklogOpen == listener.accepts_pending < BACKLOG

\* tcp_listen_input: a SYN makes the pcb p.  nomem: the SYN|ACK cannot be
\* queued.  Without a slot or a pcb the SYN is dropped.
InputSyn(p, nomem) ==
  /\ Input
  /\ listener # NoListener
  /\ BacklogOpen
  /\ p \in Allocable
  /\ LET w == FreeAll(World, {p})
         npcb == [st |-> "SYN_RCVD", listener |-> listener.arg, pend |-> TRUE, conn |-> None]
         registered == [w EXCEPT !.l.accepts_pending = @ + 1, !.ps[p] = npcb]
     IN Becomes(IF nomem THEN FreeAll(registered, {p}) ELSE registered)
  /\ tcp_timer_needed
  /\ UNCHANGED queueVars

\* get_stack_from_arg.
StackOf(arg) == refs[arg].alive

\* The numbers of which a new connection takes one.
NewConns ==
  {c \in Conns : /\ conns[c] = "Dead"
                 /\ \A i \in DOMAIN connQ : connQ[i] # c
                 /\ \A i \in DOMAIN packetsQ : packetsQ[i].conn # c}

\* The ACK that establishes p, and tunforge_accept: the listener may be closed
\* by now, the stack stopped, the delegate gone.
InputAck(p, delegate) ==
  /\ Input
  /\ pcbs[p].st = "SYN_RCVD"
  /\ IF pcbs[p].listener = None \/ ~StackOf(pcbs[p].listener) \/ ~delegate
       THEN /\ Becomes(FreeAll(World, {p}))
            /\ UNCHANGED connQ
       ELSE LET c == Smallest(NewConns)
                w == tcp_backlog_delayed(tcp_backlog_accepted(World, p), p)
            IN /\ NewConns # {}
               /\ Becomes([w EXCEPT !.cs[c] = "New",
                                    !.ps[p] = [@ EXCEPT !.st = "ESTABLISHED", !.conn = c]])
               /\ connQ' = Append(connQ, c)
  /\ UNCHANGED <<packetsQ, timeouts, tcpActive>>

\* A RST, which TIME_WAIT ignores, or the ACK of our FIN in LAST_ACK.
InputEnd(p) ==
  /\ Input
  /\ p \in InUse(pcbs) \ InState(pcbs, {"TIME_WAIT"})
  /\ Becomes(FreeAll(World, {p}))
  /\ UNCHANGED <<queueVars, timeouts, tcpActive>>

\* The peer's FIN, with our FIN not acknowledged yet.
InputClosing(p) ==
  /\ Input
  /\ pcbs[p].st = "FIN_WAIT"
  /\ Becomes([World EXCEPT !.ps[p].st = "CLOSING"])
  /\ UNCHANGED <<queueVars, timeouts, tcpActive>>

\* Both FINs are there, and ours is acknowledged.
InputTimeWait(p) ==
  /\ Input
  /\ pcbs[p].st \in {"FIN_WAIT", "CLOSING"}
  /\ Becomes([tcp_pcb_purge(World, p) EXCEPT !.ps[p].st = "TIME_WAIT"])
  /\ tcp_timer_needed
  /\ UNCHANGED queueVars

-----------------------------------------------------------------------------
(* The application.                                                        *)

\* didAcceptNewTCPConnection on the connections queue.  The delegate rejects
\* the connection, makes it active, or does nothing; the block that handler
\* posts for YES does nothing.
AcceptBlock(answer) ==
  /\ connQ # <<>>
  /\ connQ' = Tail(connQ)
  /\ packetsQ' = IF answer = "nothing" THEN packetsQ
                 ELSE Append(packetsQ, [op |-> answer, conn |-> Head(connQ)])
  /\ UNCHANGED <<timeVars, stackVars, worldVars, check, idle>>

PcbOf(c) == {p \in InUse(pcbs) : pcbs[p].conn = c}

\* Mutant of markActive: the slot is kept.
markActive_delayed(w, c) == IF w.cs[c] # "New" THEN w ELSE [w EXCEPT !.cs[c] = "Active"]

\* A connection that is New has a pcb.
markActive(w, c) ==
  IF w.cs[c] # "New" THEN w
  ELSE LET p == CHOOSE q \in InUse(w.ps) : w.ps[q].conn = c
       IN tcp_backlog_accepted([w EXCEPT !.cs[c] = "Active"], p)

PacketsBlock ==
  /\ QueueFree
  /\ packetsQ # <<>>
  /\ packetsQ' = Tail(packetsQ)
  /\ LET b == Head(packetsQ)
     IN Becomes(IF b.op = "abort" THEN FreeAll(World, PcbOf(b.conn))
                ELSE markActive(World, b.conn))
  /\ UNCHANGED <<timeVars, stackVars, connQ, check, idle>>

\* The accept block has handed out the connection of the pcb p, and the
\* application calls one of its methods.
Call(p) ==
  /\ QueueFree
  /\ p \in InUse(pcbs) /\ pcbs[p].conn # None
  /\ \A i \in DOMAIN connQ : connQ[i] # pcbs[p].conn
  /\ UNCHANGED <<timeVars, stackVars, queueVars, check, idle>>

\* Our FIN is sent, before or behind the peer's.
shutdownWrite(p, st) ==
  /\ Call(p)
  /\ pcbs[p].st = "ESTABLISHED" /\ st \in {"FIN_WAIT", "LAST_ACK"}
  /\ Becomes([World EXCEPT !.ps[p].st = st])

\* A FIN is sent, unless one was, or with unread data a RST.  The connection is
\* terminated and lets go of the pcb.
gracefulClose(p, st) ==
  /\ Call(p)
  /\ st \in IF pcbs[p].st = "ESTABLISHED" THEN {"FIN_WAIT", "LAST_ACK", "free"} ELSE {pcbs[p].st}
  /\ Becomes(IF st = "free" THEN FreeAll(World, {p})
             ELSE [World EXCEPT !.cs[pcbs[p].conn] = "Dead",
                                !.ps[p] = [@ EXCEPT !.st = st, !.conn = None]])

-----------------------------------------------------------------------------
(* The dispatch timer: sys_check_timeouts takes one timeout after the      *)
(* other that was due when it began.                                       *)

TimerEvent ==
  /\ QueueFree
  /\ stack.timer
  /\ check' = clock
  /\ idle' = 0
  /\ UNCHANGED <<timeVars, stackVars, worldVars, queueVars>>

Running(h) == check # NotChecking /\ Expired(check) /\ Head(timeouts).h = h

\* tcpip_tcp_timer: D are the pcbs that end because a retransmission or a state
\* times out, or tf_tcp_poll gives up on a connection that is New.
TcpTimer(D) ==
  /\ Running("tcp")
  /\ D \subseteq InUse(pcbs)
  /\ Becomes(FreeAll(World, D))
  /\ NextTurn(InUse(pcbs) # D)
  /\ UNCHANGED <<clock, stackVars, queueVars, check, idle>>

\* The pcbs that hold a slot of the backlog all have a timeout: SYN_RCVD, that
\* of tf_tcp_poll while the connection is New, and of a connection that was
\* closed while it was New, which has sent nothing but a FIN, FIN_WAIT_2 and
\* LAST_ACK or the retransmissions of that FIN.
TimesOut(p) ==
  /\ p \in InUse(pcbs) /\ pcbs[p].pend /\ pcbs[p].listener # None
  /\ pcbs[p].conn # None => conns[pcbs[p].conn] = "New"

\* lwip_cyclic_timer with ip_reass_tmr, whose own work is not modelled.
ReassTimer ==
  /\ Running("reass")
  /\ NextTurn(TRUE)
  /\ UNCHANGED <<clock, stackVars, worldVars, queueVars, check, idle>>

CheckDone ==
  /\ check # NotChecking
  /\ ~Expired(check)
  /\ check' = NotChecking
  /\ UNCHANGED <<timeVars, stackVars, worldVars, queueVars, idle>>

\* Time passes, also while timeouts are served.  While the timer runs it is
\* served at most MaxLag late; without a timer any time may pass.
TimePasses ==
  /\ stack.timer => idle < MaxIdle
  /\ Tick
  /\ idle' = IF stack.timer THEN idle + 1 ELSE 0
  /\ UNCHANGED <<timeouts, tcpActive, stackVars, worldVars, queueVars, check>>

-----------------------------------------------------------------------------

\* initPrivate.
Init ==
  /\ TimeoutsInit
  /\ stack = [stackRef |-> 1, ready |-> FALSE, state |-> None, timer |-> FALSE]
  /\ refs = [r \in Refs |-> [alive |-> r = 1, retains |-> 0]]
  /\ netif = [listed |-> FALSE, state |-> None]
  /\ listener = NoListener
  /\ pcbs = [p \in Pcbs |-> Free]
  /\ conns = [c \in Conns |-> "Dead"]
  /\ connQ = <<>> /\ packetsQ = <<>>
  /\ check = NotChecking
  /\ idle = 0

Next ==
  \/ start
  \/ \E D \in SUBSET Pcbs : stop(D)
  \/ \E p \in Pcbs, nomem \in BOOLEAN : InputSyn(p, nomem)
  \/ \E p \in Pcbs, delegate \in BOOLEAN : InputAck(p, delegate)
  \/ \E p \in Pcbs : InputEnd(p)
  \/ \E p \in Pcbs : InputClosing(p)
  \/ \E p \in Pcbs : InputTimeWait(p)
  \/ \E answer \in {"abort", "markActive", "nothing"} : AcceptBlock(answer)
  \/ PacketsBlock
  \/ \E p \in Pcbs, st \in {"FIN_WAIT", "LAST_ACK"} : shutdownWrite(p, st)
  \/ \E p \in Pcbs, st \in {"FIN_WAIT", "CLOSING", "LAST_ACK", "TIME_WAIT", "free"} :
       gracefulClose(p, st)
  \/ TimerEvent
  \/ \E D \in SUBSET Pcbs : TcpTimer(D)
  \/ ReassTimer
  \/ CheckDone
  \/ TimePasses

Spec == Init /\ [][Next]_vars

\* Time passes, a running dispatch timer is served, a sys_check_timeouts runs to
\* its end, and a pcb that holds a slot is not passed over for ever, since every
\* timeout counts the rounds.  Nothing is assumed of the peers and of the
\* application.
FairSpec ==
  /\ Spec
  /\ WF_vars(TimePasses)
  /\ WF_vars(TimerEvent)
  /\ WF_vars(\E D \in SUBSET Pcbs : TcpTimer(D))
  /\ WF_vars(ReassTimer)
  /\ WF_vars(CheckDone)
  /\ \A p \in Pcbs : SF_vars(TimesOut(p) /\ \E D \in SUBSET Pcbs : p \in D /\ TcpTimer(D))

-----------------------------------------------------------------------------
(* Properties.                                                             *)

\* The variables stay in their types.
TypeOK ==
  /\ clock \in 0 .. TICKS - 1
  /\ tcpActive \in BOOLEAN
  /\ timeouts \in Seq([h : {"tcp", "reass"}, time : 0 .. TICKS - 1])
  /\ stack \in [stackRef : {None} \cup Refs, ready : BOOLEAN, state : {None} \cup Refs,
                timer : BOOLEAN]
  /\ refs \in [Refs -> [alive : BOOLEAN, retains : 0 .. 1]]
  /\ netif \in [listed : BOOLEAN, state : {None} \cup Refs]
  /\ listener \in [arg : {None} \cup Refs, accepts_pending : 0 .. BACKLOG]
  /\ pcbs \in [Pcbs -> Pcb \cup {Free}]
  /\ conns \in [Conns -> {"New", "Active", "Dead"}]
  /\ connQ \in Seq(Conns)
  /\ packetsQ \in Seq([op : {"abort", "markActive"}, conn : Conns])
  /\ check \in 0 .. TICKS - 1 \cup {NotChecking}
  /\ idle \in 0 .. MaxIdle

\* Every arg from which lwIP gets back to the stack leads to a TFObjectRef that
\* is still owned, however start, stop, SYNs and ACKs follow each other: the
\* netif's state, the listener's arg, and the arg of a half-open connection that
\* would still be accepted (get_stack_from_arg reads the ref without owning it).
\* A ref that is not stackRef and not in use is not owned any more.
ArgsOwned ==
  /\ netif.listed => Owned(netif.state)
  /\ listener # NoListener => Owned(listener.arg)
  /\ \A p \in InState(pcbs, {"SYN_RCVD"}) : pcbs[p].listener # None => Owned(pcbs[p].listener)
  /\ \A r \in Refs : refs[r].retains = IF netif.listed /\ netif.state = r THEN 1 ELSE 0

\* accepts_pending counts exactly the connections that hold a slot of this
\* listener, over failed SYN|ACKs, resets, aborts, timeouts, closes, kills by
\* tcp_alloc and restarts: tcp_backlog_delayed says "the caller is responsible
\* for calling tcp_backlog_accepted() or else the backlog feature will get out
\* of sync!".
BacklogCounted ==
  /\ listener.accepts_pending =
       Cardinality({p \in InUse(pcbs) : pcbs[p].pend /\ pcbs[p].listener # None})
  /\ \A p \in InUse(pcbs) : pcbs[p].listener \in {None, listener.arg}

\* tcpip_tcp_timer is in the list once while it is active, and it is active
\* while there is a pcb that needs it: a pcb never waits for a timer that is
\* gone, and a restart does not add a second one.
TcpTimerKept ==
  /\ Cardinality({i \in DOMAIN timeouts : timeouts[i].h = "tcp"}) = IF tcpActive THEN 1 ELSE 0
  /\ InUse(pcbs) # {} => tcpActive

\* While the stack is started every timeout of the list is less than two rounds
\* of the dispatch timer late, and not further ahead than its interval and
\* these two rounds, across the wraparound of the clock and however long the
\* stack was stopped before.
TimeoutsOnTime ==
  stack.timer =>
    \A i \in DOMAIN timeouts :
      LET t == timeouts[i]
      IN \/ Ahead(clock, t.time) < 2 * MaxIdle
         \/ Ahead(t.time, clock) < Interval(t.h) + 2 * MaxIdle

\* A full backlog opens again whatever the peers and the delegate do or leave
\* undone: half-open, ignored and closing connections all come to their end,
\* unless the clock comes to stand still at the largest u32_t, where timeouts
\* never are due (see Tick).
BacklogFrees ==
  \/ <>[](clock = TICKS - 1)
  \/ listener.accepts_pending = BACKLOG ~> listener.accepts_pending < BACKLOG
=============================================================================
