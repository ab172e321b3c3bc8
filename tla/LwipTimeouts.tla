---------------------------- MODULE LwipTimeouts ----------------------------
(***************************************************************************)
(* lwIP's timeout list (timeouts.c) on the millisecond clock of sys_arch.c *)
(* (sys_now).  The list holds the TCP timer, while there are connections,  *)
(* and the cyclic timer of IP reassembly.  Times are taken modulo TICKS.   *)
(***************************************************************************)
EXTENDS Integers, SequencesExt

CONSTANTS
  TICKS,    \* 2^32 in the code
  TCP_TMR_INTERVAL,
  IP_TMR_INTERVAL

ASSUME TimeoutsAssumption ==
  /\ TCP_TMR_INTERVAL \in Nat \ {0} /\ IP_TMR_INTERVAL \in Nat \ {0}
  /\ TICKS \in Nat /\ TICKS % 2 = 0
  /\ 4 * TCP_TMR_INTERVAL < TICKS /\ 4 * IP_TMR_INTERVAL < TICKS

VARIABLES
  clock,        \* the value of sys_now()
  timeouts,     \* next_timeout: the list, a sequence of [h, time]
  tcpActive     \* tcpip_tcp_timer_active

timeVars == <<clock, timeouts, tcpActive>>

After(t, ms) == (t + ms) % TICKS

Ahead(t, u) == (t - u) % TICKS

TIME_LESS_THAN(t, compare_to) == Ahead(t, compare_to) > TICKS \div 2 - 1

Interval(h) == IF h = "tcp" THEN TCP_TMR_INTERVAL ELSE IP_TMR_INTERVAL

\* The timeout goes in front of the first that is due later.
sys_timeout_abs(list, h, time) ==
  LET Later(t) == TIME_LESS_THAN(time, t.time)
      i == SelectInSeq(list, Later)
      t == [h |-> h, time |-> time]
  IN IF i = 0 THEN Append(list, t) ELSE InsertAt(list, i, t)

sys_timeout(list, h) == sys_timeout_abs(list, h, After(clock, Interval(h)))

\* The next turn of a cyclic timer counts from when this one was due, unless
\* that is over already.
lwip_cyclic_timer(list, h, due) ==
  LET next == After(due, Interval(h)) IN
  IF TIME_LESS_THAN(next, clock)
    THEN sys_timeout(list, h)
    ELSE sys_timeout_abs(list, h, next)

\* Mutant of sys_restart_timeouts: the times are kept.
sys_restart_timeouts_none(list) == list

\* The times are shifted so that the first timeout is due now.
sys_restart_timeouts(list) ==
  [i \in 1 .. Len(list) |->
     [list[i] EXCEPT !.time = After(clock, Ahead(list[i].time, list[1].time))]]

\* Mutant of tcp_timer_needed: a timer that is running is not noticed.
tcp_timer_needed_again ==
  /\ tcpActive' = TRUE
  /\ timeouts' = sys_timeout(timeouts, "tcp")

\* Called when a connection is put on a list.
tcp_timer_needed ==
  /\ tcpActive' = TRUE
  /\ timeouts' = IF tcpActive THEN timeouts ELSE sys_timeout(timeouts, "tcp")

Expired(now) == timeouts # <<>> /\ ~TIME_LESS_THAN(now, Head(timeouts).time)

\* tcpip_tcp_timer behind tcp_tmr, and the restart of ip_reass_tmr: the list
\* without its head, and with the timer's next turn.
NextTurn(needed) ==
  LET t == Head(timeouts) IN
  IF t.h = "tcp"
    THEN /\ tcpActive' = needed
         /\ timeouts' = IF needed THEN sys_timeout(Tail(timeouts), "tcp") ELSE Tail(timeouts)
    ELSE /\ tcpActive' = tcpActive
         /\ timeouts' = lwip_cyclic_timer(Tail(timeouts), t.h, t.time)

\* sys_now: the cast of the elapsed milliseconds to u32_t is only defined
\* while they fit.  Behind that a build for x86-64 gets the low bits, and one
\* for arm64 the largest u32_t from then on.
Tick == clock' \in {After(clock, 1)} \cup (IF clock = TICKS - 1 THEN {clock} ELSE {})

\* lwip_init.
TimeoutsInit ==
  /\ clock = 0
  /\ timeouts = <<[h |-> "reass", time |-> IP_TMR_INTERVAL]>>
  /\ tcpActive = FALSE
=============================================================================
