------------------------ MODULE TCPConnectionContract ------------------------
(***************************************************************************)
(* What TFTCPConnection.h promises to the upper layer about its callbacks, *)
(* without queues, pcbs or timers: an abstract specification that          *)
(* TunForgeTCP implements.                                                 *)
(*                                                                         *)
(* Callbacks are made one at a time.  While the connection is alive they   *)
(* are onActivated, at most once; data and sent bytes only after it; and   *)
(* onReadEOF, at most once and after the last data.  When the connection   *)
(* has died, the callback that had begun returns, and then only            *)
(* onTerminated is made, once.                                             *)
(***************************************************************************)

VARIABLES
  alive,        \* the connection may still be used
  callback,     \* the callback being made, or "none"
  activated,    \* onActivated has been called
  eof,          \* onReadEOF has been called
  terminated    \* onTerminated has been called

vars == <<alive, callback, activated, eof, terminated>>

Kinds == {"activated", "data", "writable", "sent", "eof", "terminated"}

Init ==
  /\ alive = TRUE
  /\ callback = "none"
  /\ activated = FALSE
  /\ eof = FALSE
  /\ terminated = FALSE

\* For whatever reason: close, abort, reset, timeout, pcb destroyed.
Die ==
  /\ alive
  /\ alive' = FALSE
  /\ UNCHANGED <<callback, activated, eof, terminated>>

May(kind) ==
  CASE kind = "activated"  -> alive /\ ~activated
    [] kind = "data"       -> alive /\ activated /\ ~eof
    [] kind = "sent"       -> alive /\ activated
    [] kind = "writable"   -> alive
    [] kind = "eof"        -> alive /\ ~eof
    [] kind = "terminated" -> ~alive /\ ~terminated

Begin(kind) ==
  /\ callback = "none"
  /\ May(kind)
  /\ callback' = kind
  /\ UNCHANGED <<alive, activated, eof, terminated>>

Return ==
  /\ callback # "none"
  /\ callback' = "none"
  /\ activated' = (activated \/ callback = "activated")
  /\ eof' = (eof \/ callback = "eof")
  /\ terminated' = (terminated \/ callback = "terminated")
  /\ UNCHANGED alive

Next == Die \/ Return \/ \E kind \in Kinds : Begin(kind)

Spec == Init /\ [][Next]_vars
=============================================================================
