------------------------------ MODULE PulseTimer ------------------------------
(***************************************************************************)
(* What a Heartbeat promises to its clients, without its thread, mutex or  *)
(* condition variable: a timer that is off, on or dead, and a callback     *)
(* that is entered only while the timer is on.  A callback that is already *)
(* running is not recalled when the timer is switched off or killed.       *)
(***************************************************************************)

VARIABLES
  power,    \* "off", "on" or "dead"
  calling   \* is the callback executing?

vars == <<power, calling>>

Init ==
  /\ power = "off"
  /\ calling = FALSE

(* A dead timer is never switched on again. *)
SwitchOn ==
  /\ power = "off"
  /\ power' = "on"
  /\ UNCHANGED calling

SwitchOff ==
  /\ power = "on"
  /\ power' = "off"
  /\ UNCHANGED calling

Kill ==
  /\ power # "dead"
  /\ power' = "dead"
  /\ UNCHANGED calling

PulseBegins ==
  /\ power = "on"
  /\ ~calling
  /\ calling' = TRUE
  /\ UNCHANGED power

PulseEnds ==
  /\ calling
  /\ calling' = FALSE
  /\ UNCHANGED power

Next ==
  \/ SwitchOn
  \/ SwitchOff
  \/ Kill
  \/ PulseBegins
  \/ PulseEnds

(* A pulse that has begun ends, and a dead timer falls silent for good. *)
Spec == Init /\ [][Next]_vars /\ WF_vars(PulseEnds)
===============================================================================
