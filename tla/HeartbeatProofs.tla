---------------------------- MODULE HeartbeatProofs ----------------------------
(***************************************************************************)
(* Proofs about Heartbeat for every set of clients and callbacks: its type *)
(* invariant, the safety of its wake-ups, and that it implements the       *)
(* safety part of PulseTimer.                                              *)
(***************************************************************************)
EXTENDS Heartbeat, TLAPS

(* Only the destructor lowers the level to Terminated, and nothing raises   *)
(* it again.                                                                *)
TerminatedByDestructor ==
  /\ vigilance = Terminated => life # "alive"
  /\ life \in {"joining", "gone"} => vigilance = Terminated

(* The inductive invariant.                                                 *)
IInv ==
  /\ TypeOK
  /\ NoLostWakeup
  /\ TerminatedByDestructor

(* The initial states satisfy the inductive invariant.                      *)
LEMMA InitIInv == Init => IInv
<1> SUFFICES ASSUME Init
             PROVE  IInv
  OBVIOUS
<1> USE DEF Init, Terminated, Active, Running, Resetting
<1>1. TypeOK
  BY DEF TypeOK
<1>2. NoLostWakeup
  BY DEF NoLostWakeup
<1>3. TerminatedByDestructor
  BY DEF TerminatedByDestructor
<1> QED
  BY <1>1, <1>2, <1>3 DEF IInv

(* The two places where the loop thread settles keep the invariant, given   *)
(* what they do to the copy of the callback.                                *)
LEMMA SettleIInv ==
  ASSUME IInv, Settle, UNCHANGED clientVars, fn' \in {fn, NoCallback}
  PROVE  IInv'
  BY HeartbeatAssumption
     DEF IInv, TypeOK, NoLostWakeup, TerminatedByDestructor, Settle, clientVars,
         Terminated, Active, Running, Resetting

(* Every step keeps the inductive invariant.                                *)
LEMMA NextIInv == IInv /\ [Next]_vars => IInv'
<1> SUFFICES ASSUME IInv, [Next]_vars
             PROVE  IInv'
  OBVIOUS
<1> USE HeartbeatAssumption
    DEF IInv, TypeOK, NoLostWakeup, TerminatedByDestructor, Terminated, Active, Running, Resetting
<1>1. ASSUME NEW c \in Client, Stop(c)
      PROVE  IInv'
  BY <1>1 DEF Stop, StopSection, NotifyAll, MayCall, Blocked, clientVars, loopVars
<1>2. ASSUME NEW c \in Client, Start(c)
      PROVE  IInv'
  BY <1>2 DEF Start, StartSection, NotifyAll, MayCall, Blocked, clientVars, loopVars
<1>3. ASSUME NEW c \in Client, SetCallback(c)
      PROVE  IInv'
  BY <1>3 DEF SetCallback, MayCall, loopVars
<1>4. ASSUME NEW c \in Client, StartStored(c)
      PROVE  IInv'
  BY <1>4 DEF StartStored, StartSection, NotifyAll, Blocked, loopVars
<1>5. ASSUME NEW c \in Client, Restart(c)
      PROVE  IInv'
  BY <1>5 DEF Restart, RestartSection, NotifyAll, MayCall, Blocked, clientVars, loopVars
<1>6. CASE Terminate
  BY <1>6 DEF Terminate, NotifyAll, Blocked, loopVars
<1>7. CASE Join
  BY <1>7 DEF Join, loopVars
<1>8. CASE EnterLoop
  BY <1>8, SettleIInv DEF EnterLoop
<1>9. CASE WakeFromWait
  BY <1>9, SettleIInv DEF WakeFromWait
<1>10. CASE WakeFromWaitFor
  <2>1. CASE Pulse
    BY <1>10, <2>1 DEF WakeFromWaitFor, Pulse, clientVars
  <2>2. CASE Settle /\ UNCHANGED fn
    BY <1>10, <2>2, SettleIInv DEF WakeFromWaitFor
  <2> QED
    BY <1>10, <2>1, <2>2 DEF WakeFromWaitFor
<1>11. CASE CallbackReturns
  BY <1>11, SettleIInv DEF CallbackReturns
<1>12. CASE TimeoutElapses
  BY <1>12 DEF TimeoutElapses, clientVars
<1>13. CASE CallbackStops
  BY <1>13 DEF CallbackStops, StopSection, NotifyAll, Blocked, clientVars, loopVars
<1>14. CASE CallThrows
  BY <1>14 DEF CallThrows
<1>15. CASE UNCHANGED vars
  BY <1>15 DEF vars, clientVars, loopVars
<1> QED
  BY <1>1, <1>2, <1>3, <1>4, <1>5, <1>6, <1>7, <1>8, <1>9, <1>10, <1>11,
     <1>12, <1>13, <1>14, <1>15
     DEF Next, ClientStep, LoopStep

-------------------------------------------------------------------------------
(* The inductive invariant holds in every reachable state.                  *)
THEOREM Invariance == Spec => []IInv
  BY InitIInv, NextIInv, PTL DEF Spec

(* Every variable keeps its type.                                           *)
THEOREM TypeCorrect == Spec => []TypeOK
<1>1. IInv => TypeOK
  BY DEF IInv
<1> QED
  BY <1>1, Invariance, PTL

(* The loop thread never sleeps through a change it has to react to.        *)
THEOREM WakeUpsAreKept == Spec => []NoLostWakeup
<1>1. IInv => NoLostWakeup
  BY DEF IInv
<1> QED
  BY <1>1, Invariance, PTL

-------------------------------------------------------------------------------
(* Every step of the heartbeat is a step of the abstract timer or leaves it *)
(* alone.                                                                   *)
LEMMA StepImplementsTimer ==
  IInv /\ [Next]_vars => [Timer!Next]_(Timer!vars)
<1> SUFFICES ASSUME IInv, [Next]_vars
             PROVE  [Timer!Next]_(Timer!vars)
  OBVIOUS
<1> USE DEF IInv, TypeOK, Timer!Next, Timer!vars, powerBar,
            Terminated, Active, Running, Resetting
<1>1. ASSUME NEW c \in Client, Stop(c)
      PROVE  [Timer!Next]_(Timer!vars)
  BY <1>1 DEF Stop, StopSection, loopVars, Timer!SwitchOff
<1>2. ASSUME NEW c \in Client, Start(c) \/ StartStored(c)
      PROVE  [Timer!Next]_(Timer!vars)
  BY <1>2 DEF Start, StartStored, StartSection, loopVars, Timer!SwitchOn
<1>3. ASSUME NEW c \in Client, SetCallback(c) \/ Restart(c)
      PROVE  [Timer!Next]_(Timer!vars)
  BY <1>3 DEF SetCallback, Restart, RestartSection, loopVars
<1>4. CASE Terminate
  BY <1>4 DEF Terminate, TerminatedByDestructor, loopVars, Timer!Kill
<1>5. CASE Join \/ TimeoutElapses
  BY <1>5 DEF Join, TimeoutElapses, loopVars
<1>6. CASE EnterLoop \/ WakeFromWait
  BY <1>6 DEF EnterLoop, WakeFromWait, Settle
<1>7. CASE WakeFromWaitFor
  BY <1>7 DEF WakeFromWaitFor, Pulse, Settle, Timer!PulseBegins
<1>8. CASE CallbackStops
  BY <1>8 DEF CallbackStops, StopSection, loopVars, Timer!SwitchOff
<1>9. CASE CallbackReturns \/ CallThrows
  BY <1>9 DEF CallbackReturns, CallThrows, Settle, Timer!PulseEnds
<1>10. CASE UNCHANGED vars
  BY <1>10 DEF vars, loopVars
<1> QED
  BY <1>1, <1>2, <1>3, <1>4, <1>5, <1>6, <1>7, <1>8, <1>9, <1>10
     DEF Next, ClientStep, LoopStep

(* Heartbeat implements the safety part of PulseTimer: pulses begin only    *)
(* while the timer is on, and a dead timer stays dead.                      *)
THEOREM TimerSafety == Spec => Timer!Init /\ [][Timer!Next]_(Timer!vars)
<1>1. Init => Timer!Init
  BY DEF Init, Timer!Init, powerBar, Terminated, Active, Running, Resetting
<1> QED
  BY <1>1, StepImplementsTimer, Invariance, PTL DEF Spec
===============================================================================
