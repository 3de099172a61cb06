------------------------------- MODULE Heartbeat -------------------------------
(***************************************************************************)
(* The class Heartbeat (Utility/Heartbeat.h, Heartbeat.cpp): a thread that *)
(* calls a callback periodically, driven by a vigilance level that clients *)
(* change under a mutex and announce on a condition variable.              *)
(*                                                                         *)
(* Every critical section of m_Mutex is one action: the loop thread        *)
(* releases the mutex only while it is blocked in one of its two waits and *)
(* while it runs the callback, so its program counter is the place where   *)
(* it has let go of the mutex.  Time is abstracted to one bit, "has the    *)
(* timeout of the current wait_for elapsed?".                              *)
(***************************************************************************)
EXTENDS Naturals

CONSTANTS
  Client,      \* the threads that own a reference to the Heartbeat
  Callback,    \* the non-empty std::function values clients pass to Start
  NoCallback,  \* the empty std::function
  Spurious     \* may the condition variable wake its waiter spontaneously?

ASSUME HeartbeatAssumption ==
  /\ Callback # {}
  /\ NoCallback \notin Callback
  /\ Spurious \in BOOLEAN

(* The vigilance states, "in ascending order". *)
Terminated == 0
Active     == 1
Running    == 2
Resetting  == 3

VARIABLES
  vigilance,  \* m_vigilance
  callback,   \* m_Callback
  loopPc,     \* where loop() has released m_Mutex
  signal,     \* "sent" once the blocked loop thread has been notified
  timeout,    \* whether the timeout of the current wait_for has elapsed
  fn,         \* the copy of m_Callback that loop() is calling
  clientPc,   \* where each client is in the two-section Start(callback)
  life        \* "alive", "joining" inside the destructor, "gone" after it,
              \* "aborted" once an exception has left the thread

clientVars == <<callback, clientPc, life>>
loopVars   == <<loopPc, timeout, fn>>
vars == <<vigilance, signal, clientVars, loopVars>>

Blocked == {"wait", "waitFor"}

TypeOK ==
  /\ vigilance \in Terminated..Resetting
  /\ callback \in Callback \cup {NoCallback}
  /\ loopPc \in {"start", "wait", "waitFor", "call", "done"}
  /\ signal \in {"none", "sent"}
  /\ timeout \in {"pending", "elapsed"}
  /\ fn \in Callback \cup {NoCallback}
  /\ clientPc \in [Client -> {"idle", "starting"}]
  /\ life \in {"alive", "joining", "gone", "aborted"}

-------------------------------------------------------------------------------
(* The constructor starts the thread after every member is initialised; the *)
(* callback it is given may be empty.                                       *)
Init ==
  /\ vigilance = Active
  /\ callback \in Callback \cup {NoCallback}
  /\ loopPc = "start"
  /\ signal = "none"
  /\ timeout = "pending"
  /\ fn = NoCallback
  /\ clientPc = [c \in Client |-> "idle"]
  /\ life = "alive"

-------------------------------------------------------------------------------
(* Client operations. *)

(* m_Condition.notify_all(): only the loop thread ever waits on it. *)
NotifyAll == signal' = IF loopPc \in Blocked THEN "sent" ELSE signal

(* Operators named Mut* are plausible slips in the definition that follows; *)
(* the mutation runs put them in its place and expect a property to fail.   *)
MutStopSection ==
  vigilance' = Active /\ NotifyAll

(* The body of Stop(), whichever thread calls it. *)
StopSection ==
  IF vigilance > Active
    THEN vigilance' = Active /\ NotifyAll
    ELSE UNCHANGED <<vigilance, signal>>

MutStartSilent ==
  IF callback # NoCallback /\ vigilance = Active
    THEN vigilance' = Running /\ UNCHANGED signal
    ELSE UNCHANGED <<vigilance, signal>>

(* The body of Start(). *)
StartSection ==
  IF callback # NoCallback /\ vigilance = Active
    THEN vigilance' = Running /\ NotifyAll
    ELSE UNCHANGED <<vigilance, signal>>

(* The body of Restart(). *)
RestartSection ==
  IF vigilance >= Running /\ callback # NoCallback
    THEN vigilance' = Resetting /\ NotifyAll
    ELSE UNCHANGED <<vigilance, signal>>

MayCall(c) == life = "alive" /\ clientPc[c] = "idle"

Stop(c) ==
  /\ MayCall(c)
  /\ StopSection
  /\ UNCHANGED <<clientVars, loopVars>>

Start(c) ==
  /\ MayCall(c)
  /\ StartSection
  /\ UNCHANGED <<clientVars, loopVars>>

(* Start(callback) stores the callback, empty or not, in a first critical   *)
(* section and enters Start() in a second one.                              *)
SetCallback(c) ==
  /\ MayCall(c)
  /\ callback' \in Callback \cup {NoCallback}
  /\ clientPc' = [clientPc EXCEPT ![c] = "starting"]
  /\ UNCHANGED <<vigilance, signal, life, loopVars>>

StartStored(c) ==
  /\ life = "alive"
  /\ clientPc[c] = "starting"
  /\ StartSection
  /\ clientPc' = [clientPc EXCEPT ![c] = "idle"]
  /\ UNCHANGED <<callback, life, loopVars>>

Restart(c) ==
  /\ MayCall(c)
  /\ RestartSection
  /\ UNCHANGED <<clientVars, loopVars>>

(* The destructor: it may only begin when no client is inside a call.       *)
Terminate ==
  /\ life = "alive"
  /\ \A c \in Client : clientPc[c] = "idle"
  /\ vigilance' = Terminated
  /\ NotifyAll
  /\ life' = "joining"
  /\ UNCHANGED <<callback, clientPc, loopVars>>

Join ==
  /\ life = "joining"
  /\ loopPc = "done"
  /\ life' = "gone"
  /\ UNCHANGED <<vigilance, signal, callback, clientPc, loopVars>>

-------------------------------------------------------------------------------
(* The loop thread.                                                         *)

(* With the mutex held and no pulse due, the thread leaves when Terminated, *)
(* blocks on the condition while Active, and otherwise absorbs a reset and  *)
(* begins a timed wait.                                                     *)
Settle ==
  /\ signal' = "none"
  /\ timeout' = "pending"
  /\ \/ /\ vigilance = Terminated
        /\ loopPc' = "done"
        /\ UNCHANGED vigilance
     \/ /\ vigilance = Active
        /\ loopPc' = "wait"
        /\ UNCHANGED vigilance
     \/ /\ vigilance >= Running
        /\ loopPc' = "waitFor"
        /\ vigilance' = Running

EnterLoop ==
  /\ loopPc = "start"
  /\ Settle
  /\ UNCHANGED <<fn, clientVars>>

WakeFromWait ==
  /\ loopPc = "wait"
  /\ signal = "sent" \/ Spurious
  /\ Settle
  /\ UNCHANGED <<fn, clientVars>>

TimeoutElapses ==
  /\ loopPc = "waitFor"
  /\ timeout = "pending"
  /\ timeout' = "elapsed"
  /\ UNCHANGED <<vigilance, signal, loopPc, fn, clientVars>>

MutPulseAfterStop ==
  /\ vigilance # Terminated
  /\ fn' = callback
  /\ loopPc' = "call"
  /\ signal' = "none"
  /\ UNCHANGED <<vigilance, timeout>>

Pulse ==
  /\ vigilance = Running
  /\ fn' = callback
  /\ loopPc' = "call"
  /\ signal' = "none"
  /\ UNCHANGED <<vigilance, timeout>>


(* The return value of wait_for is not looked at: whatever woke the thread, *)
(* it pulses if it finds the level at Running.                              *)
WakeFromWaitFor ==
  /\ loopPc = "waitFor"
  /\ signal = "sent" \/ timeout = "elapsed" \/ Spurious
  /\ \/ Pulse
     \/ vigilance # Running /\ Settle /\ UNCHANGED fn
  /\ UNCHANGED clientVars

(* The callback runs without the mutex and may itself call Stop(), as       *)
(* LPGesture's momentum callback does, even while the destructor is waiting.*)
CallbackStops ==
  /\ loopPc = "call"
  /\ fn # NoCallback
  /\ StopSection
  /\ UNCHANGED <<clientVars, loopVars>>

CallbackReturns ==
  /\ loopPc = "call"
  /\ fn # NoCallback
  /\ Settle
  /\ fn' = NoCallback
  /\ UNCHANGED clientVars

(* Calling an empty std::function throws out of the thread, and that ends   *)
(* the program.                                                             *)
CallThrows ==
  /\ loopPc = "call"
  /\ fn = NoCallback
  /\ loopPc' = "done"
  /\ life' = "aborted"
  /\ UNCHANGED <<vigilance, signal, callback, clientPc, timeout, fn>>

-------------------------------------------------------------------------------
LoopStep ==
  \/ EnterLoop
  \/ WakeFromWait
  \/ WakeFromWaitFor
  \/ CallbackReturns
  \/ CallThrows

ClientStep ==
  \E c \in Client :
    \/ Stop(c)
    \/ Start(c)
    \/ SetCallback(c)
    \/ StartStored(c)
    \/ Restart(c)

Next ==
  \/ ClientStep
  \/ Terminate
  \/ Join
  \/ LoopStep
  \/ TimeoutElapses
  \/ CallbackStops

(* The scheduler runs the loop thread whenever it is runnable, time passes, *)
(* callbacks return, and a thread inside the destructor gets to join.       *)
Fairness ==
  /\ WF_vars(LoopStep)
  /\ WF_vars(TimeoutElapses)
  /\ WF_vars(Join)

Spec == Init /\ [][Next]_vars /\ Fairness

-------------------------------------------------------------------------------
(* Properties. *)

(* No wake-up is lost: a level that asks the sleeping loop thread to run or *)
(* to exit, or a reset of its timed wait, always comes with a notification. *)
NoLostWakeup ==
  /\ loopPc = "wait" /\ vigilance # Active => signal = "sent"
  /\ loopPc = "waitFor" /\ vigilance # Running => signal = "sent"

(* The destructor returns, unless an empty callback ends the program first, *)
(* even when the pulse in flight calls Stop() after the level has dropped   *)
(* to Terminated: Stop() must not raise it again.                           *)
DestructorReturns == (life = "joining") ~> (life \in {"gone", "aborted"})


(* The mapping to the abstract timer: its power is the vigilance level.     *)
powerBar ==
  CASE vigilance = Terminated -> "dead"
    [] vigilance = Active     -> "off"
    [] OTHER                  -> "on"

Timer == INSTANCE PulseTimer
           WITH power <- powerBar, calling <- (loopPc = "call")

(* The thread, its waits and its notifications implement PulseTimer: after  *)
(* Stop() returns no new pulse begins until a Start() succeeds.             *)
ImplementsTimer == Timer!Spec
===============================================================================
