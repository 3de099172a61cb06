------------------------------- MODULE LPGesture -------------------------------
(***************************************************************************)
(* The class LPGesture (OSInteraction/LPGesture.h, LPGesture.cpp): it       *)
(* turns begin, apply and end calls into the phased gesture events of the  *)
(* operating system, and lets a scroll run on as momentum, driven by the   *)
(* callback of a Heartbeat on a thread of its own.                         *)
(*                                                                         *)
(* m_scrollMutex covers applyScroll only.  begin() and end() read and      *)
(* write the same fields without it, so each is a sequence of steps that   *)
(* breaks at every call into the timer or into applyScroll; applyScroll    *)
(* itself breaks between deciding, posting and advancing the phases.       *)
(* Motions and speeds are classes 0..MaxSpeed: 0 is no motion at all and 1 *)
(* is below the 1.5 pixels at which momentum stops; a momentum tick lowers *)
(* the class by one (the code multiplies by 0.98 or 0.96).                 *)
(***************************************************************************)
EXTENDS Naturals, Sequences

CONSTANTS
  Caller,       \* the threads that call the gesture's methods
  Canceller,    \* those that only ever call end(), as the user interface does
  MaxSpeed,     \* number of speed classes above "no motion"
  HistorySize   \* capacity of m_momentumHistory (11 in the code)

ASSUME LPGestureAssumption ==
  /\ MaxSpeed \in Nat \ {0}
  /\ HistorySize \in Nat \ {0}
  /\ Canceller \subseteq Caller
  /\ "Timer" \notin Caller
  /\ "Nobody" \notin Caller

VARIABLES
  type,            \* m_type
  phase,           \* m_phase
  mphase,          \* m_momentumPhase
  speed,           \* the class of m_momentum
  history,         \* m_momentumHistory, the classes of its deltas
  scrollLock,      \* the owner of m_scrollMutex, or "Nobody"
  scroll,          \* where each thread is in applyScroll
  motion,          \* the argument of each thread's applyScroll
  pc,              \* where each caller is in begin, apply or end
  gestureStream,   \* phase of the last posted gesture event
  momentumStream,  \* momentum phase of the last posted momentum event
  late             \* "yes" if a tick was inside applyScroll when the gesture
                   \* began; read by the properties only

(* The variables of the momentum timer. *)
VARIABLES vigilance, callback, loopPc, signal, timeout, fn, clientPc, life

HB == INSTANCE Heartbeat
        WITH Client <- Caller, Callback <- {"noop", "applyMomentum"},
             NoCallback <- "empty", Spurious <- FALSE

timerVars  == <<vigilance, callback, loopPc, signal, timeout, fn, clientPc, life>>
streamVars == <<gestureStream, momentumStream, late>>
scrollVars == <<scrollLock, scroll, motion>>
fieldVars  == <<type, phase, mphase, speed, history>>
vars == <<fieldVars, scrollVars, pc, streamVars, timerVars>>

Thread      == Caller \cup {"Timer"}
GestureType == {"None", "Scroll", "Zoom", "Rotate",
                "DesktopSwipeHorizontal", "DesktopSwipeVertical"}
Swipe       == {"DesktopSwipeHorizontal", "DesktopSwipeVertical"}
Phase       == {"Undefined", "Began", "Changed", "Ended", "Cancelled"}
MPhase      == {"Undefined", "Began", "Changed", "Ended"}
Motion      == 0..MaxSpeed
Still(m)    == m <= 1

TypeOK ==
  /\ type \in GestureType
  /\ phase \in Phase
  /\ mphase \in MPhase
  /\ speed \in Motion
  /\ history \in Seq(Motion \ {0}) /\ Len(history) <= HistorySize
  /\ scrollLock \in Thread \cup {"Nobody"}
  /\ scroll \in [Thread -> {"out", "want", "decided", "posted"}]
  /\ motion \in [Thread -> Motion]
  /\ pc \in [Thread -> {"idle", "apply", "beginStop", "beginScroll", "beginSet",
                        "endMark", "endStop", "endScroll", "endMomentum", "endStart",
                        "endStarting", "endReset", "endPhase"}]
  /\ gestureStream \in {"None", "Began", "Changed", "Ended", "Cancelled"}
  /\ momentumStream \in {"None", "Began", "Changed", "Ended"}
  /\ late \in {"yes", "no"}
  /\ HB!TypeOK

Init ==
  /\ type = "None"
  /\ phase = "Undefined"
  /\ mphase = "Undefined"
  /\ speed = 0
  /\ history = <<>>
  /\ scrollLock = "Nobody"
  /\ scroll = [t \in Thread |-> "out"]
  /\ motion = [t \in Thread |-> 0]
  /\ pc = [t \in Thread |-> "idle"]
  /\ gestureStream = "None"
  /\ momentumStream = "None"
  /\ late = "no"
  /\ HB!Init
  /\ callback = "noop"

-------------------------------------------------------------------------------
(* Events.                                                                  *)

(* One event with a gesture phase p and a momentum phase m reaches the      *)
(* operating system.                                                        *)
PostEvent(p, m) ==
  /\ gestureStream' = IF p = "Undefined" THEN gestureStream ELSE p
  /\ momentumStream' = IF m = "Undefined" THEN momentumStream ELSE m
  /\ UNCHANGED late

Advanced(p) == IF p = "Began" THEN "Changed" ELSE p

-------------------------------------------------------------------------------
(* applyScroll, run by a caller or by the timer thread t.                   *)

(* Thread t calls applyScroll(m): it will contend for m_scrollMutex.        *)
CallScroll(t, m) ==
  /\ scroll' = [scroll EXCEPT ![t] = "want"]
  /\ motion' = [motion EXCEPT ![t] = m]

(* As in Heartbeat, Mut* operators are slips used by the mutation runs only.*)
MutReturnScroll(t) == scroll' = [scroll EXCEPT ![t] = "out"] /\ scrollLock' = t

ReturnScroll(t) == scroll' = [scroll EXCEPT ![t] = "out"] /\ UNCHANGED scrollLock

Enter(t) == scroll' = [scroll EXCEPT ![t] = "decided"] /\ scrollLock' = t

(* Momentum that has become too slow ends.  If it was never announced it is *)
(* dropped without an event and, unless a gesture is just ending, without   *)
(* stopping the timer.                                                      *)
StopMomentum(t) ==
  /\ mphase # "Undefined"
  /\ Still(motion[t])
  /\ history' = <<>>
  /\ speed' = 0
  /\ \/ /\ mphase = "Began"
        /\ mphase' = "Undefined"
        /\ IF phase # "Ended" THEN ReturnScroll(t) ELSE Enter(t)
        /\ UNCHANGED timerVars
     \/ /\ mphase # "Began"
        /\ mphase' = "Ended"
        /\ Enter(t)
        /\ HB!StopSection
        /\ UNCHANGED <<callback, loopPc, timeout, fn, clientPc, life>>

MutDecayMomentum(t) ==
  /\ mphase # "Undefined"
  /\ ~Still(motion[t])
  /\ Enter(t)
  /\ UNCHANGED <<mphase, speed, history, timerVars>>

DecayMomentum(t) ==
  /\ mphase # "Undefined"
  /\ ~Still(motion[t])
  /\ speed' = IF speed = 0 THEN 0 ELSE speed - 1
  /\ Enter(t)
  /\ UNCHANGED <<mphase, history, timerVars>>

MutRemember(s) == history' = Append(history, s)

(* A motion of the gesture itself is remembered, the oldest one giving way, *)
(* or resets the memory when its time difference is out of range.           *)
Remember(s) ==
  history' = Append(IF Len(history) = HistorySize THEN Tail(history) ELSE history, s)

TrackGesture(t) ==
  /\ mphase = "Undefined"
  /\ phase # "Ended"
  /\ \/ /\ motion[t] = 0
        /\ history' = <<>>
        /\ speed' = 0
        /\ ReturnScroll(t)
     \/ /\ motion[t] # 0
        /\ \/ \E s \in Motion \ {0} : Remember(s) /\ UNCHANGED speed
           \/ history' = <<>> /\ speed' = 0
        /\ Enter(t)
  /\ UNCHANGED <<mphase, timerVars>>

ScrollIgnored(t) ==
  /\ type # "Scroll"
  /\ mphase = "Undefined"
  /\ ReturnScroll(t)
  /\ UNCHANGED <<mphase, speed, history, timerVars>>

ScrollEnding(t) ==
  /\ mphase = "Undefined"
  /\ phase = "Ended"
  /\ Enter(t)
  /\ UNCHANGED <<mphase, speed, history, timerVars>>

ScrollDecide(t) ==
  /\ scroll[t] = "want"
  /\ scrollLock = "Nobody"
  /\ \/ ScrollIgnored(t)
     \/ /\ type = "Scroll" \/ mphase # "Undefined"
        /\ \/ StopMomentum(t)
           \/ DecayMomentum(t)
           \/ TrackGesture(t)
           \/ ScrollEnding(t)
  /\ UNCHANGED <<type, phase, motion, pc, streamVars>>

ScrollPost(t) ==
  /\ scroll[t] = "decided"
  /\ PostEvent(phase, mphase)
  /\ scroll' = [scroll EXCEPT ![t] = "posted"]
  /\ UNCHANGED <<fieldVars, scrollLock, motion, pc, timerVars>>

ScrollAdvance(t) ==
  /\ scroll[t] = "posted"
  /\ phase' = Advanced(phase)
  /\ mphase' = CASE phase = "Began"   -> mphase
                 [] mphase = "Began"  -> "Changed"
                 [] mphase = "Ended"  -> "Undefined"
                 [] OTHER             -> mphase
  /\ scroll' = [scroll EXCEPT ![t] = "out"]
  /\ scrollLock' = "Nobody"
  /\ UNCHANGED <<type, speed, history, motion, pc, streamVars, timerVars>>

ScrollStep(t) == ScrollDecide(t) \/ ScrollPost(t) \/ ScrollAdvance(t)

-------------------------------------------------------------------------------
(* begin(type)                                                              *)

(* Methods are called one at a time by each thread, on a live object.       *)
MayCall(c) == pc[c] = "idle" /\ life = "alive"

MutBeginCall(c) ==
  /\ MayCall(c)
  /\ type = "None"
  /\ pc' = [pc EXCEPT ![c] = "beginSet"]
  /\ UNCHANGED <<fieldVars, scrollVars, streamVars, timerVars>>

(* The requested type is chosen when the fields are set: nothing before     *)
(* reads it.                                                                *)
BeginCall(c) ==
  /\ MayCall(c)
  /\ type = "None"
  /\ pc' = [pc EXCEPT ![c] = IF mphase # "Undefined" THEN "beginStop" ELSE "beginSet"]
  /\ UNCHANGED <<fieldVars, scrollVars, streamVars, timerVars>>

BeginStopTimer(c) ==
  /\ pc[c] = "beginStop"
  /\ HB!Stop(c)
  /\ CallScroll(c, 0)
  /\ pc' = [pc EXCEPT ![c] = "beginScroll"]
  /\ UNCHANGED <<fieldVars, scrollLock, streamVars>>

BeginStopped(c) ==
  /\ pc[c] = "beginScroll"
  /\ scroll[c] = "out"
  /\ pc' = [pc EXCEPT ![c] = "beginSet"]
  /\ UNCHANGED <<fieldVars, scrollVars, streamVars, timerVars>>

(* Zoom and rotation announce themselves by an empty application.  Nothing  *)
(* makes begin() wait for a tick that is inside applyScroll.                *)
BeginSet(c) ==
  /\ pc[c] = "beginSet"
  /\ late' = IF scroll["Timer"] = "out" THEN "no" ELSE "yes"
  /\ type' \in GestureType \ {"None"}
  /\ mphase' = "Undefined"
  /\ speed' = 0
  /\ history' = <<>>
  /\ pc' = [pc EXCEPT ![c] = "idle"]
  /\ \/ /\ type' \in {"Zoom", "Rotate"}
        /\ phase' = "Changed"
        /\ gestureStream' = "Began"
     \/ /\ type' \notin {"Zoom", "Rotate"}
        /\ phase' = "Began"
        /\ UNCHANGED gestureStream
  /\ UNCHANGED <<momentumStream, scrollVars, timerVars>>

-------------------------------------------------------------------------------
(* applyZoom, applyRotation, applyDesktopSwipe and applyScroll              *)

(* The callers apply what they have begun; applyDesktopSwipe needs the      *)
(* scroll mutex.                                                            *)
Apply(c) ==
  /\ MayCall(c)
  /\ \/ type \in {"Zoom", "Rotate"}
     \/ type \in Swipe /\ scrollLock = "Nobody"
  /\ PostEvent(phase, "Undefined")
  /\ phase' = Advanced(phase)
  /\ UNCHANGED <<type, mphase, speed, history, scrollVars, pc, timerVars>>

(* A mode that is scrolling goes on calling applyScroll after its gesture   *)
(* has been cancelled under it, so the type may also be None.               *)
ApplyScroll(c) ==
  /\ MayCall(c)
  /\ type \in {"None", "Scroll"}
  /\ \E m \in Motion : CallScroll(c, m)
  /\ pc' = [pc EXCEPT ![c] = "apply"]
  /\ UNCHANGED <<fieldVars, scrollLock, streamVars, timerVars>>

ApplyReturn(c) ==
  /\ pc[c] = "apply"
  /\ scroll[c] = "out"
  /\ pc' = [pc EXCEPT ![c] = "idle"]
  /\ UNCHANGED <<fieldVars, scrollVars, streamVars, timerVars>>

-------------------------------------------------------------------------------
(* end()                                                                    *)

InProgress == type # "None" /\ phase \in {"Began", "Changed"}

(* end() tests the fields and then overwrites them, without the mutex.      *)
EndCall(c) ==
  /\ MayCall(c)
  /\ InProgress
  /\ pc' = [pc EXCEPT ![c] = "endMark"]
  /\ UNCHANGED <<fieldVars, scrollVars, streamVars, timerVars>>

EndMarkScroll(c) ==
  /\ pc[c] = "endMark"
  /\ type = "Scroll"
  /\ phase' = "Ended"
  /\ pc' = [pc EXCEPT ![c] = "endStop"]
  /\ UNCHANGED <<type, mphase, speed, history, scrollVars, streamVars, timerVars>>

(* Zoom and rotation post a last application and swipes their end, possibly *)
(* as cancelled.                                                            *)
EndMarkOther(c) ==
  /\ pc[c] = "endMark"
  /\ type # "Scroll"
  /\ phase' \in IF type \in Swipe THEN {"Ended", "Cancelled"} ELSE {"Ended"}
  /\ PostEvent(phase', "Undefined")
  /\ pc' = [pc EXCEPT ![c] = "endReset"]
  /\ UNCHANGED <<type, mphase, speed, history, scrollVars, timerVars>>

EndStopTimer(c) ==
  /\ pc[c] = "endStop"
  /\ HB!Stop(c)
  /\ CallScroll(c, 0)
  /\ pc' = [pc EXCEPT ![c] = "endScroll"]
  /\ UNCHANGED <<fieldVars, scrollLock, streamVars>>

EndScrolled(c) ==
  /\ pc[c] = "endScroll"
  /\ scroll[c] = "out"
  /\ pc' = [pc EXCEPT ![c] = "endMomentum"]
  /\ UNCHANGED <<fieldVars, scrollVars, streamVars, timerVars>>

(* The delta of the history that no other one exceeds.                      *)
Largest ==
  {history[i] : i \in {j \in DOMAIN history : \A k \in DOMAIN history : history[k] <= history[j]}}

MutEndMomentum(c) ==
  /\ pc[c] = "endMomentum"
  /\ history' = <<>>
  /\ speed' \in IF history = <<>> THEN {0} ELSE Largest
  /\ mphase' = IF history = <<>> THEN mphase ELSE "Began"
  /\ pc' = [pc EXCEPT ![c] = "endReset"]
  /\ UNCHANGED <<type, phase, scrollVars, streamVars, timerVars>>

(* The largest delta of the history becomes the momentum.                   *)
EndMomentum(c) ==
  /\ pc[c] = "endMomentum"
  /\ history' = <<>>
  /\ \/ /\ history = <<>>
        /\ speed' = 0
        /\ pc' = [pc EXCEPT ![c] = "endReset"]
        /\ UNCHANGED mphase
     \/ /\ history # <<>>
        /\ speed' \in Largest
        /\ mphase' = "Began"
        /\ pc' = [pc EXCEPT ![c] = "endStart"]
  /\ UNCHANGED <<type, phase, scrollVars, streamVars, timerVars>>

EndSetCallback(c) ==
  /\ pc[c] = "endStart"
  /\ HB!SetCallback(c)
  /\ callback' = "applyMomentum"
  /\ pc' = [pc EXCEPT ![c] = "endStarting"]
  /\ UNCHANGED <<fieldVars, scrollVars, streamVars>>

EndStartTimer(c) ==
  /\ pc[c] = "endStarting"
  /\ HB!StartStored(c)
  /\ pc' = [pc EXCEPT ![c] = "endReset"]
  /\ UNCHANGED <<fieldVars, scrollVars, streamVars>>

(* Two writes, between which another thread may begin a gesture.            *)
EndReset(c) ==
  /\ pc[c] = "endReset"
  /\ type' = "None"
  /\ pc' = [pc EXCEPT ![c] = "endPhase"]
  /\ UNCHANGED <<phase, mphase, speed, history, scrollVars, streamVars, timerVars>>

EndResetPhase(c) ==
  /\ pc[c] = "endPhase"
  /\ phase' = "Undefined"
  /\ pc' = [pc EXCEPT ![c] = "idle"]
  /\ UNCHANGED <<type, mphase, speed, history, scrollVars, streamVars, timerVars>>

-------------------------------------------------------------------------------
(* The timer thread: Heartbeat::loop calling applyMomentum.                 *)

TimerLoop ==
  /\ \/ HB!EnterLoop
     \/ HB!WakeFromWait
     \/ HB!TimeoutElapses
     \/ HB!WakeFromWaitFor
  /\ UNCHANGED <<fieldVars, scrollVars, pc, streamVars>>

(* applyMomentum reads m_momentumPhase and m_momentum without the mutex.    *)
TickCheck ==
  /\ loopPc = "call"
  /\ pc["Timer"] = "idle"
  /\ mphase # "Undefined"
  /\ CallScroll("Timer", speed)
  /\ pc' = [pc EXCEPT !["Timer"] = "apply"]
  /\ UNCHANGED <<fieldVars, scrollLock, streamVars, timerVars>>

(* It returns after its applyScroll, or at once if there is no momentum.    *)
TickReturn ==
  /\ loopPc = "call"
  /\ \/ pc["Timer"] = "idle" /\ mphase = "Undefined"
     \/ pc["Timer"] = "apply" /\ scroll["Timer"] = "out"
  /\ HB!CallbackReturns
  /\ pc' = [pc EXCEPT !["Timer"] = "idle"]
  /\ UNCHANGED <<fieldVars, scrollVars, streamVars>>

(* The destructor, called when no caller is left inside a method.           *)
Destroy ==
  /\ \A c \in Caller : pc[c] = "idle"
  /\ HB!Terminate
  /\ UNCHANGED <<fieldVars, scrollVars, pc, streamVars>>

Destroyed ==
  /\ HB!Join
  /\ UNCHANGED <<fieldVars, scrollVars, pc, streamVars>>

-------------------------------------------------------------------------------
(* What a caller that is inside a method does next.                         *)
CallStep(c) ==
  \/ BeginStopTimer(c)
  \/ BeginStopped(c)
  \/ BeginSet(c)
  \/ ApplyReturn(c)
  \/ EndMarkScroll(c)
  \/ EndMarkOther(c)
  \/ EndStopTimer(c)
  \/ EndScrolled(c)
  \/ EndMomentum(c)
  \/ EndSetCallback(c)
  \/ EndStartTimer(c)
  \/ EndReset(c)
  \/ EndResetPhase(c)

NewCall(c) ==
  \/ EndCall(c)
  \/ /\ c \notin Canceller
     /\ \/ BeginCall(c)
        \/ Apply(c)
        \/ ApplyScroll(c)

Tick == TickCheck \/ TickReturn

Next ==
  \/ \E c \in Caller : NewCall(c) \/ CallStep(c)
  \/ \E t \in Thread : ScrollStep(t)
  \/ TimerLoop
  \/ Tick
  \/ Destroy
  \/ Destroyed

(* Threads that are inside a method or a tick keep running, the mutex is    *)
(* granted to a thread that contends for it, and time passes; nobody is     *)
(* obliged to start a call.  Granting needs strong fairness: the mutex is   *)
(* free again and again, not for good.                                      *)
Fairness ==
  /\ \A c \in Caller : WF_vars(CallStep(c))
  /\ \A t \in Thread : SF_vars(ScrollStep(t))
  /\ WF_vars(TimerLoop)
  /\ WF_vars(Tick)
  /\ WF_vars(Destroyed)

Spec == Init /\ [][Next]_vars /\ Fairness

-------------------------------------------------------------------------------
(* Properties.                                                              *)

(* Applications see one well-formed stream: momentum begins after the end   *)
(* of its gesture and is over before the next gesture announces itself, and *)
(* both are announced once, however the timer thread interleaves; the one   *)
(* thing a late tick may do is to swallow the Began of the gesture that     *)
(* overtook it, or of that gesture's momentum.                              *)
Stream == INSTANCE GestureStream
            WITH gesture <- gestureStream, momentum <- momentumStream
StreamWellFormed == Stream!Spec

(* Momentum is never orphaned: whenever there is some, the timer is running *)
(* or a thread is on its way to start the timer or to switch momentum off,  *)
(* even when two threads end or begin gestures at the same time.            *)
MomentumAttended ==
  mphase # "Undefined" /\ life = "alive" =>
    \/ vigilance > HB!Active
    \/ \E t \in Thread : scroll[t] \in {"decided", "posted"}
    \/ \E c \in Caller : pc[c] \in {"endStart", "endStarting", "endScroll",
                                   "beginScroll", "beginSet"}

(* Momentum dies down: the timer runs for as long as there is momentum to   *)
(* replay, although end() and the tick itself both stop it.                 *)
MomentumEnds == (mphase # "Undefined") ~> (mphase = "Undefined" \/ life # "alive")

(* No begin, apply or end blocks forever on the scroll mutex or on the      *)
(* timer, which the tick stops while it holds that mutex, and the           *)
(* destructor gets to join the timer thread, even in the middle of such a   *)
(* tick.                                                                    *)
CallsReturn ==
  /\ \A c \in Caller : (pc[c] # "idle") ~> (pc[c] = "idle")
  /\ (life = "joining") ~> (life = "gone")
===============================================================================
