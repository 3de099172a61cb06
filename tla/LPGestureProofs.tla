------------------------------ MODULE LPGestureProofs ------------------------------
(***************************************************************************)
(* The safety of LPGesture for every set of callers, whichever of them call *)
(* its methods at the same time, and that it uses its timer only as the     *)
(* clients of a Heartbeat may.                                              *)
(***************************************************************************)
EXTENDS LPGesture, TLAPS

InScroll == {"apply", "beginScroll", "endScroll"}
Inside(t) == scroll[t] \in {"decided", "posted"}

(* applyScroll's scoped lock: the mutex is held by the one thread inside.   *)
ScrollExclusive == \A t \in Thread : Inside(t) <=> scrollLock = t

(* A gesture that has only begun has not announced any momentum.            *)
PhaseInv == phase = "Began" => mphase \in {"Undefined", "Began"}

(* Who is in applyScroll, and where its callers are; a call into the object *)
(* keeps it alive.                                                          *)
Places ==
  /\ \A t \in Thread : scroll[t] # "out" => pc[t] \in InScroll
  /\ \A c \in Caller : pc[c] \in {"beginScroll", "endScroll"} /\ scroll[c] = "want" => motion[c] = 0
  /\ \A c \in Caller : pc[c] # "idle" => life = "alive"
  /\ \A c \in Caller : clientPc[c] = "starting" <=> pc[c] = "endStarting"
  /\ pc["Timer"] \in {"idle", "apply"}
  /\ pc["Timer"] = "apply" => loopPc = "call"

(* The driver gives its timer no empty function, so that none is called:    *)
(* Heartbeat itself would not notice.                                       *)
NoEmptyCall == loopPc = "call" => fn # "empty"

(* The timer always has a callback, and is terminated by the destructor.    *)
TimerInv ==
  /\ callback \in {"noop", "applyMomentum"}
  /\ NoEmptyCall
  /\ vigilance = HB!Terminated <=> life # "alive"

(* Somebody will go on with the momentum or end it: the timer, a thread     *)
(* that is about to start it or has stopped it for good, or one that is     *)
(* posting the end of the momentum.                                         *)
Attended ==
  mphase # "Undefined" /\ life = "alive" =>
    \/ vigilance > HB!Active
    \/ \E c \in Caller : \/ pc[c] \in {"endStart", "endStarting", "beginScroll", "beginSet"}
                         \/ pc[c] = "endScroll" /\ scroll[c] = "want"
    \/ mphase = "Ended" /\ phase # "Began" /\ \E t \in Thread : Inside(t)

IInv == TypeOK /\ ScrollExclusive /\ PhaseInv /\ Places /\ TimerInv /\ Attended

-------------------------------------------------------------------------------
(* Facts.                                                                   *)

Numbers == HB!Terminated = 0 /\ HB!Active = 1 /\ HB!Running = 2 /\ HB!Resetting = 3

(* The vigilance of the timer is an ordered enumeration.                    *)
LEMMA VigilanceNumbers == Numbers
  BY DEF Numbers, HB!Terminated, HB!Active, HB!Running, HB!Resetting

(* The timer thread is not one of the callers.                              *)
LEMMA ThreadsDistinct ==
  /\ Thread = Caller \cup {"Timer"} /\ "Timer" \notin Caller
  /\ "Nobody" \notin Thread
  BY LPGestureAssumption DEF Thread

(* The sections of the timer that others run keep its types; only the       *)
(* destructor terminates it.                                                *)
TimerTyped ==
  /\ vigilance \in 0..3 /\ signal \in {"none", "sent"} /\ timeout \in {"pending", "elapsed"}
  /\ loopPc \in {"start", "wait", "waitFor", "call", "done"}

(* Heartbeat::Stop, from a caller or from the tick itself, does not terminate.*)
LEMMA StopKeeps ==
  ASSUME TimerTyped, HB!StopSection
  PROVE  /\ vigilance' \in 0..3 /\ signal' \in {"none", "sent"}
         /\ vigilance' = 0 <=> vigilance = 0
  BY VigilanceNumbers DEF Numbers, TimerTyped, HB!StopSection, HB!NotifyAll

(* Heartbeat::Start turns a live timer with a callback on.                  *)
LEMMA StartKeeps ==
  ASSUME TimerTyped, HB!StartSection
  PROVE  /\ vigilance' \in 0..3 /\ signal' \in {"none", "sent"}
         /\ vigilance' = 0 <=> vigilance = 0
         /\ vigilance > 1 => vigilance' > 1
         /\ vigilance # 0 /\ callback # "empty" => vigilance' > 1
  BY VigilanceNumbers DEF Numbers, TimerTyped, HB!StartSection, HB!NotifyAll

(* The loop deciding how to go on waiting does not turn the timer off.      *)
LEMMA SettleKeeps ==
  ASSUME TimerTyped, HB!Settle
  PROVE  /\ TimerTyped' /\ loopPc' # "call"
         /\ vigilance' = 0 <=> vigilance = 0
         /\ vigilance > 1 => vigilance' > 1
  BY VigilanceNumbers DEF Numbers, TimerTyped, HB!Settle

(* The parts of the type invariant that the steps are checked against.      *)
GestureTyped ==
  /\ type \in GestureType /\ phase \in Phase /\ mphase \in MPhase
  /\ speed \in Motion /\ history \in Seq(Motion \ {0}) /\ Len(history) <= HistorySize
  /\ gestureStream \in {"None", "Began", "Changed", "Ended", "Cancelled"}
  /\ momentumStream \in {"None", "Began", "Changed", "Ended"}
  /\ late \in {"yes", "no"}

PlaceTyped ==
  /\ scrollLock \in Thread \cup {"Nobody"}
  /\ scroll \in [Thread -> {"out", "want", "decided", "posted"}]
  /\ motion \in [Thread -> Motion]
  /\ pc \in [Thread -> {"idle", "apply", "beginStop", "beginScroll", "beginSet",
                        "endMark", "endStop", "endScroll", "endMomentum", "endStart",
                        "endStarting", "endReset", "endPhase"}]

ClientTyped ==
  /\ callback \in {"noop", "applyMomentum", "empty"} /\ fn \in {"noop", "applyMomentum", "empty"}
  /\ clientPc \in [Caller -> {"idle", "starting"}] /\ life \in {"alive", "joining", "gone", "aborted"}

(* The type invariant is these parts.                                       *)
LEMMA TypeParts == TypeOK <=> GestureTyped /\ PlaceTyped /\ TimerTyped /\ ClientTyped
  BY VigilanceNumbers DEF Numbers, TypeOK, GestureTyped, PlaceTyped, TimerTyped, ClientTyped, HB!TypeOK

(* The same of the next state.                                              *)
LEMMA TypePartsNext == TypeOK' <=> GestureTyped' /\ PlaceTyped' /\ TimerTyped' /\ ClientTyped'
  BY VigilanceNumbers DEF Numbers, TypeOK, GestureTyped, PlaceTyped, TimerTyped, ClientTyped, HB!TypeOK

(* The memory of the motions keeps its type and its size.                   *)
LEMMA Remembers ==
  ASSUME GestureTyped, NEW s \in Motion \ {0}, Remember(s)
  PROVE  history' \in Seq(Motion \ {0}) /\ Len(history') <= HistorySize
<1> DEFINE old == IF Len(history) = HistorySize THEN Tail(history) ELSE history
<1>1. HistorySize \in Nat \ {0} /\ Len(history) \in Nat /\ Len(history) <= HistorySize
      /\ history \in Seq(Motion \ {0})
  BY LPGestureAssumption DEF GestureTyped
<1>2. old \in Seq(Motion \ {0}) /\ Len(old) \in Nat /\ Len(old) < HistorySize
  <2>1. CASE Len(history) = HistorySize
    <3>1. history # <<>>
      BY <1>1, <2>1
    <3>2. Tail(history) \in Seq(Motion \ {0}) /\ Len(Tail(history)) = Len(history) - 1
      BY <1>1, <3>1
    <3>. QED
      BY <1>1, <2>1, <3>2
  <2>2. CASE Len(history) # HistorySize
    BY <1>1, <2>2
  <2>. QED
    BY <2>1, <2>2
<1>3. history' = Append(old, s)
  BY DEF Remember
<1>. HIDE DEF old
<1>. QED
  BY <1>1, <1>2, <1>3

(* What is posted is typed.                                                 *)
LEMMA Posted ==
  ASSUME GestureTyped, NEW p \in Phase, NEW m \in MPhase, PostEvent(p, m)
  PROVE  /\ gestureStream' \in {"None", "Began", "Changed", "Ended", "Cancelled"}
         /\ momentumStream' \in {"None", "Began", "Changed", "Ended"}
         /\ late' \in {"yes", "no"}
  BY DEF GestureTyped, PostEvent, Phase, MPhase

(* The constructor of LPGesture establishes the invariant.                  *)
LEMMA InitIInv == Init => IInv
<1>. SUFFICES ASSUME Init PROVE IInv
  OBVIOUS
<1>. USE LPGestureAssumption, ThreadsDistinct, VigilanceNumbers DEF Init, HB!Init
<1>1. GestureTyped
  BY DEF GestureTyped, GestureType, Phase, MPhase, Motion
<1>2. PlaceTyped /\ TimerTyped /\ ClientTyped
  BY DEF PlaceTyped, TimerTyped, ClientTyped, Motion, Numbers
<1>3. ScrollExclusive /\ PhaseInv /\ Places /\ TimerInv /\ Attended
  BY DEF ScrollExclusive, Inside, PhaseInv, Places, TimerInv, NoEmptyCall, Attended, InScroll, Numbers
<1>. QED
  BY <1>1, <1>2, <1>3, TypeParts DEF IInv

-------------------------------------------------------------------------------
(* begin().                                                                 *)
LEMMA BeginStep ==
  ASSUME IInv, NEW c \in Caller, BeginCall(c) \/ BeginStopTimer(c) \/ BeginStopped(c) \/ BeginSet(c)
  PROVE  IInv'
<1>0. /\ GestureTyped /\ PlaceTyped /\ TimerTyped /\ ClientTyped /\ ScrollExclusive
      /\ PhaseInv /\ Places /\ TimerInv /\ Attended
  BY TypeParts DEF IInv
<1>. USE <1>0, LPGestureAssumption, ThreadsDistinct, VigilanceNumbers DEF fieldVars, scrollVars, streamVars, timerVars
<1>1. CASE BeginCall(c)
  <2>. USE <1>1 DEF BeginCall, MayCall
  <2>1. GestureTyped'
    BY DEF GestureTyped, Advanced, Phase, MPhase, Motion, GestureType
  <2>2. PlaceTyped'
    BY DEF PlaceTyped, GestureTyped, Motion
  <2>3. TimerTyped' /\ ClientTyped'
    BY DEF TimerTyped, ClientTyped
  <2>4. ScrollExclusive' /\ PhaseInv'
    BY DEF ScrollExclusive, Inside, PhaseInv, PlaceTyped, Advanced
  <2>5. Places' /\ TimerInv'
    BY DEF Places, TimerInv, NoEmptyCall, InScroll, PlaceTyped, ClientTyped, Numbers, TimerTyped
  <2>6. Attended'
    BY DEF Attended, Inside, Places, TimerInv, PlaceTyped, TimerTyped, InScroll, Numbers
  <2>. QED
    BY <2>1, <2>2, <2>3, <2>4, <2>5, <2>6, TypePartsNext DEF IInv
<1>2. CASE BeginStopTimer(c)
  <2>. USE <1>2 DEF BeginStopTimer, CallScroll, HB!Stop, HB!MayCall, HB!clientVars, HB!loopVars
  <2>1. GestureTyped'
    BY StopKeeps DEF GestureTyped, Advanced, Phase, MPhase, Motion, GestureType
  <2>2. PlaceTyped'
    BY StopKeeps DEF PlaceTyped, GestureTyped, Motion
  <2>3. TimerTyped' /\ ClientTyped'
    BY StopKeeps DEF TimerTyped, ClientTyped
  <2>4. ScrollExclusive' /\ PhaseInv'
    BY StopKeeps DEF ScrollExclusive, Inside, PhaseInv, Places, InScroll, PlaceTyped, Advanced
  <2>5. Places' /\ TimerInv'
    BY StopKeeps DEF Places, TimerInv, NoEmptyCall, InScroll, PlaceTyped, ClientTyped, Numbers, TimerTyped
  <2>6. Attended'
    BY StopKeeps DEF Attended, Inside, Places, TimerInv, PlaceTyped, TimerTyped, InScroll, Numbers
  <2>. QED
    BY <2>1, <2>2, <2>3, <2>4, <2>5, <2>6, TypePartsNext DEF IInv
<1>3. CASE BeginStopped(c)
  <2>. USE <1>3 DEF BeginStopped
  <2>1. GestureTyped'
    BY DEF GestureTyped, Advanced, Phase, MPhase, Motion, GestureType
  <2>2. PlaceTyped'
    BY DEF PlaceTyped, GestureTyped, Motion
  <2>3. TimerTyped' /\ ClientTyped'
    BY DEF TimerTyped, ClientTyped
  <2>4. ScrollExclusive' /\ PhaseInv'
    BY DEF ScrollExclusive, Inside, PhaseInv, PlaceTyped, Advanced
  <2>5. Places' /\ TimerInv'
    BY DEF Places, TimerInv, NoEmptyCall, InScroll, PlaceTyped, ClientTyped, Numbers, TimerTyped
  <2>6. Attended'
    BY DEF Attended, Inside, Places, TimerInv, PlaceTyped, TimerTyped, InScroll, Numbers
  <2>. QED
    BY <2>1, <2>2, <2>3, <2>4, <2>5, <2>6, TypePartsNext DEF IInv
<1>4. CASE BeginSet(c)
  <2>. USE <1>4 DEF BeginSet
  <2>1. GestureTyped'
    BY DEF GestureTyped, GestureType, Phase, MPhase, Motion
  <2>2. PlaceTyped'
    BY DEF PlaceTyped, GestureTyped, Motion
  <2>3. TimerTyped' /\ ClientTyped'
    BY DEF TimerTyped, ClientTyped
  <2>4. ScrollExclusive' /\ PhaseInv'
    BY DEF ScrollExclusive, Inside, PhaseInv, PlaceTyped, Advanced
  <2>5. Places' /\ TimerInv'
    BY DEF Places, TimerInv, NoEmptyCall, InScroll, PlaceTyped, ClientTyped, Numbers, TimerTyped
  <2>6. Attended'
    BY DEF Attended, Inside, Places, TimerInv, PlaceTyped, TimerTyped, InScroll, Numbers
  <2>. QED
    BY <2>1, <2>2, <2>3, <2>4, <2>5, <2>6, TypePartsNext DEF IInv
<1>. QED
  BY <1>1, <1>2, <1>3, <1>4

(* The applications, and their callers' return.                              *)
LEMMA ApplyStep ==
  ASSUME IInv, NEW c \in Caller, Apply(c) \/ ApplyScroll(c) \/ ApplyReturn(c)
  PROVE  IInv'
<1>0. /\ GestureTyped /\ PlaceTyped /\ TimerTyped /\ ClientTyped /\ ScrollExclusive
      /\ PhaseInv /\ Places /\ TimerInv /\ Attended
  BY TypeParts DEF IInv
<1>. USE <1>0, LPGestureAssumption, ThreadsDistinct, VigilanceNumbers DEF fieldVars, scrollVars, streamVars, timerVars
<1>1. CASE Apply(c)
  <2>. USE <1>1 DEF Apply, MayCall
  <2>1. GestureTyped'
    BY Posted DEF GestureTyped, Advanced, Phase, MPhase
  <2>2. PlaceTyped'
    BY DEF PlaceTyped, GestureTyped, Motion
  <2>3. TimerTyped' /\ ClientTyped'
    BY DEF TimerTyped, ClientTyped
  <2>4. ScrollExclusive' /\ PhaseInv'
    BY DEF ScrollExclusive, Inside, PhaseInv, PlaceTyped, Advanced
  <2>5. Places' /\ TimerInv'
    BY DEF Places, TimerInv, NoEmptyCall, InScroll, PlaceTyped, ClientTyped, Numbers, TimerTyped
  <2>6. Attended'
    BY DEF Attended, Inside, Advanced
  <2>. QED
    BY <2>1, <2>2, <2>3, <2>4, <2>5, <2>6, TypePartsNext DEF IInv
<1>2. CASE ApplyScroll(c)
  <2>. USE <1>2 DEF ApplyScroll, CallScroll, MayCall
  <2>1. GestureTyped'
    BY DEF GestureTyped, Advanced, Phase, MPhase, Motion, GestureType
  <2>2. PlaceTyped'
    BY DEF PlaceTyped, GestureTyped, Motion
  <2>3. TimerTyped' /\ ClientTyped'
    BY DEF TimerTyped, ClientTyped
  <2>4. ScrollExclusive' /\ PhaseInv'
    BY DEF ScrollExclusive, Inside, PhaseInv, Places, InScroll, PlaceTyped, Advanced
  <2>5. Places' /\ TimerInv'
    BY DEF Places, TimerInv, NoEmptyCall, InScroll, PlaceTyped, ClientTyped, Numbers, TimerTyped
  <2>6. Attended'
    BY DEF Attended, Inside, Places, TimerInv, PlaceTyped, TimerTyped, InScroll, Numbers
  <2>. QED
    BY <2>1, <2>2, <2>3, <2>4, <2>5, <2>6, TypePartsNext DEF IInv
<1>3. CASE ApplyReturn(c)
  <2>. USE <1>3 DEF ApplyReturn
  <2>1. GestureTyped'
    BY DEF GestureTyped, Advanced, Phase, MPhase, Motion, GestureType
  <2>2. PlaceTyped'
    BY DEF PlaceTyped, GestureTyped, Motion
  <2>3. TimerTyped' /\ ClientTyped'
    BY DEF TimerTyped, ClientTyped
  <2>4. ScrollExclusive' /\ PhaseInv'
    BY DEF ScrollExclusive, Inside, PhaseInv, PlaceTyped, Advanced
  <2>5. Places' /\ TimerInv'
    BY DEF Places, TimerInv, NoEmptyCall, InScroll, PlaceTyped, ClientTyped, Numbers, TimerTyped
  <2>6. Attended'
    BY DEF Attended, Inside, Places, TimerInv, PlaceTyped, TimerTyped, InScroll, Numbers
  <2>. QED
    BY <2>1, <2>2, <2>3, <2>4, <2>5, <2>6, TypePartsNext DEF IInv
<1>. QED
  BY <1>1, <1>2, <1>3

(* end().                                                                   *)
LEMMA EndStep ==
  ASSUME IInv, NEW c \in Caller,
         \/ EndCall(c) \/ EndMarkScroll(c) \/ EndMarkOther(c) \/ EndStopTimer(c)
         \/ EndScrolled(c) \/ EndMomentum(c) \/ EndSetCallback(c) \/ EndStartTimer(c)
         \/ EndReset(c) \/ EndResetPhase(c)
  PROVE  IInv'
<1>0. /\ GestureTyped /\ PlaceTyped /\ TimerTyped /\ ClientTyped /\ ScrollExclusive
      /\ PhaseInv /\ Places /\ TimerInv /\ Attended
  BY TypeParts DEF IInv
<1>. USE <1>0, LPGestureAssumption, ThreadsDistinct, VigilanceNumbers DEF fieldVars, scrollVars, streamVars, timerVars
<1>1. CASE EndCall(c)
  <2>. USE <1>1 DEF EndCall, MayCall
  <2>1. GestureTyped'
    BY DEF GestureTyped, Advanced, Phase, MPhase, Motion, GestureType
  <2>2. PlaceTyped'
    BY DEF PlaceTyped, GestureTyped, Motion
  <2>3. TimerTyped' /\ ClientTyped'
    BY DEF TimerTyped, ClientTyped
  <2>4. ScrollExclusive' /\ PhaseInv'
    BY DEF ScrollExclusive, Inside, PhaseInv, PlaceTyped, Advanced
  <2>5. Places' /\ TimerInv'
    BY DEF Places, TimerInv, NoEmptyCall, InScroll, PlaceTyped, ClientTyped, Numbers, TimerTyped
  <2>6. Attended'
    BY DEF Attended, Inside, Places, TimerInv, PlaceTyped, TimerTyped, InScroll, Numbers
  <2>. QED
    BY <2>1, <2>2, <2>3, <2>4, <2>5, <2>6, TypePartsNext DEF IInv
<1>2. CASE EndMarkScroll(c)
  <2>. USE <1>2 DEF EndMarkScroll
  <2>1. GestureTyped'
    BY DEF GestureTyped, Advanced, Phase, MPhase, Motion, GestureType
  <2>2. PlaceTyped'
    BY DEF PlaceTyped, GestureTyped, Motion
  <2>3. TimerTyped' /\ ClientTyped'
    BY DEF TimerTyped, ClientTyped
  <2>4. ScrollExclusive' /\ PhaseInv'
    BY DEF ScrollExclusive, Inside, PhaseInv, PlaceTyped, Advanced
  <2>5. Places' /\ TimerInv'
    BY DEF Places, TimerInv, NoEmptyCall, InScroll, PlaceTyped, ClientTyped, Numbers, TimerTyped
  <2>6. Attended'
    BY DEF Attended, Inside, Places, TimerInv, PlaceTyped, TimerTyped, InScroll, Numbers
  <2>. QED
    BY <2>1, <2>2, <2>3, <2>4, <2>5, <2>6, TypePartsNext DEF IInv
<1>3. CASE EndMarkOther(c)
  <2>. USE <1>3 DEF EndMarkOther
  <2>1. GestureTyped'
    BY Posted DEF GestureTyped, GestureType, Phase, MPhase
  <2>2. PlaceTyped'
    BY DEF PlaceTyped, GestureTyped, Motion
  <2>3. TimerTyped' /\ ClientTyped'
    BY DEF TimerTyped, ClientTyped
  <2>4. ScrollExclusive' /\ PhaseInv'
    BY DEF ScrollExclusive, Inside, PhaseInv, PlaceTyped, Advanced
  <2>5. Places' /\ TimerInv'
    BY DEF Places, TimerInv, NoEmptyCall, InScroll, PlaceTyped, ClientTyped, Numbers, TimerTyped
  <2>6. Attended'
    BY DEF Attended, Inside, Places, TimerInv, PlaceTyped, TimerTyped, InScroll, Numbers
  <2>. QED
    BY <2>1, <2>2, <2>3, <2>4, <2>5, <2>6, TypePartsNext DEF IInv
<1>4. CASE EndStopTimer(c)
  <2>. USE <1>4 DEF EndStopTimer, CallScroll, HB!Stop, HB!MayCall, HB!clientVars, HB!loopVars
  <2>1. GestureTyped'
    BY StopKeeps DEF GestureTyped, Advanced, Phase, MPhase, Motion, GestureType
  <2>2. PlaceTyped'
    BY StopKeeps DEF PlaceTyped, GestureTyped, Motion
  <2>3. TimerTyped' /\ ClientTyped'
    BY StopKeeps DEF TimerTyped, ClientTyped
  <2>4. ScrollExclusive' /\ PhaseInv'
    BY StopKeeps DEF ScrollExclusive, Inside, PhaseInv, Places, InScroll, PlaceTyped, Advanced
  <2>5. Places' /\ TimerInv'
    BY StopKeeps DEF Places, TimerInv, NoEmptyCall, InScroll, PlaceTyped, ClientTyped, Numbers, TimerTyped
  <2>6. Attended'
    BY StopKeeps DEF Attended, Inside, Places, TimerInv, PlaceTyped, TimerTyped, InScroll, Numbers
  <2>. QED
    BY <2>1, <2>2, <2>3, <2>4, <2>5, <2>6, TypePartsNext DEF IInv
<1>5. CASE EndScrolled(c)
  <2>. USE <1>5 DEF EndScrolled
  <2>1. GestureTyped'
    BY DEF GestureTyped, Advanced, Phase, MPhase, Motion, GestureType
  <2>2. PlaceTyped'
    BY DEF PlaceTyped, GestureTyped, Motion
  <2>3. TimerTyped' /\ ClientTyped'
    BY DEF TimerTyped, ClientTyped
  <2>4. ScrollExclusive' /\ PhaseInv'
    BY DEF ScrollExclusive, Inside, PhaseInv, PlaceTyped, Advanced
  <2>5. Places' /\ TimerInv'
    BY DEF Places, TimerInv, NoEmptyCall, InScroll, PlaceTyped, ClientTyped, Numbers, TimerTyped
  <2>6. Attended'
    BY DEF Attended, Inside, Places, TimerInv, PlaceTyped, TimerTyped, InScroll, Numbers
  <2>. QED
    BY <2>1, <2>2, <2>3, <2>4, <2>5, <2>6, TypePartsNext DEF IInv
<1>6. CASE EndMomentum(c)
  <2>. USE <1>6 DEF EndMomentum
  <2>1. GestureTyped'
    <3>1. Largest \subseteq Motion
      BY DEF Largest, GestureTyped
    <3>2. 0 \in Motion /\ <<>> \in Seq(Motion \ {0}) /\ Len(<<>>) = 0
      BY DEF Motion
    <3>. QED
      BY <3>1, <3>2 DEF GestureTyped, MPhase
  <2>2. PlaceTyped'
    BY DEF PlaceTyped, GestureTyped, Motion
  <2>3. TimerTyped' /\ ClientTyped'
    BY DEF TimerTyped, ClientTyped
  <2>4. ScrollExclusive' /\ PhaseInv'
    BY DEF ScrollExclusive, Inside, PhaseInv, PlaceTyped, Advanced
  <2>5. Places' /\ TimerInv'
    BY DEF Places, TimerInv, NoEmptyCall, InScroll, PlaceTyped, ClientTyped, Numbers, TimerTyped
  <2>6. Attended'
    BY DEF Attended, Inside, Places, TimerInv, PlaceTyped, TimerTyped, InScroll, Numbers
  <2>. QED
    BY <2>1, <2>2, <2>3, <2>4, <2>5, <2>6, TypePartsNext DEF IInv
<1>7. CASE EndSetCallback(c)
  <2>. USE <1>7 DEF EndSetCallback, HB!SetCallback, HB!MayCall, HB!loopVars
  <2>1. GestureTyped'
    BY DEF GestureTyped, Advanced, Phase, MPhase, Motion, GestureType
  <2>2. PlaceTyped'
    BY DEF PlaceTyped, GestureTyped, Motion
  <2>3. TimerTyped' /\ ClientTyped'
    BY DEF TimerTyped, ClientTyped
  <2>4. ScrollExclusive' /\ PhaseInv'
    BY DEF ScrollExclusive, Inside, PhaseInv, PlaceTyped, Advanced
  <2>5. Places' /\ TimerInv'
    BY DEF Places, TimerInv, NoEmptyCall, InScroll, PlaceTyped, ClientTyped, Numbers, TimerTyped
  <2>6. Attended'
    BY DEF Attended, Inside, Places, TimerInv, PlaceTyped, TimerTyped, InScroll, Numbers
  <2>. QED
    BY <2>1, <2>2, <2>3, <2>4, <2>5, <2>6, TypePartsNext DEF IInv
<1>8. CASE EndStartTimer(c)
  <2>. USE <1>8 DEF EndStartTimer, HB!StartStored, HB!loopVars
  <2>1. GestureTyped'
    BY StartKeeps DEF GestureTyped, Advanced, Phase, MPhase, Motion, GestureType
  <2>2. PlaceTyped'
    BY StartKeeps DEF PlaceTyped, GestureTyped, Motion
  <2>3. TimerTyped' /\ ClientTyped'
    BY StartKeeps DEF TimerTyped, ClientTyped
  <2>4. ScrollExclusive' /\ PhaseInv'
    BY StartKeeps DEF ScrollExclusive, Inside, PhaseInv, PlaceTyped, Advanced
  <2>5. Places' /\ TimerInv'
    BY StartKeeps DEF Places, TimerInv, NoEmptyCall, InScroll, PlaceTyped, ClientTyped, Numbers, TimerTyped
  <2>6. Attended'
    BY StartKeeps DEF Attended, Inside, Places, TimerInv, PlaceTyped, TimerTyped, InScroll, Numbers
  <2>. QED
    BY <2>1, <2>2, <2>3, <2>4, <2>5, <2>6, TypePartsNext DEF IInv
<1>9. CASE EndReset(c)
  <2>. USE <1>9 DEF EndReset
  <2>1. GestureTyped'
    BY DEF GestureTyped, Advanced, Phase, MPhase, Motion, GestureType
  <2>2. PlaceTyped'
    BY DEF PlaceTyped, GestureTyped, Motion
  <2>3. TimerTyped' /\ ClientTyped'
    BY DEF TimerTyped, ClientTyped
  <2>4. ScrollExclusive' /\ PhaseInv'
    BY DEF ScrollExclusive, Inside, PhaseInv, PlaceTyped, Advanced
  <2>5. Places' /\ TimerInv'
    BY DEF Places, TimerInv, NoEmptyCall, InScroll, PlaceTyped, ClientTyped, Numbers, TimerTyped
  <2>6. Attended'
    BY DEF Attended, Inside, Places, TimerInv, PlaceTyped, TimerTyped, InScroll, Numbers
  <2>. QED
    BY <2>1, <2>2, <2>3, <2>4, <2>5, <2>6, TypePartsNext DEF IInv
<1>10. CASE EndResetPhase(c)
  <2>. USE <1>10 DEF EndResetPhase
  <2>1. GestureTyped'
    BY DEF GestureTyped, Advanced, Phase, MPhase, Motion, GestureType
  <2>2. PlaceTyped'
    BY DEF PlaceTyped, GestureTyped, Motion
  <2>3. TimerTyped' /\ ClientTyped'
    BY DEF TimerTyped, ClientTyped
  <2>4. ScrollExclusive' /\ PhaseInv'
    BY DEF ScrollExclusive, Inside, PhaseInv, PlaceTyped, Advanced
  <2>5. Places' /\ TimerInv'
    BY DEF Places, TimerInv, NoEmptyCall, InScroll, PlaceTyped, ClientTyped, Numbers, TimerTyped
  <2>6. Attended'
    BY DEF Attended, Inside, Places, TimerInv, PlaceTyped, TimerTyped, InScroll, Numbers
  <2>. QED
    BY <2>1, <2>2, <2>3, <2>4, <2>5, <2>6, TypePartsNext DEF IInv
<1>. QED
  BY <1>1, <1>2, <1>3, <1>4, <1>5, <1>6, <1>7, <1>8, <1>9, <1>10

(* applyScroll, on whichever thread.                                        *)
LEMMA ScrollCallStep ==
  ASSUME IInv, NEW t \in Thread, ScrollStep(t)
  PROVE  IInv'
<1>0. /\ GestureTyped /\ PlaceTyped /\ TimerTyped /\ ClientTyped /\ ScrollExclusive
      /\ PhaseInv /\ Places /\ TimerInv /\ Attended
  BY TypeParts DEF IInv
<1>. USE <1>0, LPGestureAssumption, ThreadsDistinct, VigilanceNumbers DEF fieldVars, scrollVars, streamVars, timerVars
<1>1. CASE ScrollDecide(t) /\ ScrollIgnored(t)
  <2>. USE <1>1 DEF ScrollDecide, ScrollIgnored, ReturnScroll
  <2>1. GestureTyped'
    BY DEF GestureTyped, Advanced, Phase, MPhase, Motion, GestureType
  <2>2. PlaceTyped'
    BY DEF PlaceTyped, GestureTyped, Motion
  <2>3. TimerTyped' /\ ClientTyped'
    BY DEF TimerTyped, ClientTyped
  <2>4. ScrollExclusive' /\ PhaseInv'
    BY DEF ScrollExclusive, Inside, PhaseInv, PlaceTyped, Advanced
  <2>5. Places' /\ TimerInv'
    BY DEF Places, TimerInv, NoEmptyCall, InScroll, PlaceTyped, ClientTyped, Numbers, TimerTyped
  <2>6. Attended'
    BY DEF Attended, Inside, Places, TimerInv, PlaceTyped, TimerTyped, InScroll, Numbers
  <2>. QED
    BY <2>1, <2>2, <2>3, <2>4, <2>5, <2>6, TypePartsNext DEF IInv
<1>2. CASE ScrollDecide(t) /\ StopMomentum(t)
  <2>. USE <1>2 DEF ScrollDecide, StopMomentum, ReturnScroll, Enter, Still
  <2>1. GestureTyped'
    BY DEF GestureTyped, Phase, MPhase, Motion
  <2>2. PlaceTyped'
    BY StopKeeps DEF PlaceTyped, GestureTyped, Motion
  <2>3. TimerTyped' /\ ClientTyped'
    BY StopKeeps DEF TimerTyped, ClientTyped
  <2>4. ScrollExclusive' /\ PhaseInv'
    BY StopKeeps DEF ScrollExclusive, Inside, PhaseInv, PlaceTyped, Advanced
  <2>5. Places' /\ TimerInv'
    BY StopKeeps DEF Places, TimerInv, NoEmptyCall, InScroll, PlaceTyped, ClientTyped, Numbers, TimerTyped
  <2>6. Attended'
    <3>1. CASE mphase = "Began"
      BY <3>1 DEF Attended
    <3>2. CASE mphase # "Began"
      <4>1. phase # "Began" /\ mphase' = "Ended" /\ phase' = phase
        BY <3>2 DEF PhaseInv
      <4>2. Inside(t)'
        BY <3>2 DEF Inside, PlaceTyped
      <4>. QED
        BY <4>1, <4>2 DEF Attended
    <3>. QED
      BY <3>1, <3>2
  <2>. QED
    BY <2>1, <2>2, <2>3, <2>4, <2>5, <2>6, TypePartsNext DEF IInv
<1>3. CASE ScrollDecide(t) /\ DecayMomentum(t)
  <2>. USE <1>3 DEF ScrollDecide, DecayMomentum, Enter, Still
  <2>1. GestureTyped'
    BY DEF GestureTyped, Advanced, Phase, MPhase, Motion, GestureType
  <2>2. PlaceTyped'
    BY DEF PlaceTyped, GestureTyped, Motion
  <2>3. TimerTyped' /\ ClientTyped'
    BY DEF TimerTyped, ClientTyped
  <2>4. ScrollExclusive' /\ PhaseInv'
    BY DEF ScrollExclusive, Inside, PhaseInv, PlaceTyped, Advanced
  <2>5. Places' /\ TimerInv'
    BY DEF Places, TimerInv, NoEmptyCall, InScroll, PlaceTyped, ClientTyped, Numbers, TimerTyped
  <2>6. Attended'
    BY DEF Attended, Inside, Places, TimerInv, PlaceTyped, TimerTyped, InScroll, Numbers
  <2>. QED
    BY <2>1, <2>2, <2>3, <2>4, <2>5, <2>6, TypePartsNext DEF IInv
<1>4. CASE ScrollDecide(t) /\ TrackGesture(t)
  <2>. USE <1>4 DEF ScrollDecide, TrackGesture, ReturnScroll, Enter
  <2>1. GestureTyped'
    <3>1. CASE \E s \in Motion \ {0} : Remember(s) /\ UNCHANGED speed
      BY <3>1, Remembers DEF GestureTyped
    <3>2. CASE history' = <<>> /\ speed' = 0
      BY <3>2 DEF GestureTyped, Motion
    <3>. QED
      BY <3>1, <3>2
  <2>2. PlaceTyped'
    BY DEF PlaceTyped, GestureTyped, Motion
  <2>3. TimerTyped' /\ ClientTyped'
    BY DEF TimerTyped, ClientTyped
  <2>4. ScrollExclusive' /\ PhaseInv'
    BY DEF ScrollExclusive, Inside, PhaseInv, PlaceTyped, Advanced
  <2>5. Places' /\ TimerInv'
    BY DEF Places, TimerInv, NoEmptyCall, InScroll, PlaceTyped, ClientTyped, Numbers, TimerTyped
  <2>6. Attended'
    BY DEF Attended, Inside, Places, TimerInv, PlaceTyped, TimerTyped, InScroll, Numbers
  <2>. QED
    BY <2>1, <2>2, <2>3, <2>4, <2>5, <2>6, TypePartsNext DEF IInv
<1>5. CASE ScrollDecide(t) /\ ScrollEnding(t)
  <2>. USE <1>5 DEF ScrollDecide, ScrollEnding, Enter
  <2>1. GestureTyped'
    BY DEF GestureTyped, Advanced, Phase, MPhase, Motion, GestureType
  <2>2. PlaceTyped'
    BY DEF PlaceTyped, GestureTyped, Motion
  <2>3. TimerTyped' /\ ClientTyped'
    BY DEF TimerTyped, ClientTyped
  <2>4. ScrollExclusive' /\ PhaseInv'
    BY DEF ScrollExclusive, Inside, PhaseInv, PlaceTyped, Advanced
  <2>5. Places' /\ TimerInv'
    BY DEF Places, TimerInv, NoEmptyCall, InScroll, PlaceTyped, ClientTyped, Numbers, TimerTyped
  <2>6. Attended'
    BY DEF Attended, Inside, Places, TimerInv, PlaceTyped, TimerTyped, InScroll, Numbers
  <2>. QED
    BY <2>1, <2>2, <2>3, <2>4, <2>5, <2>6, TypePartsNext DEF IInv
<1>6. CASE ScrollPost(t)
  <2>. USE <1>6 DEF ScrollPost
  <2>1. GestureTyped'
    BY Posted DEF GestureTyped
  <2>2. PlaceTyped'
    BY DEF PlaceTyped, GestureTyped, Motion
  <2>3. TimerTyped' /\ ClientTyped'
    BY DEF TimerTyped, ClientTyped
  <2>4. ScrollExclusive' /\ PhaseInv'
    BY DEF ScrollExclusive, Inside, PhaseInv, PlaceTyped, Advanced
  <2>5. Places' /\ TimerInv'
    BY DEF Places, TimerInv, NoEmptyCall, InScroll, PlaceTyped, ClientTyped, Numbers, TimerTyped
  <2>6. Attended'
    BY DEF Attended, Inside, Places, TimerInv, PlaceTyped, TimerTyped, InScroll, Numbers
  <2>. QED
    BY <2>1, <2>2, <2>3, <2>4, <2>5, <2>6, TypePartsNext DEF IInv
<1>7. CASE ScrollAdvance(t)
  <2>. USE <1>7 DEF ScrollAdvance, Advanced
  <2>1. GestureTyped'
    BY DEF GestureTyped, Advanced, Phase, MPhase, Motion, GestureType
  <2>2. PlaceTyped'
    BY DEF PlaceTyped, GestureTyped, Motion
  <2>3. TimerTyped' /\ ClientTyped'
    BY DEF TimerTyped, ClientTyped
  <2>4. ScrollExclusive' /\ PhaseInv'
    BY DEF ScrollExclusive, Inside, PhaseInv, PlaceTyped, Advanced
  <2>5. Places' /\ TimerInv'
    BY DEF Places, TimerInv, NoEmptyCall, InScroll, PlaceTyped, ClientTyped, Numbers, TimerTyped
  <2>6. Attended'
    BY DEF Attended, Inside, Places, TimerInv, PlaceTyped, TimerTyped, InScroll, Numbers
  <2>. QED
    BY <2>1, <2>2, <2>3, <2>4, <2>5, <2>6, TypePartsNext DEF IInv
<1>. QED
  BY <1>1, <1>2, <1>3, <1>4, <1>5, <1>6, <1>7 DEF ScrollStep, ScrollDecide

(* The timer thread and the destructor.                                      *)
LEMMA TimerStep ==
  ASSUME IInv, TimerLoop \/ Tick \/ Destroy \/ Destroyed
  PROVE  IInv'
<1>0. /\ GestureTyped /\ PlaceTyped /\ TimerTyped /\ ClientTyped /\ ScrollExclusive
      /\ PhaseInv /\ Places /\ TimerInv /\ Attended
  BY TypeParts DEF IInv
<1>. USE <1>0, LPGestureAssumption, ThreadsDistinct, VigilanceNumbers DEF fieldVars, scrollVars, streamVars, timerVars
<1>1. CASE TimerLoop /\ HB!Settle /\ UNCHANGED HB!clientVars
  <2>. USE <1>1 DEF TimerLoop, HB!EnterLoop, HB!WakeFromWait, HB!WakeFromWaitFor, HB!TimeoutElapses, HB!Pulse, HB!clientVars
  <2>1. GestureTyped'
    BY SettleKeeps DEF GestureTyped, Advanced, Phase, MPhase, Motion, GestureType
  <2>2. PlaceTyped'
    BY SettleKeeps DEF PlaceTyped, GestureTyped, Motion
  <2>3. TimerTyped' /\ ClientTyped'
    BY SettleKeeps DEF TimerTyped, ClientTyped
  <2>4. ScrollExclusive' /\ PhaseInv'
    BY SettleKeeps DEF ScrollExclusive, Inside, PhaseInv, PlaceTyped, Advanced
  <2>5. Places' /\ TimerInv'
    BY SettleKeeps DEF Places, TimerInv, NoEmptyCall, InScroll, PlaceTyped, ClientTyped, Numbers, TimerTyped
  <2>6. Attended'
    BY SettleKeeps DEF Attended, Inside, Places, TimerInv, PlaceTyped, TimerTyped, InScroll, Numbers
  <2>. QED
    BY <2>1, <2>2, <2>3, <2>4, <2>5, <2>6, TypePartsNext DEF IInv
<1>2. CASE TimerLoop /\ ~HB!Settle
  <2>. USE <1>2 DEF TimerLoop, HB!EnterLoop, HB!WakeFromWait, HB!WakeFromWaitFor, HB!TimeoutElapses, HB!Pulse, HB!clientVars
  <2>1. GestureTyped'
    BY DEF GestureTyped, Advanced, Phase, MPhase, Motion, GestureType
  <2>2. PlaceTyped'
    BY DEF PlaceTyped, GestureTyped, Motion
  <2>3. TimerTyped' /\ ClientTyped'
    BY DEF TimerTyped, ClientTyped
  <2>4. ScrollExclusive' /\ PhaseInv'
    BY DEF ScrollExclusive, Inside, PhaseInv, PlaceTyped, Advanced
  <2>5. Places' /\ TimerInv'
    BY DEF Places, TimerInv, NoEmptyCall, InScroll, PlaceTyped, ClientTyped, Numbers, TimerTyped
  <2>6. Attended'
    BY DEF Attended, Inside, Places, TimerInv, PlaceTyped, TimerTyped, InScroll, Numbers
  <2>. QED
    BY <2>1, <2>2, <2>3, <2>4, <2>5, <2>6, TypePartsNext DEF IInv
<1>3. CASE TickCheck
  <2>. USE <1>3 DEF TickCheck, CallScroll
  <2>1. GestureTyped'
    BY DEF GestureTyped, Advanced, Phase, MPhase, Motion, GestureType
  <2>2. PlaceTyped'
    BY DEF PlaceTyped, GestureTyped, Motion
  <2>3. TimerTyped' /\ ClientTyped'
    BY DEF TimerTyped, ClientTyped
  <2>4. ScrollExclusive' /\ PhaseInv'
    BY DEF ScrollExclusive, Inside, PhaseInv, Places, InScroll, PlaceTyped, Advanced
  <2>5. Places' /\ TimerInv'
    BY DEF Places, TimerInv, NoEmptyCall, InScroll, PlaceTyped, ClientTyped, Numbers, TimerTyped
  <2>6. Attended'
    BY DEF Attended, Inside, Places, TimerInv, PlaceTyped, TimerTyped, InScroll, Numbers
  <2>. QED
    BY <2>1, <2>2, <2>3, <2>4, <2>5, <2>6, TypePartsNext DEF IInv
<1>4. CASE TickReturn
  <2>. USE <1>4 DEF TickReturn, HB!CallbackReturns, HB!clientVars
  <2>1. GestureTyped'
    BY SettleKeeps DEF GestureTyped, Advanced, Phase, MPhase, Motion, GestureType
  <2>2. PlaceTyped'
    BY SettleKeeps DEF PlaceTyped, GestureTyped, Motion
  <2>3. TimerTyped' /\ ClientTyped'
    BY SettleKeeps DEF TimerTyped, ClientTyped
  <2>4. ScrollExclusive' /\ PhaseInv'
    BY SettleKeeps DEF ScrollExclusive, Inside, PhaseInv, PlaceTyped, Advanced
  <2>5. Places' /\ TimerInv'
    BY SettleKeeps DEF Places, TimerInv, NoEmptyCall, InScroll, PlaceTyped, ClientTyped, Numbers, TimerTyped
  <2>6. Attended'
    BY SettleKeeps DEF Attended, Inside, Places, TimerInv, PlaceTyped, TimerTyped, InScroll, Numbers
  <2>. QED
    BY <2>1, <2>2, <2>3, <2>4, <2>5, <2>6, TypePartsNext DEF IInv
<1>5. CASE Destroy
  <2>. USE <1>5 DEF Destroy, HB!Terminate, HB!NotifyAll, HB!loopVars
  <2>1. GestureTyped'
    BY DEF GestureTyped, Advanced, Phase, MPhase, Motion, GestureType
  <2>2. PlaceTyped'
    BY DEF PlaceTyped, GestureTyped, Motion
  <2>3. TimerTyped' /\ ClientTyped'
    BY DEF TimerTyped, ClientTyped, Numbers
  <2>4. ScrollExclusive' /\ PhaseInv'
    BY DEF ScrollExclusive, Inside, PhaseInv, PlaceTyped, Advanced
  <2>5. Places' /\ TimerInv'
    BY DEF Places, TimerInv, NoEmptyCall, InScroll, PlaceTyped, ClientTyped, Numbers, TimerTyped
  <2>6. Attended'
    BY DEF Attended, Inside, Places, TimerInv, PlaceTyped, TimerTyped, InScroll, Numbers
  <2>. QED
    BY <2>1, <2>2, <2>3, <2>4, <2>5, <2>6, TypePartsNext DEF IInv
<1>6. CASE Destroyed
  <2>. USE <1>6 DEF Destroyed, HB!Join, HB!loopVars
  <2>1. GestureTyped'
    BY DEF GestureTyped, Advanced, Phase, MPhase, Motion, GestureType
  <2>2. PlaceTyped'
    BY DEF PlaceTyped, GestureTyped, Motion
  <2>3. TimerTyped' /\ ClientTyped'
    BY DEF TimerTyped, ClientTyped
  <2>4. ScrollExclusive' /\ PhaseInv'
    BY DEF ScrollExclusive, Inside, PhaseInv, PlaceTyped, Advanced
  <2>5. Places' /\ TimerInv'
    BY DEF Places, TimerInv, NoEmptyCall, InScroll, PlaceTyped, ClientTyped, Numbers, TimerTyped
  <2>6. Attended'
    BY DEF Attended, Inside, Places, TimerInv, PlaceTyped, TimerTyped, InScroll, Numbers
  <2>. QED
    BY <2>1, <2>2, <2>3, <2>4, <2>5, <2>6, TypePartsNext DEF IInv
<1>. QED
  BY <1>1, <1>2, <1>3, <1>4, <1>5, <1>6 DEF Tick, TimerLoop, HB!EnterLoop, HB!WakeFromWait, HB!WakeFromWaitFor, HB!TimeoutElapses,
     HB!clientVars

(* Every step keeps the invariant.                                          *)
LEMMA NextIInv == IInv /\ [Next]_vars => IInv'
<1>. SUFFICES ASSUME IInv, [Next]_vars PROVE IInv'
  OBVIOUS
<1>1. CASE UNCHANGED vars
  <2>. USE <1>1 DEF vars, fieldVars, scrollVars, streamVars, timerVars, IInv
  <2>1. GestureTyped' = GestureTyped /\ PlaceTyped' = PlaceTyped /\ TimerTyped' = TimerTyped
        /\ ClientTyped' = ClientTyped
    BY DEF GestureTyped, PlaceTyped, TimerTyped, ClientTyped
  <2>2. ScrollExclusive' /\ PhaseInv' /\ Places' /\ TimerInv' /\ Attended'
    BY DEF ScrollExclusive, PhaseInv, Places, TimerInv, NoEmptyCall, Attended, Inside
  <2>. QED
    BY <2>1, <2>2, TypeParts, TypePartsNext
<1>2. ASSUME NEW c \in Caller, NewCall(c) \/ CallStep(c) PROVE IInv'
  BY <1>2, BeginStep, ApplyStep, EndStep DEF NewCall, CallStep
<1>. QED
  BY <1>1, <1>2, ScrollCallStep, TimerStep DEF Next

-------------------------------------------------------------------------------
(* The theorems.                                                            *)

(* The invariant holds in every state the gesture reaches.                  *)
THEOREM Invariance == Spec => []IInv
  BY InitIInv, NextIInv, PTL DEF Spec

(* LPGesture: the fields, the history and the timer keep their types, and   *)
(* m_momentumHistory its capacity.                                          *)
THEOREM TypeCorrect == Spec => []TypeOK
<1>1. IInv => TypeOK
  BY DEF IInv
<1>. QED
  BY <1>1, Invariance, PTL

(* Heartbeat::loop calls its copy of the callback unchecked: the driver     *)
(* never makes it call an empty std::function.                              *)
THEOREM CallsAreSafe == Spec => []NoEmptyCall
<1>1. IInv => NoEmptyCall
  BY DEF IInv, TimerInv
<1>. QED
  BY <1>1, Invariance, PTL

(* begin() and end(), which change the momentum without the mutex: however  *)
(* many threads call them at once, momentum is never left without anybody   *)
(* to go on with it or to end it.                                           *)
THEOREM MomentumIsAttended == Spec => []MomentumAttended
<1>1. IInv => MomentumAttended
  BY ThreadsDistinct DEF IInv, MomentumAttended, Attended, Inside
<1>. QED
  BY <1>1, Invariance, PTL

-------------------------------------------------------------------------------
(* The gesture as a client of its timer.                                    *)

(* Every step that touches the timer is one that a Heartbeat makes itself   *)
(* or that its clients may make: LPGesture stores a callback before it      *)
(* starts the timer, stops it from applyScroll on a live object or inside   *)
(* the callback, and destroys it when no start is half done.                *)
THEOREM TimerIsUsedWell == Spec => HB!Init /\ [][HB!Next]_(HB!vars)
<1>1. Init => HB!Init
  BY DEF Init
<1>2. IInv /\ [Next]_vars => [HB!Next]_(HB!vars)
  <2>. SUFFICES ASSUME IInv, [Next]_vars, ~ UNCHANGED timerVars PROVE HB!Next
    BY DEF HB!vars, HB!clientVars, HB!loopVars, timerVars
  <2>0. Places /\ PlaceTyped /\ ClientTyped /\ TimerInv
    BY TypeParts DEF IInv
  <2>. USE DEF HB!Next, HB!ClientStep, HB!LoopStep
  <2>1. ASSUME NEW c \in Caller, CallStep(c) PROVE HB!Next
    BY <2>1 DEF CallStep, BeginStopTimer, BeginStopped, BeginSet, ApplyReturn, EndMarkScroll,
       EndMarkOther, EndStopTimer, EndScrolled, EndMomentum, EndSetCallback, EndStartTimer, EndReset, EndResetPhase
  <2>2. ASSUME NEW c \in Caller, NewCall(c) PROVE HB!Next
    BY <2>2 DEF NewCall, EndCall, BeginCall, Apply, ApplyScroll
  <2>3. ASSUME NEW t \in Thread, ScrollStep(t) PROVE HB!Next
    <3>1. scroll[t] = "want" /\ HB!StopSection /\ UNCHANGED <<callback, loopPc, timeout, fn, clientPc, life>>
      BY <2>3 DEF ScrollStep, ScrollDecide, ScrollPost, ScrollAdvance, ScrollIgnored, StopMomentum,
         DecayMomentum, TrackGesture, ScrollEnding, timerVars
    <3>2. CASE t = "Timer"
      <4>1. loopPc = "call" /\ fn # "empty"
        BY <2>0, <3>1, <3>2 DEF Places, InScroll, TimerInv, NoEmptyCall
      <4>. QED
        BY <3>1, <4>1 DEF HB!CallbackStops, HB!clientVars, HB!loopVars
    <3>3. CASE t \in Caller
      <4>1. life = "alive" /\ clientPc[t] = "idle"
        BY <2>0, <3>1, <3>3, ThreadsDistinct DEF Places, InScroll, ClientTyped
      <4>. QED
        BY <3>1, <3>3, <4>1 DEF HB!Stop, HB!MayCall, HB!clientVars, HB!loopVars
    <3>. QED
      BY <3>2, <3>3, ThreadsDistinct
  <2>4. CASE TimerLoop \/ Tick \/ Destroy \/ Destroyed
    BY <2>4 DEF TimerLoop, Tick, TickCheck, TickReturn, Destroy, Destroyed
  <2>. QED
    BY <2>1, <2>2, <2>3, <2>4 DEF Next, vars
<1>. QED
  BY <1>1, <1>2, Invariance, PTL DEF Spec

-------------------------------------------------------------------------------
(* The stream of events of a gesture that one thread calls.  Two callers do *)
(* spoil the stream.                                                        *)
OneCaller == \E c : Caller = {c}

Over == {"None", "Ended", "Cancelled"}
Beginning == {"beginStop", "beginScroll", "beginSet"}
Stopping == {"endStop", "endScroll", "endMomentum"}
Starting == {"endStart", "endStarting"}
Clearing == {"endReset", "endPhase"}
Ending == Stopping \cup Starting \cup Clearing
InMotion == phase \in {"Began", "Changed"}
IsPosted == \E t \in Thread : scroll[t] = "posted"

(* What the type and the phase are while the caller is in begin or end.     *)
PhasePlaces ==
  /\ type = "None" <=> phase = "Undefined" \/ \E c \in Caller : pc[c] = "endPhase"
  /\ phase = "Cancelled" => type # "Scroll"
  /\ phase \in {"Ended", "Cancelled"} <=> \E c \in Caller : pc[c] \in Ending
  /\ \A c \in Caller : /\ pc[c] \in Stopping \cup Starting => type = "Scroll" /\ phase = "Ended"
                       /\ pc[c] = "endMark" => InMotion
                       /\ pc[c] \in Beginning => type = "None"

(* A gesture in motion has no momentum and, unless it overtook one, no      *)
(* tick, until its end has been posted; and begin() has ended the momentum  *)
(* before it sets the type.                                                 *)
NoMomentum ==
  /\ InMotion \/ phase = "Cancelled" \/ (\E c \in Caller : pc[c] \in Stopping) =>
       mphase = "Undefined" /\ (scroll["Timer"] = "out" \/ late = "yes")
  /\ \A c \in Caller :
       /\ pc[c] = "beginSet" => mphase = "Undefined"
       /\ pc[c] = "beginScroll" /\ scroll[c] = "out" => mphase = "Undefined"
       /\ pc[c] = "beginScroll" /\ Inside(c) => mphase = "Ended"

(* How the last posted gesture event follows from the phase.                *)
GesturePosted ==
  /\ phase = "Undefined" => gestureStream \in Over
  /\ phase = "Began" =>
       \/ IsPosted /\ gestureStream = "Began"
       \/ (~IsPosted \/ late = "yes") /\ gestureStream \in Over
  /\ phase = "Changed" =>
       \/ gestureStream \in {"Began", "Changed"}
       \/ late = "yes" /\ gestureStream \in Over
  /\ \A c \in Caller :
       /\ pc[c] = "endScroll" /\ scroll[c] \in {"posted", "out"} => gestureStream = "Ended"
       /\ pc[c] \in {"endMomentum"} \cup Starting \cup Clearing => gestureStream = phase

(* And the last posted momentum event from the momentum phase: after the    *)
(* posting it is that phase, before it one that precedes it.                *)
MomentumPosted ==
  /\ mphase = "Undefined" => momentumStream \in Over
  /\ mphase # "Undefined" =>
       /\ gestureStream = "Ended"
       /\ \/ IsPosted /\ momentumStream = mphase
          \/ ~IsPosted /\ mphase # "Began" /\ momentumStream \in {"Began", "Changed"}
          \/ ~IsPosted /\ mphase = "Began" /\ momentumStream \in Over
          \/ late = "yes" /\ momentumStream \in Over /\ ~(IsPosted /\ mphase # "Began")

StreamInv == PhasePlaces /\ NoMomentum /\ GesturePosted /\ MomentumPosted

(* What is shown of each step: it is one of the stream, or no event.        *)
StreamStep == StreamInv' /\ [Stream!Next]_(Stream!vars)

(* What a step starts from: with one caller, c is all callers.              *)
StreamHyp(c) ==
  /\ OneCaller /\ Caller = {c} /\ Thread = {c, "Timer"} /\ c # "Timer"
  /\ GestureTyped /\ PlaceTyped /\ ScrollExclusive /\ Places /\ StreamInv

(* The hypotheses of a step of caller c.                                    *)
LEMMA StreamHypothesis ==
  ASSUME IInv, StreamInv, OneCaller, NEW c \in Caller
  PROVE  StreamHyp(c)
<1>1. Caller = {c}
  BY DEF OneCaller
<1>. QED
  BY <1>1, TypeParts, ThreadsDistinct DEF StreamHyp, IInv

(* begin(): the momentum is over before the gesture announces itself.       *)
LEMMA BeginStream ==
  ASSUME NEW c, StreamHyp(c), BeginCall(c) \/ BeginStopTimer(c) \/ BeginStopped(c) \/ BeginSet(c)
  PROVE  StreamStep
<1>. USE LPGestureAssumption DEF StreamHyp, StreamStep, StreamInv, Beginning, Ending, Stopping, Starting, Clearing,
       Over, Inside, fieldVars, scrollVars, streamVars, timerVars
<1>1. CASE BeginCall(c)
  <2>. USE <1>1 DEF BeginCall, MayCall
  <2>1. PhasePlaces' /\ NoMomentum'
    BY DEF PhasePlaces, NoMomentum, InMotion, Places, PlaceTyped, InScroll
  <2>2. GesturePosted' /\ MomentumPosted' /\ UNCHANGED Stream!vars
    BY DEF GesturePosted, MomentumPosted, IsPosted, PlaceTyped, Stream!vars
  <2>. QED
    BY <2>1, <2>2
<1>2. CASE BeginStopTimer(c)
  <2>. USE <1>2 DEF BeginStopTimer, CallScroll
  <2>1. PhasePlaces' /\ NoMomentum'
    BY DEF PhasePlaces, NoMomentum, InMotion, Places, PlaceTyped, InScroll
  <2>2. GesturePosted' /\ MomentumPosted' /\ UNCHANGED Stream!vars
    BY DEF GesturePosted, MomentumPosted, IsPosted, Places, PlaceTyped, InScroll, Stream!vars
  <2>. QED
    BY <2>1, <2>2
<1>3. CASE BeginStopped(c)
  <2>. USE <1>3 DEF BeginStopped
  <2>1. PhasePlaces' /\ NoMomentum'
    BY DEF PhasePlaces, NoMomentum, InMotion, Places, PlaceTyped, InScroll
  <2>2. GesturePosted' /\ MomentumPosted' /\ UNCHANGED Stream!vars
    BY DEF GesturePosted, MomentumPosted, IsPosted, PlaceTyped, Stream!vars
  <2>. QED
    BY <2>1, <2>2
<1>4. CASE BeginSet(c)
  <2>. USE <1>4 DEF BeginSet
  <2>1. /\ phase = "Undefined" /\ mphase = "Undefined"
        /\ ~IsPosted' \/ late' = "yes"
        /\ gestureStream \in Over /\ momentumStream \in Over
    BY DEF OneCaller, PhasePlaces, NoMomentum, GesturePosted, MomentumPosted, IsPosted, Places,
           PlaceTyped, InScroll
  <2>2. PhasePlaces' /\ NoMomentum'
    BY DEF OneCaller, PhasePlaces, NoMomentum, InMotion, Places, PlaceTyped, GestureType,
           InScroll
  <2>3. CASE type' \in {"Zoom", "Rotate"}
    <3>1. phase' = "Changed" /\ gestureStream' = "Began" /\ momentumStream' = momentumStream
      BY <2>3
    <3>2. GesturePosted' /\ MomentumPosted'
      BY <2>1, <3>1 DEF GesturePosted, MomentumPosted, PlaceTyped
    <3>3. Stream!GestureBegins
      BY <2>1, <3>1 DEF Stream!GestureBegins, Stream!Over
    <3>. QED
      BY <2>2, <3>2, <3>3 DEF Stream!Next
  <2>4. CASE type' \notin {"Zoom", "Rotate"}
    <3>1. GesturePosted' /\ MomentumPosted' /\ UNCHANGED Stream!vars
      BY <2>1, <2>4 DEF GesturePosted, MomentumPosted, PlaceTyped, Stream!vars
    <3>. QED
      BY <2>2, <3>1
  <2>. QED
    BY <2>3, <2>4
<1>. QED
  BY <1>1, <1>2, <1>3, <1>4
(* apply*(): a gesture posts its beginning first, and without momentum.     *)
LEMMA ApplyStream ==
  ASSUME NEW c, StreamHyp(c), Apply(c) \/ ApplyScroll(c) \/ ApplyReturn(c)
  PROVE  StreamStep
<1>. USE LPGestureAssumption DEF StreamHyp, StreamStep, StreamInv, Beginning, Ending, Stopping, Starting, Clearing,
       Over, Inside, fieldVars, scrollVars, streamVars, timerVars
<1>1. CASE Apply(c)
  <2>. USE <1>1 DEF Apply, MayCall
  <2>1. InMotion /\ mphase = "Undefined" /\ momentumStream \in Over /\ pc[c] \notin Ending
    BY DEF PhasePlaces, NoMomentum, MomentumPosted, InMotion, IsPosted, Places, PlaceTyped,
           GestureTyped, Phase, InScroll, Swipe
  <2>2. /\ gestureStream' = phase /\ momentumStream' = momentumStream
        /\ phase' = "Changed" /\ late' = late
    BY <2>1 DEF PostEvent, InMotion, Advanced
  <2>3. PhasePlaces' /\ NoMomentum'
    BY <2>1, <2>2 DEF PhasePlaces, NoMomentum, InMotion
  <2>4. GesturePosted' /\ MomentumPosted'
    BY <2>1, <2>2 DEF GesturePosted, MomentumPosted, InMotion
  <2>5. [Stream!Next]_(Stream!vars)
    BY <2>1, <2>2 DEF GesturePosted, InMotion, Stream!Next, Stream!GestureBegins,
       Stream!GestureChanges, Stream!GestureBeganLost, Stream!Over, Stream!vars
  <2>. QED
    BY <2>3, <2>4, <2>5
<1>2. CASE ApplyScroll(c)
  <2>. USE <1>2 DEF ApplyScroll, CallScroll, MayCall
  <2>1. PhasePlaces' /\ NoMomentum'
    BY DEF PhasePlaces, NoMomentum, InMotion, Places, PlaceTyped, InScroll
  <2>2. GesturePosted' /\ MomentumPosted' /\ UNCHANGED Stream!vars
    BY DEF GesturePosted, MomentumPosted, IsPosted, Places, PlaceTyped, InScroll, Stream!vars
  <2>. QED
    BY <2>1, <2>2
<1>3. CASE ApplyReturn(c)
  <2>. USE <1>3 DEF ApplyReturn
  <2>1. PhasePlaces' /\ NoMomentum'
    BY DEF PhasePlaces, NoMomentum, InMotion, Places, PlaceTyped, InScroll
  <2>2. GesturePosted' /\ MomentumPosted' /\ UNCHANGED Stream!vars
    BY DEF GesturePosted, MomentumPosted, IsPosted, Places, PlaceTyped, InScroll, Stream!vars
  <2>. QED
    BY <2>1, <2>2
<1>. QED
  BY <1>1, <1>2, <1>3

(* end(): the end has been posted before the momentum begins.               *)
LEMMA EndStream ==
  ASSUME NEW c, StreamHyp(c),
         \/ EndCall(c) \/ EndMarkScroll(c) \/ EndMarkOther(c) \/ EndStopTimer(c)
         \/ EndScrolled(c) \/ EndMomentum(c) \/ EndSetCallback(c) \/ EndStartTimer(c)
         \/ EndReset(c) \/ EndResetPhase(c)
  PROVE  StreamStep
<1>. USE LPGestureAssumption DEF StreamHyp, StreamStep, StreamInv, Beginning, Ending, Stopping, Starting, Clearing,
       Over, Inside, fieldVars, scrollVars, streamVars, timerVars
<1>1. CASE EndCall(c)
  <2>. USE <1>1 DEF EndCall, MayCall, InProgress
  <2>1. PhasePlaces' /\ NoMomentum'
    BY DEF PhasePlaces, NoMomentum, InMotion, Places, PlaceTyped, InScroll
  <2>2. GesturePosted' /\ MomentumPosted' /\ UNCHANGED Stream!vars
    BY DEF GesturePosted, MomentumPosted, IsPosted, Places, PlaceTyped, InScroll, Stream!vars
  <2>. QED
    BY <2>1, <2>2
<1>2. CASE EndMarkScroll(c)
  <2>. USE <1>2 DEF EndMarkScroll
  <2>1. PhasePlaces' /\ NoMomentum'
    BY DEF PhasePlaces, NoMomentum, InMotion, Places, PlaceTyped, InScroll
  <2>2. GesturePosted' /\ MomentumPosted' /\ UNCHANGED Stream!vars
    BY DEF GesturePosted, MomentumPosted, IsPosted, Places, PlaceTyped, InScroll, Stream!vars
  <2>. QED
    BY <2>1, <2>2
<1>3. CASE EndMarkOther(c)
  <2>. USE <1>3 DEF EndMarkOther
  <2>1. InMotion /\ mphase = "Undefined"
    BY DEF PhasePlaces, NoMomentum
  <2>2. /\ phase' \in {"Ended", "Cancelled"} /\ gestureStream' = phase'
        /\ momentumStream' = momentumStream /\ late' = late
    BY DEF PostEvent, Swipe
  <2>3. PhasePlaces' /\ NoMomentum'
    BY <2>1, <2>2 DEF PhasePlaces, NoMomentum, InMotion, PlaceTyped
  <2>4. GesturePosted' /\ MomentumPosted'
    BY <2>1, <2>2 DEF GesturePosted, MomentumPosted, PlaceTyped
  <2>5. Stream!GestureEnds
    BY <2>2 DEF Stream!GestureEnds
  <2>. QED
    BY <2>3, <2>4, <2>5 DEF Stream!Next
<1>4. CASE EndStopTimer(c)
  <2>. USE <1>4 DEF EndStopTimer, CallScroll
  <2>1. PhasePlaces' /\ NoMomentum'
    BY DEF PhasePlaces, NoMomentum, InMotion, Places, PlaceTyped, InScroll
  <2>2. GesturePosted' /\ MomentumPosted' /\ UNCHANGED Stream!vars
    BY DEF GesturePosted, MomentumPosted, IsPosted, Places, PlaceTyped, InScroll, Stream!vars
  <2>. QED
    BY <2>1, <2>2
<1>5. CASE EndScrolled(c)
  <2>. USE <1>5 DEF EndScrolled
  <2>1. PhasePlaces' /\ NoMomentum'
    BY DEF PhasePlaces, NoMomentum, InMotion, Places, PlaceTyped, InScroll
  <2>2. GesturePosted' /\ MomentumPosted' /\ UNCHANGED Stream!vars
    BY DEF PhasePlaces, GesturePosted, MomentumPosted, IsPosted, Places, PlaceTyped, InScroll, Stream!vars
  <2>. QED
    BY <2>1, <2>2
<1>6. CASE EndMomentum(c)
  <2>. USE <1>6 DEF EndMomentum
  <2>1. /\ mphase = "Undefined" /\ (~IsPosted' \/ late = "yes")
        /\ gestureStream = "Ended" /\ phase = "Ended" /\ momentumStream \in Over
        /\ mphase' \in {"Undefined", "Began"}
    BY DEF PhasePlaces, NoMomentum, GesturePosted, MomentumPosted, IsPosted, Places, PlaceTyped, InScroll
  <2>2. PhasePlaces' /\ NoMomentum'
    BY <2>1 DEF PhasePlaces, NoMomentum, InMotion, PlaceTyped
  <2>3. GesturePosted' /\ MomentumPosted' /\ UNCHANGED Stream!vars
    BY <2>1 DEF GesturePosted, MomentumPosted, PlaceTyped, Stream!vars
  <2>. QED
    BY <2>2, <2>3
<1>7. CASE EndSetCallback(c)
  <2>. USE <1>7 DEF EndSetCallback
  <2>1. PhasePlaces' /\ NoMomentum'
    BY DEF PhasePlaces, NoMomentum, InMotion, Places, PlaceTyped, InScroll
  <2>2. GesturePosted' /\ MomentumPosted' /\ UNCHANGED Stream!vars
    BY DEF GesturePosted, MomentumPosted, IsPosted, Places, PlaceTyped, InScroll, Stream!vars
  <2>. QED
    BY <2>1, <2>2
<1>8. CASE EndStartTimer(c)
  <2>. USE <1>8 DEF EndStartTimer
  <2>1. PhasePlaces' /\ NoMomentum'
    BY DEF PhasePlaces, NoMomentum, InMotion, Places, PlaceTyped, InScroll
  <2>2. GesturePosted' /\ MomentumPosted' /\ UNCHANGED Stream!vars
    BY DEF GesturePosted, MomentumPosted, IsPosted, Places, PlaceTyped, InScroll, Stream!vars
  <2>. QED
    BY <2>1, <2>2
<1>9. CASE EndReset(c)
  <2>. USE <1>9 DEF EndReset
  <2>1. PhasePlaces' /\ NoMomentum'
    BY DEF PhasePlaces, NoMomentum, InMotion, Places, PlaceTyped, InScroll
  <2>2. GesturePosted' /\ MomentumPosted' /\ UNCHANGED Stream!vars
    BY DEF GesturePosted, MomentumPosted, IsPosted, Places, PlaceTyped, InScroll, Stream!vars
  <2>. QED
    BY <2>1, <2>2
<1>10. CASE EndResetPhase(c)
  <2>. USE <1>10 DEF EndResetPhase
  <2>1. PhasePlaces' /\ NoMomentum'
    BY DEF PhasePlaces, NoMomentum, InMotion, Places, PlaceTyped, InScroll
  <2>2. GesturePosted' /\ MomentumPosted' /\ UNCHANGED Stream!vars
    BY DEF PhasePlaces, GesturePosted, MomentumPosted, IsPosted, Places, PlaceTyped, InScroll, Stream!vars
  <2>. QED
    BY <2>1, <2>2
<1>. QED
  BY <1>1, <1>2, <1>3, <1>4, <1>5, <1>6, <1>7, <1>8, <1>9, <1>10
(* applyScroll, by the caller or by a tick: what is decided before posting. *)
LEMMA DecideStream ==
  ASSUME NEW c, StreamHyp(c), NEW t \in Thread, ScrollDecide(t)
  PROVE  StreamStep
<1>. USE LPGestureAssumption DEF StreamHyp, StreamStep, StreamInv, Beginning, Ending, Stopping, Starting, Clearing,
       Over, Inside, fieldVars, scrollVars, streamVars, timerVars
<1>. USE DEF ScrollDecide
<1>1. ~IsPosted /\ ~IsPosted' /\ UNCHANGED <<type, phase, pc, gestureStream, momentumStream>>
  BY LPGestureAssumption DEF IsPosted, ScrollExclusive, PlaceTyped, ScrollIgnored, StopMomentum, DecayMomentum,
     TrackGesture, ScrollEnding, ReturnScroll, Enter
<1>2. \A u \in Thread : u # t => scroll'[u] = scroll[u] /\ ~Inside(u)
  BY LPGestureAssumption DEF ScrollExclusive, PlaceTyped, ScrollIgnored, StopMomentum, DecayMomentum,
     TrackGesture, ScrollEnding, ReturnScroll, Enter
<1>3. PhasePlaces'
  BY <1>1 DEF PhasePlaces, InMotion
<1>4. pc[t] \in InScroll
  BY DEF Places
<1>5. CASE ScrollIgnored(t)
  <2>. USE <1>5 DEF ScrollIgnored, ReturnScroll
  <2>1. NoMomentum'
    BY <1>1, <1>2, <1>4 DEF NoMomentum, PhasePlaces, InMotion, PlaceTyped, InScroll
  <2>2. GesturePosted' /\ MomentumPosted'
    BY <1>1, <1>2, <1>4 DEF GesturePosted, MomentumPosted, PhasePlaces, PlaceTyped, InScroll
  <2>. QED
    BY <1>1, <1>3, <2>1, <2>2 DEF Stream!vars
<1>6. CASE StopMomentum(t)
  <2>. USE <1>6 DEF StopMomentum, ReturnScroll, Enter
  <2>1. NoMomentum'
    BY <1>1, <1>2, <1>4 DEF NoMomentum, PhasePlaces, InMotion, PlaceTyped, InScroll, Places
  <2>2. GesturePosted' /\ MomentumPosted'
    BY <1>1, <1>2, <1>4 DEF GesturePosted, MomentumPosted, NoMomentum, PhasePlaces, PlaceTyped, InScroll,
       GestureTyped, MPhase
  <2>. QED
    BY <1>1, <1>3, <2>1, <2>2 DEF Stream!vars
<1>7. CASE DecayMomentum(t)
  <2>. USE <1>7 DEF DecayMomentum, Enter, Still
  <2>1. NoMomentum'
    BY <1>1, <1>2, <1>4 DEF NoMomentum, InMotion, PlaceTyped, InScroll, Places
  <2>2. GesturePosted' /\ MomentumPosted'
    BY <1>1, <1>2, <1>4 DEF GesturePosted, MomentumPosted, PlaceTyped, InScroll, NoMomentum
  <2>. QED
    BY <1>1, <1>3, <2>1, <2>2 DEF Stream!vars
<1>8. CASE type = "Scroll" /\ TrackGesture(t)
  <2>. USE <1>8 DEF TrackGesture, ReturnScroll, Enter
  <2>1. InMotion
    BY DEF InMotion, PhasePlaces, GestureTyped, Phase
  <2>2. NoMomentum'
    BY <1>1, <1>2, <1>4, <2>1 DEF NoMomentum, InMotion, PlaceTyped, InScroll, PhasePlaces
  <2>3. GesturePosted' /\ MomentumPosted'
    BY <1>1, <1>2, <1>4, <2>1 DEF GesturePosted, MomentumPosted, PlaceTyped, InScroll, PhasePlaces, InMotion
  <2>. QED
    BY <1>1, <1>3, <2>2, <2>3 DEF Stream!vars
<1>9. CASE ScrollEnding(t)
  <2>. USE <1>9 DEF ScrollEnding, Enter
  <2>1. NoMomentum'
    BY <1>1, <1>2, <1>4 DEF NoMomentum, InMotion, PlaceTyped, InScroll, PhasePlaces
  <2>2. GesturePosted' /\ MomentumPosted'
    BY <1>1, <1>2, <1>4 DEF GesturePosted, MomentumPosted, PlaceTyped, InScroll
  <2>. QED
    BY <1>1, <1>3, <2>1, <2>2 DEF Stream!vars
<1>. QED
  BY <1>5, <1>6, <1>7, <1>8, <1>9 DEF TrackGesture

(* What is posted continues the stream.                                     *)
LEMMA PostStream ==
  ASSUME NEW c, StreamHyp(c), NEW t \in Thread, ScrollPost(t)
  PROVE  StreamStep
<1>. USE LPGestureAssumption DEF StreamHyp, StreamStep, StreamInv, Beginning, Ending, Stopping, Starting, Clearing,
       Over, Inside, fieldVars, scrollVars, streamVars, timerVars
<1>. USE DEF ScrollPost
<1>1. ~IsPosted /\ IsPosted'
  BY LPGestureAssumption DEF IsPosted, ScrollExclusive, PlaceTyped
<1>2. PhasePlaces'
  BY DEF PhasePlaces, InMotion
<1>3. NoMomentum'
  BY DEF NoMomentum, InMotion, PlaceTyped, PostEvent
<1>4. pc[t] \in InScroll
  BY DEF Places
<1>5. CASE mphase = "Undefined"
  <2>1. momentumStream' = momentumStream /\ momentumStream \in Over /\ late' = late
        /\ gestureStream' = IF phase = "Undefined" THEN gestureStream ELSE phase
    BY <1>5 DEF PostEvent, MomentumPosted
  <2>2. GesturePosted' /\ MomentumPosted'
    BY <1>1, <1>4, <1>5, <2>1 DEF GesturePosted, MomentumPosted, PhasePlaces, PlaceTyped, InScroll
  <2>3. [Stream!Next]_(Stream!vars)
    BY <1>1, <2>1 DEF GesturePosted, GestureTyped, Phase, Stream!Next, Stream!GestureBegins,
       Stream!GestureChanges, Stream!GestureEnds, Stream!GestureBeganLost, Stream!Over, Stream!vars
  <2>. QED
    BY <1>2, <1>3, <2>2, <2>3
<1>6. CASE mphase # "Undefined"
  <2>1. ~InMotion /\ phase # "Cancelled" /\ gestureStream = "Ended"
    BY <1>6 DEF NoMomentum, MomentumPosted
  <2>2. gestureStream' = gestureStream /\ momentumStream' = mphase /\ late' = late
    BY <1>6, <2>1 DEF PostEvent, GestureTyped, Phase, InMotion
  <2>3. GesturePosted' /\ MomentumPosted'
    BY <1>1, <1>6, <2>1, <2>2 DEF GesturePosted, MomentumPosted, InMotion, PlaceTyped
  <2>4. [Stream!Next]_(Stream!vars)
    BY <1>1, <1>6, <2>1, <2>2 DEF MomentumPosted, GestureTyped, MPhase, Stream!Next, Stream!MomentumBegins,
       Stream!MomentumChanges, Stream!MomentumEnds, Stream!MomentumBeganLost, Stream!Over, Stream!vars
  <2>. QED
    BY <1>2, <1>3, <2>3, <2>4
<1>. QED
  BY <1>5, <1>6

(* After the posting the phases go on.                                      *)
LEMMA AdvanceStream ==
  ASSUME NEW c, StreamHyp(c), NEW t \in Thread, ScrollAdvance(t)
  PROVE  StreamStep
<1>. USE LPGestureAssumption DEF StreamHyp, StreamStep, StreamInv, Beginning, Ending, Stopping, Starting, Clearing,
       Over, Inside, fieldVars, scrollVars, streamVars, timerVars
<1>. USE DEF ScrollAdvance
<1>1. IsPosted /\ ~IsPosted'
  BY LPGestureAssumption DEF IsPosted, ScrollExclusive, PlaceTyped
<1>2. PhasePlaces'
  BY DEF PhasePlaces, InMotion, Advanced
<1>3. NoMomentum'
  BY DEF NoMomentum, PhasePlaces, InMotion, Places, ScrollExclusive, PlaceTyped, Advanced,
     Beginning
<1>4. pc[t] \in InScroll
  BY DEF Places
<1>5. GesturePosted'
  BY <1>1, <1>4 DEF PhasePlaces, GesturePosted, PlaceTyped, Advanced, InScroll
<1>6. MomentumPosted'
  BY <1>1 DEF MomentumPosted, NoMomentum, InMotion, GestureTyped, MPhase
<1>. QED
  BY <1>2, <1>3, <1>5, <1>6 DEF Stream!vars

(* A tick begins only if there is momentum.                                 *)
LEMMA TickStream ==
  ASSUME NEW c, StreamHyp(c), Tick
  PROVE  StreamStep
<1>. USE LPGestureAssumption DEF StreamHyp, StreamStep, StreamInv, Beginning, Ending, Stopping, Starting, Clearing,
       Over, Inside, fieldVars, scrollVars, streamVars
<1>. USE DEF Tick
<1>1. CASE TickCheck
  <2>. USE <1>1 DEF TickCheck, CallScroll
  <2>1. PhasePlaces' /\ NoMomentum'
    BY DEF PhasePlaces, NoMomentum, InMotion, Places, PlaceTyped, InScroll
  <2>2. GesturePosted' /\ MomentumPosted' /\ UNCHANGED Stream!vars
    BY DEF GesturePosted, MomentumPosted, IsPosted, Places, PlaceTyped, InScroll, Stream!vars
  <2>. QED
    BY <2>1, <2>2
<1>2. CASE TickReturn
  <2>. USE <1>2 DEF TickReturn
  <2>1. PhasePlaces' /\ NoMomentum'
    BY DEF PhasePlaces, NoMomentum, InMotion, PlaceTyped
  <2>2. GesturePosted' /\ MomentumPosted' /\ UNCHANGED Stream!vars
    BY DEF GesturePosted, MomentumPosted, IsPosted, PlaceTyped, Stream!vars
  <2>. QED
    BY <2>1, <2>2
<1>. QED
  BY <1>1, <1>2

(* Every step keeps the stream's invariant, and the stream itself going.    *)
LEMMA NextStream ==
  ASSUME IInv, StreamInv, OneCaller, [Next]_vars
  PROVE  StreamStep
<1>1. ASSUME UNCHANGED <<fieldVars, scrollVars, pc, streamVars>> PROVE StreamStep
  BY <1>1 DEF StreamStep, StreamInv, PhasePlaces, NoMomentum, GesturePosted, MomentumPosted, InMotion,
     IsPosted, Inside, Stream!vars, fieldVars, scrollVars, streamVars
<1>2. ASSUME NEW c \in Caller, NewCall(c) \/ CallStep(c) PROVE StreamStep
  BY <1>2, StreamHypothesis, BeginStream, ApplyStream, EndStream DEF NewCall, CallStep
<1>3. ASSUME NEW t \in Thread, ScrollStep(t) PROVE StreamStep
  BY <1>3, StreamHypothesis, DecideStream, PostStream, AdvanceStream DEF ScrollStep, OneCaller
<1>4. ASSUME Tick PROVE StreamStep
  BY <1>4, StreamHypothesis, TickStream DEF OneCaller
<1>. QED
  BY <1>1, <1>2, <1>3, <1>4 DEF Next, TimerLoop, Destroy, Destroyed, vars

(* The constructor begins with a stream on which nothing has been posted.   *)
LEMMA InitStream == Init => StreamInv /\ Stream!Init
<1>. SUFFICES ASSUME Init PROVE StreamInv /\ Stream!Init
  OBVIOUS
<1>. USE ThreadsDistinct DEF Init, Beginning, Ending, Stopping, Starting, Clearing, Over, Inside
<1>1. PhasePlaces /\ NoMomentum
  BY DEF PhasePlaces, NoMomentum, InMotion
<1>2. GesturePosted /\ MomentumPosted /\ Stream!Init
  BY DEF GesturePosted, MomentumPosted, IsPosted, Stream!Init
<1>. QED
  BY <1>1, <1>2 DEF StreamInv

(* LPGesture implements GestureStream: whatever begin, apply and end a      *)
(* thread calls, and wherever the ticks of the timer come between them,     *)
(* momentum begins after the end of its gesture, is announced once, and is  *)
(* over before the next gesture announces itself.                           *)
THEOREM ImplementsStream == OneCaller => (Spec => StreamWellFormed)
<1>. SUFFICES ASSUME OneCaller PROVE Spec => StreamWellFormed
  OBVIOUS
<1>1. IInv /\ StreamInv /\ [Next]_vars => StreamInv' /\ [Stream!Next]_(Stream!vars)
  BY NextStream DEF StreamStep
<1>. QED
  BY <1>1, InitStream, Invariance, PTL DEF Spec, StreamWellFormed, Stream!Spec
===============================================================================
