----------------------------- MODULE BasicModeProofs -----------------------------
(***************************************************************************)
(* The safety properties of the basic mode hold for every number of         *)
(* pointables, every set of hands, every delay and either count filter.     *)
(***************************************************************************)
EXTENDS BasicMode, TLAPS

OutputState == {"1Pointable_ClickCooldown", "2PlusPointables_Scrolling",
                "2Hands_Rotating", "2Hands_Zooming"}

(* No hand, no pointable: nothing that could be touched with.               *)
Empty == relevant = 0 /\ hands = {} /\ ~TwoHands

(* Where the machine is: between frames it runs nothing, it has a state     *)
(* while it runs, and a next state exactly on a transition's SM_EXIT.       *)
MachineInv ==
  /\ frameStep = "between" => input = "none"
  /\ frameStep \in {"initialize", "process"} => current # NoState
  /\ frameStep = "shutdown" => input \in {"none", "exit"} /\ next = NoState
  /\ frameStep = "shutdown" /\ input = "none" => current = NoState
  /\ current = NoState => input = "none"
  /\ input # "exit" => next = NoState
  /\ input = "exit" /\ frameStep # "shutdown" => next # NoState

(* A state is entered without a gesture, and touch output has none and      *)
(* never presses.                                                           *)
OutputInv ==
  /\ input = "enter" => gesture = NoGesture
  /\ output = "touch" => gesture = NoGesture /\ button = 0 /\ clickDown = "up"
  /\ clickDown = "up" => button = 0

(* In an empty frame no handler leads to a state that holds an output.      *)
QuietInv ==
  /\ relevant = 0 => zone = "NONE"
  /\ Empty => /\ input \in {"none", "enter"} => current \notin OutputState
              /\ next \notin OutputState

(* The hand that scrolls had a touching finger when it was found.           *)
ScrollInv ==
  /\ next = "2PlusPointables_Scrolling" => favoriteHand \in fingers
  /\ At("2PlusPointables_Scrolling", {"enter"}) => favoriteHand \in fingers

(* The touch event is built anew for every frame.                           *)
TouchInv ==
  /\ output = "mouse" \/ frameStep = "between" => touchEvent = {}
  /\ \A h \in Hand : <<h, TRUE>> \in touchEvent => h \in fingers

IInv == TypeOK /\ MachineInv /\ OutputOwned /\ OutputInv /\ QuietInv /\ ScrollInv /\ TouchInv

-------------------------------------------------------------------------------
(* Facts.                                                                   *)

(* The states, and which of them hold an output.                            *)
LEMMA StatesDistinct ==
  /\ NoState \notin State /\ OutputState \subseteq State
  /\ NoGesture \notin GestureType
  BY DEF NoState, State, OutputState, NoGesture, GestureType

(* ToNPointables leads to a state without output.                           *)
LEMMA NPointablesPlain == NPointables \in State \ OutputState
  BY DEF NPointables, State, OutputState

(* Points that are added to the touch event keep it a real one.             *)
LEMMA PointsAdded ==
  ASSUME IInv, NEW P, AddTouchPoints(P), P \subseteq TouchId \X BOOLEAN,
         \A h \in Hand : <<h, TRUE>> \in P => h \in fingers,
         frameStep # "between", UNCHANGED <<frameVars, frameStep>>
  PROVE  touchEvent' \subseteq TouchId \X BOOLEAN /\ TouchInv'
<1>1. touchEvent' \subseteq touchEvent \cup P /\ (output = "mouse" => touchEvent' = touchEvent)
  BY DEF AddTouchPoints
<1>2. touchEvent \subseteq TouchId \X BOOLEAN /\ TouchInv
  BY DEF IInv, TypeOK
<1>. QED
  BY <1>1, <1>2 DEF TouchInv, frameVars

(* So does leaving it as it is, except between frames.                      *)
LEMMA PointsKept ==
  ASSUME IInv, UNCHANGED <<frameVars, touchEvent>>, frameStep' # "between" \/ UNCHANGED frameStep
  PROVE  touchEvent' \subseteq TouchId \X BOOLEAN /\ TouchInv'
  BY DEF IInv, TypeOK, TouchInv, frameVars

(* No point.                                                                *)
LEMMA NoPoint == {} \subseteq TouchId \X BOOLEAN /\ (\A h \in Hand : <<h, TRUE>> \notin {})
  OBVIOUS

(* The point of a finger is not that of a hand; that of a hand is real when *)
(* it does not touch or one of its fingers does.                            *)
LEMMA FingerPoint ==
  ASSUME NEW f \in {"finger", "finger1", "finger2"}, NEW b \in BOOLEAN
  PROVE  <<f, b>> \in TouchId \X BOOLEAN /\ (\A h \in Hand : <<h, TRUE>> # <<f, b>>)
  BY BasicModeAssumption DEF TouchId

(* A hand stands for one point, whether its finger touches or hovers.       *)
LEMMA HandPoint ==
  ASSUME NEW g \in Hand
  PROVE  /\ <<g, TRUE>> \in TouchId \X BOOLEAN /\ <<g, FALSE>> \in TouchId \X BOOLEAN
         /\ \A h \in Hand : <<h, TRUE>> = <<g, TRUE>> => h = g
         /\ \A h \in Hand : <<h, TRUE>> # <<g, FALSE>>
<1>1. g \in TouchId
  BY DEF TouchId
<1>2. \A h \in Hand : <<h, TRUE>> = <<g, TRUE>> => h = g
  OBVIOUS
<1>3. \A h \in Hand : <<h, TRUE>> # <<g, FALSE>>
  OBVIOUS
<1>. QED
  BY <1>1, <1>2, <1>3

(* What the handlers know.                                                  *)
LEMMA Known ==
  ASSUME IInv
  PROVE  /\ fingers \subseteq hands /\ hands \subseteq Hand
         /\ relevant = 0 => zone = "NONE" /\ touching = 0
         /\ input \in {"enter", "frame", "exit"} => current \in State /\ frameStep # "between"
         /\ input \in {"enter", "frame"} => next = NoState
         /\ foremost \in Sight /\ favorite \in Sight /\ favoriteHand \in Hand \cup {"none"}
         /\ clickAge \in 0..(Cooldown + 1) /\ gestureAge \in 0..Recognition
         /\ 0 \in 0..(Cooldown + 1) /\ 0 \in 0..Recognition
         /\ output \in {"mouse", "touch"}
  BY BasicModeAssumption
     DEF IInv, TypeOK, MachineTypeOK, ManagerTypeOK, QuietInv, MachineInv

(* The initial states satisfy the invariant.                                *)
LEMMA InitIInv == Init => IInv
<1>. SUFFICES ASSUME Init PROVE IInv
  OBVIOUS
<1>. USE BasicModeAssumption, ManagerAssumption, StatesDistinct DEF Init, MachineInit, ManagerInit
<1>1. TypeOK
  BY DEF TypeOK, MachineTypeOK, ManagerTypeOK, Ambiguous, Sight
<1>2. MachineInv /\ OutputOwned /\ OutputInv
  BY DEF MachineInv, OutputOwned, OutputInv, NoState, NoGesture
<1>3. QuietInv /\ ScrollInv /\ TouchInv
  BY DEF QuietInv, ScrollInv, TouchInv, NoState, OutputState, At
<1>. QED
  BY <1>1, <1>2, <1>3 DEF IInv

-------------------------------------------------------------------------------
(* Handlers.                                                                *)

(* A handler call that changes no output keeps the invariant if it stays,   *)
(* or asks for a state as the invariant demands.                            *)
LEMMA PlainCall ==
  ASSUME IInv, input \in {"enter", "frame"},
         UNCHANGED <<frameVars, clickVars, gesture, emitted>>,
         touchEvent' \subseteq TouchId \X BOOLEAN, TouchInv',
         favorite' \in Sight, favoriteHand' \in Hand \cup {"none"},
         clickAge' \in 0..(Cooldown + 1), gestureAge' \in 0..Recognition,
         \/ Stay /\ (Empty => current \notin OutputState)
         \/ \E s \in State :
              /\ TransitionTo(s)
              /\ s = "2PlusPointables_Scrolling" => favoriteHand' \in fingers
              /\ Empty => s \notin OutputState
  PROVE  IInv'
<1>. USE StatesDistinct DEF IInv, frameVars, managerVars, clickVars
<1>1. ASSUME Stay, Empty => current \notin OutputState
      PROVE  IInv'
  <2>. USE <1>1 DEF Stay
  <2>1. TypeOK'
    BY DEF TypeOK, MachineTypeOK, ManagerTypeOK, Ambiguous
  <2>2. MachineInv' /\ OutputOwned' /\ OutputInv'
    BY DEF MachineInv, OutputOwned, OutputInv
  <2>3. QuietInv' /\ ScrollInv'
    BY DEF QuietInv, ScrollInv, MachineInv, Empty, TwoHands, At, NoState
  <2>. QED
    BY <2>1, <2>2, <2>3
<1>2. ASSUME NEW s \in State, TransitionTo(s),
             s = "2PlusPointables_Scrolling" => favoriteHand' \in fingers,
             Empty => s \notin OutputState
      PROVE  IInv'
  <2>. USE <1>2 DEF TransitionTo
  <2>1. TypeOK'
    BY DEF TypeOK, MachineTypeOK, ManagerTypeOK, Ambiguous
  <2>2. MachineInv' /\ OutputOwned' /\ OutputInv'
    BY DEF MachineInv, OutputOwned, OutputInv, NoState
  <2>3. QuietInv' /\ ScrollInv'
    BY DEF QuietInv, ScrollInv, MachineInv, Empty, TwoHands, At
  <2>. QED
    BY <2>1, <2>2, <2>3
<1>. QED
  BY <1>1, <1>2

(* The call of any handler keeps the invariant.                             *)
LEMMA HandlerIInv == IInv /\ Handler => IInv'
<1>. SUFFICES ASSUME IInv, Handler PROVE IInv'
  OBVIOUS
<1>0. UNCHANGED <<frameVars, emitted>>
  BY DEF Handler
<1>. USE <1>0, Known, NPointablesPlain, StatesDistinct
<1>1. CASE State_0Pointables
  <2>1. touchEvent' \subseteq TouchId \X BOOLEAN /\ TouchInv'
    BY <1>1, PointsKept DEF State_0Pointables, NoOutput, ToNPointables, TransitionTo, Stay, At
  <2>. QED
    BY <1>1, <2>1, PlainCall
       DEF State_0Pointables, At, NoOutput, ToNPointables, OutputState, ageVars, clickVars
<1>2. CASE State_1Pointable_Hovering
  <2>. USE <1>2 DEF State_1Pointable_Hovering
  <2>1. /\ At("1Pointable_Hovering", {"enter", "frame"}) /\ favorite' \in Sight
        /\ UNCHANGED <<gesture, favoriteHand, gestureAge>>
        /\ UNCHANGED frameStep
    BY DEF At, Reset, ToNPointables, TransitionTo, Stay
  <2>2. ASSUME NEW b \in BOOLEAN, AddTouchPoints({<<"finger", b>>})
        PROVE  touchEvent' \subseteq TouchId \X BOOLEAN /\ TouchInv'
    BY <2>1, <2>2, FingerPoint, PointsAdded DEF At
  <2>3. CASE Not1 /\ ToNPointables /\ NoOutput /\ UNCHANGED clickAge
    <3>1. touchEvent' \subseteq TouchId \X BOOLEAN /\ TouchInv'
      BY <2>1, <2>3, PointsKept DEF NoOutput
    <3>. QED
      BY <2>1, <2>3, <3>1, PlainCall
         DEF At, NoOutput, ToNPointables, clickVars, OutputState
  <2>4. CASE ~Not1 /\ zone # "TOUCHING" /\ AddTouchPoints({<<"finger", FALSE>>}) /\ NoClick /\ Stay
    BY <2>1, <2>2, <2>4, PlainCall DEF At, NoClick, OutputState
  <2>5. CASE /\ ~Not1 /\ zone = "TOUCHING"
             /\ IF output = "mouse" THEN Press ELSE UNCHANGED clickVars
             /\ AddTouchPoints({<<"finger", TRUE>>})
             /\ clickAge' = 0 /\ TransitionTo("1Pointable_ClickCooldown")
    <3>. USE <2>1, <2>5 DEF At, TransitionTo, IInv, frameVars, managerVars, clickVars
    <3>1. touchEvent' \subseteq TouchId \X BOOLEAN /\ TouchInv'
      BY <2>2
    <3>2. /\ clickNumber' \in 0..3 /\ clickDown' \in {"up", "down"} /\ button' \in 0..3
          /\ output = "touch" => UNCHANGED clickVars
          /\ output = "mouse" => button' = clickNumber' /\ clickDown' = "down"
      <4>1. ASSUME Press
            PROVE  clickNumber' \in 0..3 /\ button' = clickNumber' /\ clickDown' = "down"
        <5>1. clickNumber \in 0..3
          BY DEF TypeOK
        <5>. QED
          BY <4>1, <5>1 DEF Press
      <4>. QED
        BY <4>1 DEF TypeOK
    <3>3. TypeOK'
      BY <3>1, <3>2 DEF TypeOK, MachineTypeOK, ManagerTypeOK, Ambiguous, OutputState
    <3>4. MachineInv'
      BY DEF MachineInv, OutputState
    <3>5. OutputOwned' /\ OutputInv'
      BY <3>2 DEF OutputOwned, OutputInv
    <3>6. QuietInv' /\ ScrollInv'
      BY DEF QuietInv, ScrollInv, MachineInv, Empty, TwoHands, OutputState
    <3>. QED
      BY <3>1, <3>3, <3>4, <3>5, <3>6
  <2>. QED
    BY <2>3, <2>4, <2>5
<1>3. CASE State_1Pointable_ClickCooldown
  <2>. USE <1>3 DEF State_1Pointable_ClickCooldown
  <2>1. /\ At("1Pointable_ClickCooldown", {"enter", "frame"})
        /\ UNCHANGED <<gesture, favorite, favoriteHand, ageVars, frameStep>>
    BY DEF At, ToNPointables, TransitionTo, Stay
  <2>2. touchEvent' \subseteq TouchId \X BOOLEAN /\ TouchInv'
    <3>1. CASE AddTouchPoints({<<"finger", TRUE>>})
      BY <2>1, <3>1, FingerPoint, PointsAdded DEF At
    <3>2. CASE UNCHANGED touchEvent
      BY <2>1, <3>2, PointsKept
    <3>. QED
      BY <3>1, <3>2 DEF NoOutput
  <2>3. CASE UNCHANGED clickVars
    <3>1. Empty => zone # "TOUCHING"
      BY DEF Empty
    <3>. QED
      BY <2>1, <2>2, <2>3, <3>1, PlainCall DEF At, ToNPointables, State, OutputState, ageVars
  <2>4. CASE Release /\ zone = "TOUCHING" /\ Stay
    <3>. USE <2>1, <2>2, <2>4 DEF At, Stay, Release, IInv, frameVars, managerVars, ageVars
    <3>1. TypeOK'
      BY DEF TypeOK, MachineTypeOK, ManagerTypeOK, Ambiguous
    <3>2. MachineInv' /\ OutputOwned' /\ OutputInv'
      BY DEF MachineInv, OutputOwned, OutputInv
    <3>3. QuietInv' /\ ScrollInv'
      BY DEF QuietInv, ScrollInv, MachineInv, Empty, TwoHands, NoState
    <3>. QED
      BY <3>1, <3>2, <3>3
  <2>. QED
    BY <2>3, <2>4 DEF NoOutput
<1>4. CASE Exit_1Pointable_ClickCooldown
  <2>. USE <1>4 DEF Exit_1Pointable_ClickCooldown, Exited, At, IInv, frameVars, managerVars, clickVars, ageVars
  <2>1. UNCHANGED <<frameVars, touchEvent>> /\ UNCHANGED frameStep
    OBVIOUS
  <2>2. touchEvent' \subseteq TouchId \X BOOLEAN /\ TouchInv'
    BY <2>1, PointsKept
  <2>3. TypeOK'
    BY <2>2 DEF TypeOK, MachineTypeOK, ManagerTypeOK, Ambiguous, Release
  <2>4. MachineInv'
    BY DEF MachineInv
  <2>5. OutputOwned' /\ OutputInv'
    BY DEF OutputOwned, OutputInv, MachineInv, NoState, TypeOK, OutputState, NoGesture, GestureType, Release
  <2>6. QuietInv' /\ ScrollInv'
    BY DEF QuietInv, ScrollInv, MachineInv, Empty, TwoHands, NoState, OutputState
  <2>. QED
    BY <2>2, <2>3, <2>4, <2>5, <2>6
<1>5. CASE State_2PlusPointables_Hovering
  <2>. USE <1>5 DEF State_2PlusPointables_Hovering
  <2>1. /\ At("2PlusPointables_Hovering", {"enter", "frame"})
        /\ UNCHANGED <<clickVars, gesture, ageVars, frameStep>>
        /\ favorite' \in Sight
    BY DEF At, Reset, ToNPointables, TransitionTo, Stay
  <2> DEFINE stored == IF input = "enter" THEN "none" ELSE favoriteHand
             found  == IF favorite' = "handless" THEN "none" ELSE favorite'
             hand   == IF stored = "none" THEN found ELSE stored
  <2>2. stored \in Hand \cup {"none"} /\ hand \in Hand \cup {"none"}
    BY <2>1 DEF Sight
  <2>3. touchEvent' \subseteq TouchId \X BOOLEAN /\ TouchInv'
    <3>1. CASE UNCHANGED touchEvent
      BY <2>1, <3>1, PointsKept
    <3>2. CASE AddTouchPoints({})
      BY <2>1, <3>2, PointsAdded DEF At
    <3>3. CASE AddTouchPoints({<<"finger", FALSE>>})
      BY <2>1, <3>3, FingerPoint, PointsAdded DEF At
    <3>4. CASE hand \in hands /\ AddTouchPoints({<<hand, FALSE>>})
      <4>1. {<<hand, FALSE>>} \subseteq TouchId \X BOOLEAN
            /\ \A h \in Hand : <<h, TRUE>> \notin {<<hand, FALSE>>}
        BY <3>4, HandPoint
      <4>. HIDE DEF hand
      <4>. QED
        BY <2>1, <3>4, <4>1, PointsAdded DEF At
    <3>. QED
      BY <3>1, <3>2, <3>3, <3>4
  <2>4. /\ favoriteHand' \in Hand \cup {"none"}
        /\ \/ Stay
           \/ ToNPointables
           \/ TransitionTo("2PlusPointables_Scrolling") /\ favoriteHand' \in fingers
    BY <2>2
  <2>5. Empty => fingers = {}
    BY DEF Empty
  <2>. QED
    BY <2>1, <2>3, <2>4, <2>5, PlainCall DEF At, ToNPointables, State, OutputState, ageVars
<1>6. CASE Enter_2PlusPointables_Scrolling
  <2>. USE <1>6 DEF Enter_2PlusPointables_Scrolling, Stay, At, IInv, frameVars, managerVars,
                  clickVars, ageVars, BeginGesture
  <2>1. favoriteHand \in fingers /\ UNCHANGED frameStep
    BY DEF ScrollInv
  <2>2. touchEvent' \subseteq TouchId \X BOOLEAN /\ TouchInv'
    <3>1. {<<favoriteHand, TRUE>>} \subseteq TouchId \X BOOLEAN
          /\ \A h \in Hand : <<h, TRUE>> \in {<<favoriteHand, TRUE>>} => h \in fingers
      BY <2>1, HandPoint
    <3>. QED
      BY <2>1, <3>1, PointsAdded
  <2>3. TypeOK'
    BY <2>2 DEF TypeOK, MachineTypeOK, ManagerTypeOK, Ambiguous, GestureType
  <2>4. MachineInv' /\ OutputOwned' /\ OutputInv'
    BY DEF MachineInv, OutputOwned, OutputInv
  <2>5. QuietInv' /\ ScrollInv'
    BY <2>1 DEF QuietInv, ScrollInv, MachineInv, Empty, TwoHands, NoState
  <2>. QED
    BY <2>2, <2>3, <2>4, <2>5
<1>7. CASE State_2PlusPointables_Scrolling
  <2>. USE <1>7 DEF State_2PlusPointables_Scrolling
  <2>1. /\ At("2PlusPointables_Scrolling", {"frame"})
        /\ UNCHANGED <<clickVars, gesture, favorite, favoriteHand, ageVars, frameStep>>
    BY DEF At, ToNPointables, TransitionTo, Stay
  <2>2. touchEvent' \subseteq TouchId \X BOOLEAN /\ TouchInv'
    <3>1. CASE UNCHANGED touchEvent
      BY <2>1, <3>1, PointsKept
    <3>2. CASE favoriteHand \in fingers /\ AddTouchPoints({<<favoriteHand, TRUE>>})
      <4>1. {<<favoriteHand, TRUE>>} \subseteq TouchId \X BOOLEAN
            /\ \A h \in Hand : <<h, TRUE>> \in {<<favoriteHand, TRUE>>} => h \in fingers
        BY <3>2, HandPoint
      <4>. QED
        BY <2>1, <3>2, <4>1, PointsAdded DEF At
    <3>. QED
      BY <3>1, <3>2
  <2>3. Empty => favoriteHand \notin fingers
    BY DEF Empty
  <2>. QED
    BY <2>1, <2>2, <2>3, PlainCall DEF At, ToNPointables, ageVars, OutputState
<1>8. CASE Exit_2PlusPointables_Scrolling
  <2>. USE <1>8 DEF Exit_2PlusPointables_Scrolling, EndGesture, Exited, At, IInv, frameVars, managerVars, clickVars, ageVars
  <2>1. UNCHANGED <<frameVars>> /\ UNCHANGED frameStep
    OBVIOUS
  <2>2. touchEvent' \subseteq TouchId \X BOOLEAN /\ TouchInv'
    <3>1. CASE favoriteHand \in hands
      <4>1. {<<favoriteHand, FALSE>>} \subseteq TouchId \X BOOLEAN
            /\ \A h \in Hand : <<h, TRUE>> \notin {<<favoriteHand, FALSE>>}
        BY <3>1, HandPoint
      <4>. QED
        BY <2>1, <3>1, <4>1, PointsAdded
    <3>2. CASE favoriteHand \notin hands
      BY <2>1, <3>2, PointsAdded
    <3>. QED
      BY <3>1, <3>2
  <2>3. TypeOK'
    BY <2>2 DEF TypeOK, MachineTypeOK, ManagerTypeOK, Ambiguous
  <2>4. MachineInv'
    BY DEF MachineInv
  <2>5. OutputOwned' /\ OutputInv'
    BY DEF OutputOwned, OutputInv, MachineInv, NoState, TypeOK, OutputState, NoGesture, GestureType
  <2>6. QuietInv' /\ ScrollInv'
    BY DEF QuietInv, ScrollInv, MachineInv, Empty, TwoHands, NoState, OutputState
  <2>. QED
    BY <2>2, <2>3, <2>4, <2>5, <2>6
<1>9. CASE State_2Hands_Hovering
  <2>. USE <1>9 DEF State_2Hands_Hovering
  <2>1. /\ At("2Hands_Hovering", {"enter", "frame"}) /\ favorite' \in Sight
        /\ UNCHANGED <<clickVars, gesture, favoriteHand, ageVars, frameStep>>
    BY DEF At, Reset, ToNPointables, TransitionTo, Stay
  <2>2. touchEvent' \subseteq TouchId \X BOOLEAN /\ TouchInv'
    <3>1. CASE UNCHANGED touchEvent
      BY <2>1, <3>1, PointsKept
    <3>2. CASE AddTouchPoints({<<"finger1", FALSE>>, <<"finger2", FALSE>>})
      BY <2>1, <3>2, FingerPoint, PointsAdded DEF At
    <3>. QED
      BY <3>1, <3>2
  <2>. QED
    BY <2>1, <2>2, PlainCall DEF At, ToNPointables, ageVars, OutputState, State, Empty
<1>10. CASE State_2Hands_GestureRecognition
  <2>. USE <1>10 DEF State_2Hands_GestureRecognition, LeaveTwoHands
  <2>1. /\ At("2Hands_GestureRecognition", {"enter", "frame"})
        /\ UNCHANGED <<clickVars, gesture, favorite, favoriteHand, clickAge, frameStep, touchEvent>>
    BY DEF At, NoOutput, ToNPointables, TransitionTo, Stay
  <2>2. touchEvent' \subseteq TouchId \X BOOLEAN /\ TouchInv'
    BY <2>1, PointsKept
  <2>. QED
    BY <2>1, <2>2, PlainCall DEF At, ToNPointables, OutputState, State, Empty
<1>11. CASE Enter_2Hands_Gesture
  <2>. USE <1>11 DEF Enter_2Hands_Gesture, Stay, At, IInv, frameVars, managerVars,
                  clickVars, ageVars, BeginGesture
  <2>1. touchEvent' \subseteq TouchId \X BOOLEAN /\ TouchInv'
    BY PointsKept
  <2>2. TypeOK'
    BY <2>1 DEF TypeOK, MachineTypeOK, ManagerTypeOK, Ambiguous, GestureType
  <2>3. MachineInv' /\ OutputOwned' /\ OutputInv'
    BY DEF MachineInv, OutputOwned, OutputInv
  <2>4. QuietInv' /\ ScrollInv'
    BY DEF QuietInv, ScrollInv, MachineInv, Empty, TwoHands, NoState
  <2>. QED
    BY <2>1, <2>2, <2>3, <2>4
<1>12. CASE State_2Hands_Gesture
  <2>. USE <1>12 DEF State_2Hands_Gesture, LeaveTwoHands
  <2>1. /\ input = "frame" /\ current \in State
        /\ UNCHANGED <<clickVars, gesture, favorite, favoriteHand, ageVars, frameStep, touchEvent>>
    BY DEF At, NoOutput, ToNPointables, TransitionTo, Stay
  <2>2. touchEvent' \subseteq TouchId \X BOOLEAN /\ TouchInv'
    BY <2>1, PointsKept
  <2>. QED
    BY <2>1, <2>2, PlainCall DEF ToNPointables, ageVars, OutputState, State, Empty
<1>13. CASE Exit_2Hands_Gesture
  <2>. USE <1>13 DEF Exit_2Hands_Gesture, EndGesture, Exited, At, IInv, frameVars, managerVars, clickVars, ageVars
  <2>1. UNCHANGED <<frameVars, touchEvent>> /\ UNCHANGED frameStep
    OBVIOUS
  <2>2. touchEvent' \subseteq TouchId \X BOOLEAN /\ TouchInv'
    BY <2>1, PointsKept
  <2>3. TypeOK'
    BY <2>2 DEF TypeOK, MachineTypeOK, ManagerTypeOK, Ambiguous
  <2>4. MachineInv'
    BY DEF MachineInv
  <2>5. OutputOwned' /\ OutputInv'
    BY DEF OutputOwned, OutputInv, MachineInv, NoState, TypeOK, OutputState, NoGesture, GestureType
  <2>6. QuietInv' /\ ScrollInv'
    BY DEF QuietInv, ScrollInv, MachineInv, Empty, TwoHands, NoState, OutputState
  <2>. QED
    BY <2>2, <2>3, <2>4, <2>5, <2>6
<1>14. CASE State_2Hands_Touch
  <2>. USE <1>14 DEF State_2Hands_Touch
  <2>1. /\ At("2Hands_Touch", {"enter", "frame"})
        /\ UNCHANGED <<clickVars, gesture, favorite, favoriteHand, ageVars, frameStep>>
    BY DEF At, ToNPointables, TransitionTo, Stay
  <2>2. touchEvent' \subseteq TouchId \X BOOLEAN /\ TouchInv'
    <3>1. CASE UNCHANGED touchEvent
      BY <2>1, <3>1, PointsKept
    <3>2. CASE AddTouchPoints({<<"finger1", TRUE>>, <<"finger2", TRUE>>})
      BY <2>1, <3>2, FingerPoint, PointsAdded DEF At
    <3>. QED
      BY <3>1, <3>2
  <2>. QED
    BY <2>1, <2>2, PlainCall DEF At, ToNPointables, ageVars, OutputState, State
<1>15. CASE Exit_Other
  <2>. USE <1>15 DEF Exit_Other, NoOutput, Exited, At, IInv, frameVars, managerVars, clickVars, ageVars
  <2>1. UNCHANGED <<frameVars, touchEvent>> /\ UNCHANGED frameStep
    OBVIOUS
  <2>2. touchEvent' \subseteq TouchId \X BOOLEAN /\ TouchInv'
    BY <2>1, PointsKept
  <2>3. TypeOK'
    BY <2>2 DEF TypeOK, MachineTypeOK, ManagerTypeOK, Ambiguous
  <2>4. MachineInv'
    BY DEF MachineInv
  <2>5. OutputOwned' /\ OutputInv'
    BY DEF OutputOwned, OutputInv, MachineInv, NoState, TypeOK, OutputState, NoGesture, GestureType
  <2>6. QuietInv' /\ ScrollInv'
    BY DEF QuietInv, ScrollInv, MachineInv, Empty, TwoHands, NoState, OutputState
  <2>. QED
    BY <2>2, <2>3, <2>4, <2>5, <2>6
<1>. QED
  BY <1>1, <1>2, <1>3, <1>4, <1>5, <1>6, <1>7, <1>8, <1>9,
     <1>10, <1>11, <1>12, <1>13, <1>14, <1>15 DEF Handler

-------------------------------------------------------------------------------
(* Frames, deletion and disconnection.                                      *)

(* Every step keeps the invariant.                                          *)
LEMMA NextIInv == IInv /\ [Next]_vars => IInv'
<1>. SUFFICES ASSUME IInv, [Next]_vars PROVE IInv'
  OBVIOUS
<1>. USE BasicModeAssumption, ManagerAssumption, StatesDistinct
     DEF IInv, frameVars, managerVars, clickVars, ageVars, touchVars
<1>1. CASE ProcessFrame
  <2>. USE <1>1 DEF ProcessFrame, Initialize, RunCurrentState
  <2>1. TypeOK'
    <3>1. ManagerTypeOK'
      BY DEF Observe, CollectiveZone, Filtered, Ambiguous, TypeOK, ManagerTypeOK
    <3>2. clickAge' \in 0..(Cooldown + 1) /\ gestureAge' \in 0..Recognition
      BY DEF Older, TypeOK
    <3>3. MachineTypeOK(State, {"frame"}, {"between", "initialize", "process", "shutdown"})'
      BY DEF TypeOK, MachineTypeOK, State
    <3>4. foremost' \in Sight /\ favorite' \in Sight /\ hands' \subseteq Hand
          /\ fingers' \subseteq hands'
      BY DEF Sight
    <3>. QED
      BY <3>1, <3>2, <3>3, <3>4 DEF TypeOK
  <2>2. MachineInv' /\ OutputOwned' /\ OutputInv'
    <3>1. next = NoState /\ (current = NoState => gesture = NoGesture)
      BY DEF MachineInv, OutputOwned, NoState, TypeOK, GestureType
    <3>2. MachineInv'
      BY <3>1 DEF MachineInv, NoState
    <3>3. OutputOwned'
      BY <3>1 DEF OutputOwned, NoState, NoGesture
    <3>4. OutputInv'
      BY <3>1 DEF OutputInv
    <3>. QED
      BY <3>2, <3>3, <3>4
  <2>3. QuietInv' /\ ScrollInv' /\ TouchInv'
    BY DEF QuietInv, ScrollInv, TouchInv, MachineInv, Observe, CollectiveZone, Empty, TwoHands,
       NoState, OutputState, At
  <2>. QED
    BY <2>1, <2>2, <2>3
<1>2. CASE ProcessFirstFrame
  <2>. USE <1>2 DEF ProcessFirstFrame, RunCurrentState, Quiet
  <2>1. TypeOK'
    BY DEF TypeOK, MachineTypeOK, ManagerTypeOK, Ambiguous, Sight
  <2>2. MachineInv' /\ OutputOwned' /\ OutputInv'
    BY DEF MachineInv, OutputOwned, OutputInv, NoState, NoGesture, GestureType, TypeOK
  <2>3. QuietInv' /\ ScrollInv' /\ TouchInv'
    BY DEF QuietInv, ScrollInv, TouchInv, MachineInv, Empty, TwoHands, NoState, At, TypeOK, OutputState
  <2>. QED
    BY <2>1, <2>2, <2>3
<1>3. CASE EndFrame
  <2>. USE <1>3 DEF EndFrame, Quiet
  <2>1. TypeOK'
    BY DEF TypeOK, MachineTypeOK, ManagerTypeOK, Ambiguous, Sight
  <2>2. MachineInv' /\ OutputOwned' /\ OutputInv'
    BY DEF MachineInv, OutputOwned, OutputInv, NoState, NoGesture, GestureType, TypeOK
  <2>3. QuietInv' /\ ScrollInv' /\ TouchInv'
    BY DEF QuietInv, ScrollInv, TouchInv, MachineInv, Empty, TwoHands, NoState, At, TypeOK, OutputState
  <2>. QED
    BY <2>1, <2>2, <2>3
<1>4. CASE Destroy
  <2>. USE <1>4 DEF Destroy, Shutdown
  <2>1. TypeOK'
    BY DEF TypeOK, MachineTypeOK, ManagerTypeOK, Ambiguous, Sight
  <2>2. MachineInv' /\ OutputOwned' /\ OutputInv'
    BY DEF MachineInv, OutputOwned, OutputInv, NoState, NoGesture, GestureType, TypeOK
  <2>3. QuietInv' /\ ScrollInv' /\ TouchInv'
    BY DEF QuietInv, ScrollInv, TouchInv, MachineInv, Empty, TwoHands, NoState, At, TypeOK, OutputState
  <2>. QED
    BY <2>1, <2>2, <2>3
<1>5. CASE Recreate
  <2>. USE <1>5 DEF Recreate, Quiet
  <2>1. TypeOK'
    BY DEF TypeOK, MachineTypeOK, ManagerTypeOK, Ambiguous, Sight
  <2>2. MachineInv' /\ OutputOwned' /\ OutputInv'
    BY DEF MachineInv, OutputOwned, OutputInv, NoState, NoGesture, GestureType, TypeOK
  <2>3. QuietInv' /\ ScrollInv' /\ TouchInv'
    BY DEF QuietInv, ScrollInv, TouchInv, MachineInv, Empty, TwoHands, NoState, At, TypeOK, OutputState
  <2>. QED
    BY <2>1, <2>2, <2>3
<1>6. CASE Cancel
  <2>. USE <1>6 DEF Cancel, machineVars
  <2>1. TypeOK'
    BY DEF TypeOK, MachineTypeOK, ManagerTypeOK, Ambiguous, Sight
  <2>2. MachineInv' /\ OutputOwned' /\ OutputInv'
    BY DEF MachineInv, OutputOwned, OutputInv, NoState, NoGesture, GestureType, TypeOK
  <2>3. QuietInv' /\ ScrollInv' /\ TouchInv'
    BY DEF QuietInv, ScrollInv, TouchInv, MachineInv, Empty, TwoHands, NoState, At, TypeOK, OutputState
  <2>. QED
    BY <2>1, <2>2, <2>3
<1>7. CASE UNCHANGED vars
  <2>. USE <1>7 DEF vars, machineVars
  <2>1. TypeOK'
    BY DEF TypeOK, MachineTypeOK, ManagerTypeOK, Ambiguous, Sight
  <2>2. MachineInv' /\ OutputOwned' /\ OutputInv'
    BY DEF MachineInv, OutputOwned, OutputInv, NoState, NoGesture, GestureType, TypeOK
  <2>3. QuietInv' /\ ScrollInv' /\ TouchInv'
    BY DEF QuietInv, ScrollInv, TouchInv, MachineInv, Empty, TwoHands, NoState, At, TypeOK, OutputState
  <2>. QED
    BY <2>1, <2>2, <2>3
<1>. QED
  BY <1>1, <1>2, <1>3, <1>4, <1>5, <1>6, <1>7, HandlerIInv DEF Next

-------------------------------------------------------------------------------
(* The theorems.                                                            *)

(* The invariant holds in every state the mode reaches.                     *)
THEOREM Invariance == Spec => []IInv
  BY InitIInv, NextIInv, PTL DEF Spec

(* BasicMode: the machine and every field keep their types.                 *)
THEOREM TypeCorrect == Spec => []TypeOK
<1>1. IInv => TypeOK
  BY DEF IInv
<1>. QED
  BY <1>1, Invariance, PTL

(* Scrolling, rotating, zooming and the click being cooled down: no other   *)
(* state ever holds the driver's gesture or its button.                     *)
THEOREM OutputIsOwned == Spec => []OutputOwned
<1>1. IInv => OutputOwned
  BY DEF IInv
<1>. QED
  BY <1>1, Invariance, PTL

(* An empty frame leaves no gesture and no pressed button, because none of  *)
(* its handler calls leads to a state that holds one; nor does the          *)
(* destructor of the mode, because it leaves the state.                     *)
THEOREM EmptyOrGoneQuiet == Spec => []EmptyOrGoneIsQuiet
<1>1. ASSUME IInv, current \notin OutputState, next \notin OutputState
      PROVE  NothingLeft
  BY <1>1 DEF IInv, OutputOwned, OutputInv, OutputState, TypeOK, GestureType, NoGesture, NothingLeft
<1>2. IInv => EmptyOrGoneIsQuiet
  <2>. SUFFICES ASSUME IInv PROVE EmptyOrGoneIsQuiet
    OBVIOUS
  <2>1. CASE frameStep = "between" /\ Empty
    BY <1>1, <2>1 DEF IInv, MachineInv, QuietInv, EmptyOrGoneIsQuiet
  <2>2. CASE frameStep = "shutdown" /\ Quiet
    BY <1>1, <2>2, StatesDistinct DEF IInv, MachineInv, Quiet, EmptyOrGoneIsQuiet
  <2>. QED
    BY <2>1, <2>2 DEF EmptyOrGoneIsQuiet, Empty
<1>. QED
  BY <1>2, Invariance, PTL

(* A touch event never reports a hand as touching that has no finger        *)
(* touching.                                                                *)
THEOREM HandTouchesReal == Spec => []HandTouchesAreReal
<1>1. IInv => HandTouchesAreReal
  BY DEF IInv, HandTouchesAreReal, TouchInv
<1>. QED
  BY <1>1, Invariance, PTL

(* The mode implements PointerOutput: whatever it is shown, and whenever it *)
(* is disconnected or deleted.                                              *)
THEOREM ImplementsOutput == Spec => OutputSpec
<1>1. Init => Output!Init
  BY DEF Init, Output!Init
<1>2. IInv /\ [Next]_vars => [Output!Next]_(Output!outputVars)
  <2>. SUFFICES ASSUME IInv, [Next]_vars
                PROVE  Output!Next \/ UNCHANGED outputVars
    BY DEF outputVars, Output!outputVars
  <2>. USE StatesDistinct
       DEF outputVars, Output!Next, Output!Begin, Output!End, Output!Press, Output!Release
  <2>1. CASE ~Handler
    BY <2>1 DEF Next, ProcessFrame, ProcessFirstFrame, EndFrame, Destroy, Recreate, Cancel,
       IInv, MachineInv, OutputOwned, OutputInv, Quiet, NoState, clickVars, vars, frameVars,
       touchVars, TypeOK, GestureType
  <2>2. CASE State_1Pointable_Hovering
    <3>1. gesture = NoGesture /\ button = 0 /\ clickNumber \in 0..3 /\ UNCHANGED gesture
      BY <2>2 DEF State_1Pointable_Hovering, At, IInv, OutputOwned, OutputInv, MachineInv,
         TypeOK, GestureType, NoState
    <3>2. Press \/ UNCHANGED button
      BY <2>2 DEF State_1Pointable_Hovering, NoOutput, NoClick, clickVars
    <3>. QED
      BY <3>1, <3>2 DEF Press
  <2>3. CASE State_1Pointable_ClickCooldown \/ Exit_1Pointable_ClickCooldown
    BY <2>3 DEF State_1Pointable_ClickCooldown, Exit_1Pointable_ClickCooldown, Release, NoOutput,
       clickVars
  <2>4. CASE Enter_2PlusPointables_Scrolling \/ Enter_2Hands_Gesture
    <3>1. gesture = NoGesture /\ button = 0 /\ UNCHANGED button
      BY <2>4 DEF Enter_2PlusPointables_Scrolling, Enter_2Hands_Gesture, At, IInv, OutputOwned,
         OutputInv, MachineInv, NoState, clickVars, TypeOK
    <3>2. gesture' \in GestureType \/ UNCHANGED gesture
      BY <2>4 DEF Enter_2PlusPointables_Scrolling, Enter_2Hands_Gesture, BeginGesture, GestureType
    <3>. QED
      BY <3>1, <3>2
  <2>5. CASE Exit_2PlusPointables_Scrolling \/ Exit_2Hands_Gesture
    BY <2>5 DEF Exit_2PlusPointables_Scrolling, Exit_2Hands_Gesture, EndGesture, clickVars
  <2>6. CASE /\ Handler
             /\ ~State_1Pointable_Hovering /\ ~State_1Pointable_ClickCooldown
             /\ ~Exit_1Pointable_ClickCooldown /\ ~Enter_2PlusPointables_Scrolling
             /\ ~Enter_2Hands_Gesture /\ ~Exit_2PlusPointables_Scrolling
             /\ ~Exit_2Hands_Gesture
    BY <2>6 DEF Handler, State_0Pointables, State_2PlusPointables_Hovering,
       State_2PlusPointables_Scrolling, State_2Hands_Hovering, State_2Hands_GestureRecognition,
       State_2Hands_Gesture, State_2Hands_Touch, Exit_Other, NoOutput, clickVars
  <2>. QED
    BY <2>1, <2>2, <2>3, <2>4, <2>5, <2>6
<1>. QED
  BY <1>1, <1>2, Invariance, PTL DEF Spec, OutputSpec, Output!Spec

-------------------------------------------------------------------------------
(* How long a frame's chain of calls is.                                    *)

(* The state that is asked for, until its entry is over, is one the frame   *)
(* speaks for: it is not left again for the reason it was chosen against.   *)
Suits(s) ==
  /\ s = "0Pointables_NoInteraction" => count \in {0, Ambiguous} /\ ~TwoHands
  /\ s = "1Pointable_Hovering" => ~Not1
  /\ s = "1Pointable_ClickCooldown" => ~Not1 /\ zone = "TOUCHING"
  /\ s = "2PlusPointables_Hovering" => ~CountIn({0, 1}) /\ ~TwoHands
  /\ s = "2Hands_Hovering" => TwoHands
  /\ s = "2Hands_GestureRecognition" => TwoHands /\ ~HandsUp
  /\ s = "2Hands_Touch" => TwoHands /\ zone = "TOUCHING"

(* The first entry of a mode is not asked for by any state.                 *)
First == frameStep = "initialize" /\ At("0Pointables_NoInteraction", {"enter"})

EntryInv ==
  /\ foremost \in hands \cup {"handless", "none"}
  /\ frameStep = "initialize" => input # "frame" /\ next # "0Pointables_NoInteraction"
  /\ input = "enter" => First \/ Suits(current)
  /\ input = "exit" /\ next # NoState => Suits(next)

(* Does the handler ask for s, which suits the frame, and does this bring   *)
(* the end of the chain nearer?                                             *)
Asks(s) ==
  /\ TransitionTo(s)
  /\ Suits(s)
  /\ frameStep = "initialize" => s # "0Pointables_NoInteraction"
  /\ input = "enter" => Depth(s) < Depth(current)

(* The depths of the states, and what is left of a chain at every call.     *)
LEMMA DepthBounded ==
  /\ \A s : Depth(s) \in 0..3
  /\ input = "enter" => CallsLeft = 2 * Depth(current) + 1
  /\ input = "exit" => CallsLeft = IF next = NoState THEN 1 ELSE 2 * Depth(next) + 2
  /\ input = "frame" => CallsLeft = 7
<1>1. \A s : Depth(s) \in 0..3
  BY DEF Depth
<1>. QED
  BY <1>1 DEF CallsLeft

(* Only the first entry is three states from the end.                       *)
LEMMA DeepestIsFirst ==
  ASSUME NEW s, frameStep = "initialize" => s # "0Pointables_NoInteraction"
  PROVE  Depth(s) \in 0..2
  BY DEF Depth

(* While the frame is the same, so are the depths and what suits it.        *)
LEMMA FrameKept ==
  ASSUME UNCHANGED <<frameVars, frameStep>>
  PROVE  \A s : Depth(s)' = Depth(s) /\ Suits(s)' = Suits(s)
  BY DEF frameVars, managerVars, Depth, Suits, Not1, CountIn, TwoHands, HandsUp, Ambiguous

(* A handler that stays ends the chain; one that asks for a state goes on   *)
(* with a shorter one.                                                      *)
LEMMA CallShortens ==
  ASSUME IInv, EntryInv, input \in {"enter", "frame"}, UNCHANGED frameVars,
         Stay \/ \E s \in State : Asks(s)
  PROVE  EntryInv' /\ CallsLeft' \in 0..(CallsLeft - 1)
<1>1. CASE Stay
  <2>1. CallsLeft' = 0
    BY <1>1 DEF Stay, CallsLeft
  <2>2. CallsLeft \in Nat /\ CallsLeft >= 1
    BY DepthBounded
  <2>3. EntryInv'
    BY <1>1 DEF Stay, EntryInv, First, frameVars
  <2>. QED
    BY <2>1, <2>2, <2>3
<1>2. ASSUME NEW s \in State, Asks(s)
      PROVE  EntryInv' /\ CallsLeft' \in 0..(CallsLeft - 1)
  <2>1. UNCHANGED frameStep /\ next' = s /\ input' = "exit" /\ s # NoState
    BY <1>2, StatesDistinct DEF Asks, TransitionTo
  <2>2. Depth(s)' = Depth(s) /\ Suits(s)' = Suits(s)
    BY <2>1, FrameKept
  <2>3. CallsLeft' = 2 * Depth(s) + 2
    BY <2>1, <2>2 DEF CallsLeft
  <2>4. Depth(s) \in 0..2
    BY <1>2, DeepestIsFirst DEF Asks
  <2>5. CallsLeft' \in 0..(CallsLeft - 1)
    BY <1>2, <2>3, <2>4, DepthBounded DEF Asks
  <2>6. EntryInv'
    BY <1>2, <2>1, <2>2 DEF Asks, EntryInv, frameVars
  <2>. QED
    BY <2>5, <2>6
<1>. QED
  BY <1>1, <1>2

(* An exit is followed by the entry that was asked for, or by nothing.      *)
LEMMA ExitShortens ==
  ASSUME IInv, EntryInv, input = "exit", UNCHANGED frameVars, Exited
  PROVE  EntryInv' /\ CallsLeft' \in 0..(CallsLeft - 1)
<1>1. CASE next = NoState
  <2>1. CallsLeft' = 0 /\ CallsLeft = 1
    BY <1>1, DepthBounded DEF Exited, CallsLeft
  <2>2. EntryInv'
    BY <1>1 DEF Exited, EntryInv, NoState, frameVars
  <2>. QED
    BY <2>1, <2>2
<1>2. CASE next # NoState
  <2>1. UNCHANGED frameStep /\ current' = next /\ input' = "enter" /\ next' = NoState
    BY <1>2 DEF Exited
  <2>2. Depth(current)' = Depth(next) /\ Suits(current)' = Suits(next)
    BY <2>1, FrameKept DEF frameVars, managerVars, Depth, Suits, Not1, CountIn, TwoHands,
       HandsUp, Ambiguous
  <2>3. CallsLeft' = 2 * Depth(next) + 1
    BY <2>1, <2>2 DEF CallsLeft
  <2>4. EntryInv'
    BY <1>2, <2>1, <2>2 DEF EntryInv, NoState, frameVars
  <2>. QED
    BY <1>2, <2>3, <2>4, DepthBounded
<1>. QED
  BY <1>1, <1>2

(* What the pointables and the hands ask for suits the frame.               *)
LEMMA NPointablesSuits ==
  ASSUME IInv
  PROVE  /\ NPointables \in State /\ Suits(NPointables)
         /\ NPointables = "0Pointables_NoInteraction" <=> count \in {0, Ambiguous} /\ ~TwoHands
<1>1. count \in 0..Ambiguous
  BY DEF IInv, TypeOK, ManagerTypeOK
<1>. QED
  BY <1>1, ManagerAssumption, NPointablesPlain
     DEF NPointables, Suits, Not1, CountIn, Ambiguous, State

(* Every call of a handler brings the end of the chain nearer.              *)
LEMMA HandlerShortens ==
  ASSUME IInv, EntryInv, Handler
  PROVE  EntryInv' /\ CallsLeft' \in 0..(CallsLeft - 1)
<1>0. /\ UNCHANGED frameVars /\ count \in 0..Ambiguous /\ MaxPointables \in Nat \ {0}
      /\ input \in {"none", "enter", "exit", "frame"}
  BY ManagerAssumption DEF Handler, IInv, TypeOK, ManagerTypeOK, MachineTypeOK
<1>1. input # "none" /\ (input = "exit" => Exited)
  BY DEF Handler, State_0Pointables, State_1Pointable_Hovering, State_1Pointable_ClickCooldown,
     Exit_1Pointable_ClickCooldown, State_2PlusPointables_Hovering,
     Enter_2PlusPointables_Scrolling, State_2PlusPointables_Scrolling,
     Exit_2PlusPointables_Scrolling, State_2Hands_Hovering, State_2Hands_GestureRecognition,
     Enter_2Hands_Gesture, State_2Hands_Gesture, Exit_2Hands_Gesture, State_2Hands_Touch,
     Exit_Other, At
<1>2. ASSUME input \in {"enter", "frame"}
      PROVE  Stay \/ \E s \in State : Asks(s)
  <2>. USE <1>0, <1>2, NPointablesSuits DEF ToNPointables, Asks, At, EntryInv
  <2>1. CASE State_0Pointables
    <3>1. CASE count \in 1..MaxPointables \/ TwoHands
      <4>1. /\ NPointables # "0Pointables_NoInteraction" /\ ToNPointables
            /\ input = "frame" \/ First
        BY <2>1, <3>1 DEF State_0Pointables, Suits, Ambiguous
      <4>2. input = "enter" => Depth(NPointables) < Depth(current)
        BY <2>1, <4>1, DeepestIsFirst DEF Depth, First
      <4>. QED
        BY <4>1, <4>2
    <3>. QED
      BY <2>1, <3>1 DEF State_0Pointables
  <2>. USE DEF First
  <2>2. CASE State_1Pointable_Hovering
    BY <2>2 DEF State_1Pointable_Hovering, Suits, Depth, State
  <2>3. CASE State_1Pointable_ClickCooldown
    BY <2>3 DEF State_1Pointable_ClickCooldown, Suits, State
  <2>4. CASE State_2PlusPointables_Hovering
    <3>1. CASE input = "enter"
      <4> DEFINE hand == IF foremost = "handless" THEN "none" ELSE foremost
      <4>1. favorite' = foremost /\ ~CountIn({0, 1}) /\ ~TwoHands
        BY <2>4, <3>1 DEF State_2PlusPointables_Hovering, Reset, Suits
      <4>2. hand # "none" => hand \in hands
        OBVIOUS
      <4>3. Stay \/ TransitionTo("2PlusPointables_Scrolling")
        BY <2>4, <3>1, <4>1, <4>2 DEF State_2PlusPointables_Hovering
      <4>. QED
        BY <2>4, <3>1, <4>3 DEF State_2PlusPointables_Hovering, Suits, Depth, State
    <3>2. CASE input = "frame"
      BY <2>4, <3>2 DEF State_2PlusPointables_Hovering, Suits, State
    <3>. QED
      BY <3>1, <3>2
  <2>5. CASE Enter_2PlusPointables_Scrolling \/ Enter_2Hands_Gesture
    BY <2>5 DEF Enter_2PlusPointables_Scrolling, Enter_2Hands_Gesture
  <2>6. CASE State_2PlusPointables_Scrolling
    BY <2>6 DEF State_2PlusPointables_Scrolling
  <2>7. CASE State_2Hands_Hovering
    BY <2>7 DEF State_2Hands_Hovering, Suits, Depth, HandsUp, State
  <2>8. CASE State_2Hands_GestureRecognition
    BY <2>8 DEF State_2Hands_GestureRecognition, LeaveTwoHands, Suits, Depth, State
  <2>9. CASE State_2Hands_Gesture
    BY <2>9 DEF State_2Hands_Gesture, LeaveTwoHands, Suits, State
  <2>10. CASE State_2Hands_Touch
    BY <2>10 DEF State_2Hands_Touch, Suits, State
  <2>. QED
    BY <1>2, <2>1, <2>2, <2>3, <2>4, <2>5, <2>6, <2>7, <2>8, <2>9, <2>10
       DEF Handler, Exit_1Pointable_ClickCooldown, Exit_2PlusPointables_Scrolling,
           Exit_2Hands_Gesture, Exit_Other
<1>. QED
  BY <1>0, <1>1, <1>2, CallShortens, ExitShortens

(* A step that calls no handler: the machine is quiet before it.            *)
LEMMA OtherSteps ==
  ASSUME IInv, EntryInv, [Next]_vars, ~Handler
  PROVE  EntryInv' /\ (input = "none" \/ UNCHANGED vars)
<1>1. CASE UNCHANGED vars
  <2>1. UNCHANGED <<frameVars, frameStep, current, next, input>>
    BY <1>1 DEF vars, machineVars
  <2>2. Suits(current)' = Suits(current) /\ Suits(next)' = Suits(next) /\ First' = First
    BY <2>1 DEF frameVars, managerVars, Suits, Not1, CountIn, TwoHands, HandsUp, Ambiguous,
       First, At
  <2>. QED
    BY <1>1, <2>1, <2>2 DEF EntryInv, frameVars
<1>2. CASE ~UNCHANGED vars
  <2>1. input = "none" /\ next = NoState
    BY <1>2 DEF Next, ProcessFrame, ProcessFirstFrame, EndFrame, Destroy, Shutdown, Recreate,
       Cancel, Quiet, IInv, MachineInv
  <2>2. EntryInv'
    BY <1>2, <2>1
       DEF Next, ProcessFrame, ProcessFirstFrame, EndFrame, Destroy, Shutdown, Recreate, Cancel,
           Initialize, RunCurrentState, machineVars, EntryInv, First, At, NoState, frameVars
  <2>. QED
    BY <2>1, <2>2
<1>. QED
  BY <1>1, <1>2

(* StateMachine: whatever a frame shows, the states it leads through do not *)
(* transition to each other for ever.                                       *)
THEOREM ChainsAreShort == Spec => ChainsShorten
<1> DEFINE A == input # "none" => CallsLeft' \in 0..(CallsLeft - 1)
<1>1. Init => EntryInv
  BY DEF Init, MachineInit, EntryInv, NoState
<1>2. IInv /\ EntryInv /\ [Next]_vars => EntryInv' /\ [A]_vars
  BY HandlerShortens, OtherSteps
<1>. QED
  BY <1>1, <1>2, Invariance, PTL DEF Spec, ChainsShorten

===============================================================================
