--------------------------- MODULE FingerMouseProofs ---------------------------
(***************************************************************************)
(* The safety properties of the advanced mode hold for every number of     *)
(* pointables, every delay and either count filter: one inductive          *)
(* invariant, proved handler by handler, and what follows from it.         *)
(***************************************************************************)
EXTENDS FingerMouse, TLAPS

OutputState == GestureState \cup PressedState

(* Where the machine is: between frames it runs nothing, it has a state     *)
(* while it runs, and a next state exactly on a transition's SM_EXIT.       *)
MachineInv ==
  /\ frameStep = "between" => input = "none"
  /\ frameStep \in {"initialize", "process"} => current # NoState
  /\ frameStep = "shutdown" => input \in {"none", "exit"} /\ next = NoState
  /\ frameStep = "shutdown" /\ input = "none" => current = NoState
  /\ current = NoState => input = "none"
  /\ input # "exit" => next = NoState
  /\ input = "exit" /\ frameStep # "shutdown" => next # NoState

(* m_deferClickUpForDrag is set only on the way from a click to a drag, and *)
(* a drag is entered on that way only.                                      *)
DeferInv ==
  /\ At("1Finger_Clicking", {"none", "frame"}) => deferClickUp = "no"
  /\ At("1Finger_Clicking", {"exit"}) =>
       (deferClickUp = "yes" <=> next = "1Finger_Dragging")
  /\ next = "1Finger_Dragging" => current = "1Finger_Clicking"

(* A frame without hand and pointable: no handler leads to a state that     *)
(* holds a gesture or the button.                                           *)
QuietInv ==
  /\ relevant = 0 => zone = "NONE"
  /\ hands = "none" => ~Palm
  /\ relevant = 0 /\ hands = "none" =>
       /\ input \in {"none", "enter"} => current \notin OutputState
       /\ next \notin OutputState

(* A click is begun by one finger; what ends a drag holds for the whole     *)
(* chain of calls that follows.                                             *)
ChainInv ==
  /\ next = "1Finger_Clicking" => ~Not1
  /\ At("1Finger_Clicking", {"enter"}) => ~Not1
  /\ At("1Finger_Dragging", {"exit"}) /\ frameStep # "shutdown" => Not1 \/ zone # "TOUCHING"

IInv == TypeOK /\ MachineInv /\ OutputOwned /\ DeferInv /\ QuietInv /\ ChainInv

-------------------------------------------------------------------------------
(* Facts about the tables.                                                  *)

(* What a gesture state holds is a gesture.                                 *)
LEMMA GestureTyped ==
  /\ \A s \in GestureState : GestureOf[s] \in GestureType
  /\ NoGesture \notin GestureType
  BY DEF GestureState, GestureOf, GestureType, NoGesture

(* The states, and which of them hold an output.                            *)
LEMMA StatesDistinct ==
  /\ NoState \notin State /\ OutputState \subseteq State
  /\ GestureState \cap PressedState = {}
  /\ PressedState = {"1Finger_Clicking", "1Finger_Dragging"}
  BY DEF NoState, State, OutputState, GestureState, PressedState

(* ToNFingers leads to a state without output.                              *)
LEMMA NFingersPlain == NFingers \in State \ OutputState
  BY DEF NFingers, State, OutputState, GestureState, PressedState

(* The initial states satisfy the invariant.                                *)
LEMMA InitIInv == Init => IInv
<1> SUFFICES ASSUME Init
             PROVE  IInv
  OBVIOUS
<1> USE FingerMouseAssumption, ManagerAssumption, StatesDistinct
    DEF Init, MachineInit, ManagerInit
<1>1. TypeOK
  BY DEF TypeOK, MachineTypeOK, ManagerTypeOK, Ambiguous
<1>2. MachineInv /\ OutputOwned
  BY DEF MachineInv, OutputOwned, NoState, At, GestureState, OutputState
<1>3. DeferInv /\ QuietInv /\ ChainInv
  BY DEF DeferInv, QuietInv, ChainInv, NoState, At, Palm
<1> QED
  BY <1>1, <1>2, <1>3 DEF IInv

-------------------------------------------------------------------------------
(* Steps.                                                                   *)

(* A handler call that changes no output keeps the invariant if it stays,   *)
(* or asks for a state as the invariant demands.                            *)
LEMMA PlainCall ==
  ASSUME IInv, current \in State, input \in {"enter", "frame"},
         UNCHANGED <<frameVars, clickVars, gesture>>,
         clickAge' \in 0..(DragDelay + 1), gestureAge' \in 0..Recognition,
         ~At("1Finger_Clicking", {"enter"}),
         input = "enter" => gesture = NoGesture,
         \/ /\ Stay
            /\ relevant = 0 /\ hands = "none" => current \notin OutputState
         \/ \E s \in State \ {"1Finger_Dragging"} :
              /\ TransitionTo(s)
              /\ s = "1Finger_Clicking" => ~Not1
              /\ current = "1Finger_Dragging" => Not1 \/ zone # "TOUCHING"
              /\ relevant = 0 /\ hands = "none" => s \notin OutputState
  PROVE  IInv'
<1> USE StatesDistinct DEF IInv, frameVars, managerVars, clickVars
<1>1. ASSUME Stay, relevant = 0 /\ hands = "none" => current \notin OutputState
      PROVE  IInv'
  <2> USE <1>1 DEF Stay
  <2>1. TypeOK'
    BY DEF TypeOK, MachineTypeOK, ManagerTypeOK, Ambiguous
  <2>2. MachineInv' /\ OutputOwned'
    BY DEF MachineInv, OutputOwned, At, OutputState
  <2>3. DeferInv' /\ ChainInv'
    BY DEF DeferInv, ChainInv, MachineInv, At, Not1, CountIn, Palm, Ambiguous, NoState
  <2>4. QuietInv'
    BY DEF QuietInv, MachineInv, Palm
  <2> QED
    BY <2>1, <2>2, <2>3, <2>4
<1>2. ASSUME NEW s \in State \ {"1Finger_Dragging"}, TransitionTo(s),
             s = "1Finger_Clicking" => ~Not1,
             current = "1Finger_Dragging" => Not1 \/ zone # "TOUCHING",
             relevant = 0 /\ hands = "none" => s \notin OutputState
      PROVE  IInv'
  <2> USE <1>2 DEF TransitionTo
  <2>1. TypeOK'
    BY DEF TypeOK, MachineTypeOK, ManagerTypeOK, Ambiguous
  <2>2. MachineInv' /\ OutputOwned'
    BY DEF MachineInv, OutputOwned, At, OutputState
  <2>3. DeferInv' /\ ChainInv'
    BY DEF DeferInv, ChainInv, MachineInv, At, Not1, CountIn, Palm, Ambiguous, NoState
  <2>4. QuietInv'
    BY DEF QuietInv, MachineInv, Palm
  <2> QED
    BY <2>1, <2>2, <2>3, <2>4
<1> QED
  BY <1>1, <1>2

(* What the handlers know: a scene without hand and pointable has no palm,  *)
(* no zone and no touching pointable, and no state is entered that holds a  *)
(* gesture while there is one.                                              *)
LEMMA Known ==
  ASSUME IInv
  PROVE  /\ relevant = 0 /\ hands = "none" => ~Palm /\ zone = "NONE" /\ FingersUp
         /\ input = "enter" => gesture = NoGesture
         /\ input \in {"enter", "frame", "exit"} => current \in State
         /\ clickAge \in 0..(DragDelay + 1) /\ gestureAge \in 0..Recognition
         /\ StartGesture(input) => gestureAge' \in 0..Recognition
         /\ count \in 0..(MaxPointables + 1)
         /\ gesture \in GestureType \cup {NoGesture} /\ button \in 0..3
<1>1. TypeOK /\ MachineInv /\ QuietInv /\ OutputOwned
  BY DEF IInv
<1>2. relevant = 0 => touching = 0
  BY <1>1 DEF TypeOK, ManagerTypeOK
<1>3. relevant = 0 /\ hands = "none" => ~Palm /\ zone = "NONE" /\ FingersUp
  BY <1>1, <1>2 DEF QuietInv, FingersUp
<1>4. /\ input = "enter" => gesture = NoGesture
      /\ input \in {"enter", "frame", "exit"} => current \in State
  BY <1>1 DEF OutputOwned, MachineInv, TypeOK, MachineTypeOK
<1>5. StartGesture(input) => gestureAge' \in 0..Recognition
  BY <1>1, FingerMouseAssumption DEF StartGesture, TypeOK
<1> QED
  BY <1>1, <1>3, <1>4, <1>5 DEF TypeOK, ManagerTypeOK, Ambiguous

(* The call of any handler keeps the invariant.                             *)
LEMMA HandlerIInv == IInv /\ Handler => IInv'
<1> SUFFICES ASSUME IInv, Handler
             PROVE  IInv'
  OBVIOUS
<1>0. UNCHANGED frameVars
  BY DEF Handler
<1> USE <1>0, Known, NFingersPlain, StatesDistinct
<1>1. CASE State_0Fingers
  BY <1>1, PlainCall DEF State_0Fingers, At, NoOutput, ToNFingers, OutputState, GestureState
<1>2. CASE State_1Finger_Hovering
  BY <1>2, PlainCall DEF State_1Finger_Hovering, At, NoOutput, ToNFingers, OutputState, GestureState, State
<1>4. CASE State_2Fingers_Hovering
  BY <1>4, PlainCall DEF State_2Fingers_Hovering, At, NoOutput, ToNFingers, OutputState, GestureState, State
<1>5. CASE State_2Fingers_GestureRecognition
  BY <1>5, PlainCall DEF State_2Fingers_GestureRecognition, At, NoOutput, ToNFingers, OutputState, GestureState, State
<1>6. CASE State_2Fingers_Gesture
  BY <1>6, PlainCall DEF State_2Fingers_Gesture, At, NoOutput, ToNFingers, OutputState, GestureState, State
<1>7. CASE State_3PlusFingers_NoInteraction
  BY <1>7, PlainCall DEF State_3PlusFingers_NoInteraction, OtherZone, At, NoOutput, ToNFingers, OutputState, GestureState, State
<1>8. CASE State_3PlusFingers_Hovering
  BY <1>8, PlainCall DEF State_3PlusFingers_Hovering, OtherZone, At, NoOutput, ToNFingers, OutputState, GestureState, State
<1>9. CASE State_3PlusFingers_GestureRecognition
  BY <1>9, PlainCall DEF State_3PlusFingers_GestureRecognition, OtherZone, At, NoOutput, ToNFingers, OutputState, GestureState, State
<1>10. CASE State_3PlusFingers_Swipe
  BY <1>10, PlainCall DEF State_3PlusFingers_Swipe, At, NoOutput, ToNFingers, OutputState, GestureState, State
<1>11. CASE State_Palm_GestureRecognition
  BY <1>11, PlainCall DEF State_Palm_GestureRecognition, At, NoOutput, ToNFingers, OutputState, GestureState, State
<1>12. CASE State_Palm_Swipe
  BY <1>12, PlainCall DEF State_Palm_Swipe, At, NoOutput, ToNFingers, OutputState, GestureState, State
<1>13. CASE State_1Finger_Dragging
  BY <1>13, PlainCall DEF State_1Finger_Dragging, At, NoOutput, ToNFingers, OutputState, GestureState, State
<1> USE DEF IInv, frameVars, managerVars, clickVars, ageVars, At, NoOutput
<1>14. CASE Enter_1Finger_Clicking
  <2> USE <1>14 DEF Enter_1Finger_Clicking, ToNFingers, TransitionTo, Stay
  <2>1. TypeOK'
    BY FingerMouseAssumption DEF TypeOK, MachineTypeOK, ManagerTypeOK, Ambiguous
  <2>2. MachineInv' /\ OutputOwned'
    BY DEF MachineInv, OutputOwned, OutputState, GestureState, NoGesture, DeferInv, TypeOK
  <2>3. DeferInv' /\ ChainInv'
    BY DEF DeferInv, ChainInv, MachineInv, OutputState, Not1, CountIn, Palm, Ambiguous, NoState
  <2>4. QuietInv'
    BY DEF QuietInv, MachineInv, Palm
  <2> QED
    BY <2>1, <2>2, <2>3, <2>4
<1>15. CASE Exit_1Finger_Clicking
  <2> USE <1>15 DEF Exit_1Finger_Clicking, Exited
  <2>1. TypeOK'
    BY FingerMouseAssumption DEF TypeOK, MachineTypeOK, ManagerTypeOK, Ambiguous
  <2>2. MachineInv' /\ OutputOwned'
    BY DEF MachineInv, OutputOwned, OutputState, GestureState, NoGesture, DeferInv
  <2>3. DeferInv' /\ ChainInv'
    BY DEF DeferInv, ChainInv, MachineInv, Not1, CountIn, Palm, Ambiguous, NoState
  <2>4. QuietInv'
    BY DEF QuietInv, MachineInv, Palm
  <2> QED
    BY <2>1, <2>2, <2>3, <2>4
<1>16. CASE State_1Finger_Clicking
  <2> DEFINE Leaves == \/ Not1 /\ ToNFingers
                       \/ ~Not1 /\ zone # "TOUCHING" /\ TransitionTo("1Finger_Hovering")
  <2>0. At("1Finger_Clicking", {"frame"}) /\ UNCHANGED <<gesture, ageVars>>
    BY <1>16 DEF State_1Finger_Clicking
  <2>1. CASE Leaves /\ UNCHANGED clickVars
    BY <2>0, <2>1, PlainCall DEF ToNFingers, OutputState, GestureState, State
  <2>2. CASE /\ ~Not1 /\ zone = "TOUCHING"
             /\ eligible' \in {eligible, "no"} /\ UNCHANGED button
             /\ deferClickUp' = "yes" /\ clickNumber' = 0
             /\ TransitionTo("1Finger_Dragging")
    <3> USE <2>0, <2>2 DEF TransitionTo
    <3>1. TypeOK'
      BY DEF TypeOK, MachineTypeOK, ManagerTypeOK, Ambiguous, OutputState, PressedState
    <3>2. MachineInv' /\ OutputOwned'
      BY DEF MachineInv, OutputOwned, NoState
    <3>3. DeferInv' /\ ChainInv'
      BY DEF DeferInv, ChainInv
    <3>4. QuietInv'
      BY DEF QuietInv, Palm
    <3> QED
      BY <3>1, <3>2, <3>3, <3>4
  <2>3. CASE /\ ~Not1 /\ zone = "TOUCHING"
             /\ eligible' \in {eligible, "no"}
             /\ Stay /\ UNCHANGED <<button, deferClickUp, clickNumber>>
    <3> USE <2>0, <2>3 DEF Stay
    <3>1. TypeOK'
      BY DEF TypeOK, MachineTypeOK, ManagerTypeOK, Ambiguous
    <3>2. MachineInv' /\ OutputOwned'
      BY DEF MachineInv, OutputOwned
    <3>3. DeferInv' /\ ChainInv'
      BY DEF DeferInv, ChainInv, MachineInv, NoState
    <3>4. QuietInv'
      BY DEF QuietInv, Palm
    <3> QED
      BY <3>1, <3>2, <3>3, <3>4
  <2> QED
    BY <1>16, <2>1, <2>2, <2>3 DEF State_1Finger_Clicking
<1>17. CASE Exit_1Finger_Dragging
  <2> USE <1>17 DEF Exit_1Finger_Dragging, Exited
  <2>1. TypeOK'
    BY FingerMouseAssumption DEF TypeOK, MachineTypeOK, ManagerTypeOK, Ambiguous
  <2>2. MachineInv' /\ OutputOwned'
    BY DEF MachineInv, OutputOwned, OutputState, GestureState, NoGesture, DeferInv, NoState
  <2>3. DeferInv' /\ ChainInv'
    BY DEF DeferInv, ChainInv, MachineInv, Not1, CountIn, Palm, Ambiguous, NoState
  <2>4. QuietInv'
    BY DEF QuietInv, MachineInv, Palm
  <2> QED
    BY <2>1, <2>2, <2>3, <2>4
<1>18. CASE Enter_Gesture
  <2> USE <1>18 DEF Enter_Gesture, Stay
  <2>1. TypeOK'
    BY FingerMouseAssumption, GestureTyped DEF TypeOK, MachineTypeOK, ManagerTypeOK, Ambiguous
  <2>2. MachineInv' /\ OutputOwned'
    BY DEF MachineInv, OutputOwned, OutputState, GestureState, NoGesture, DeferInv, NoState
  <2>3. DeferInv' /\ ChainInv'
    BY DEF DeferInv, ChainInv, MachineInv, Not1, CountIn, Palm, Ambiguous, NoState
  <2>4. QuietInv'
    BY DEF QuietInv, MachineInv, Palm
  <2> QED
    BY <2>1, <2>2, <2>3, <2>4
<1>19. CASE Exit_Gesture
  <2> USE <1>19 DEF Exit_Gesture, Exited
  <2>1. TypeOK'
    BY FingerMouseAssumption DEF TypeOK, MachineTypeOK, ManagerTypeOK, Ambiguous
  <2>2. MachineInv' /\ OutputOwned'
    BY DEF MachineInv, OutputOwned, OutputState, GestureState, NoGesture, DeferInv, NoState
  <2>3. DeferInv' /\ ChainInv'
    BY DEF DeferInv, ChainInv, MachineInv, Not1, CountIn, Palm, Ambiguous, NoState
  <2>4. QuietInv'
    BY DEF QuietInv, MachineInv, Palm
  <2> QED
    BY <2>1, <2>2, <2>3, <2>4
<1>20. CASE Exit_Other
  <2> USE <1>20 DEF Exit_Other, Exited
  <2>1. TypeOK'
    BY FingerMouseAssumption DEF TypeOK, MachineTypeOK, ManagerTypeOK, Ambiguous
  <2>2. MachineInv' /\ OutputOwned'
    BY DEF MachineInv, OutputOwned, OutputState, GestureState, NoGesture, DeferInv, NoState
  <2>3. DeferInv' /\ ChainInv'
    BY DEF DeferInv, ChainInv, MachineInv, Not1, CountIn, Palm, Ambiguous, NoState
  <2>4. QuietInv'
    BY DEF QuietInv, MachineInv, Palm
  <2> QED
    BY <2>1, <2>2, <2>3, <2>4
<1> QED
  BY <1>1, <1>2, <1>4, <1>5, <1>6, <1>7, <1>8, <1>9, <1>10, <1>11, <1>12, <1>13, <1>14,
     <1>15, <1>16, <1>17, <1>18, <1>19, <1>20 DEF Handler

(* Every step keeps the invariant.                                          *)
LEMMA NextIInv == IInv /\ [Next]_vars => IInv'
<1> SUFFICES ASSUME IInv, [Next]_vars
             PROVE  IInv'
  OBVIOUS
<1> USE FingerMouseAssumption, ManagerAssumption, StatesDistinct
    DEF IInv, frameVars, managerVars, clickVars, ageVars
<1>1. CASE ProcessFrame
  <2> USE <1>1 DEF ProcessFrame, Initialize, RunCurrentState
  <2>1. TypeOK'
    <3>1. ManagerTypeOK'
      BY DEF Observe, MaxZone, Filtered, Ambiguous, TypeOK, ManagerTypeOK
    <3>2. clickAge' \in 0..(DragDelay + 1) /\ gestureAge' \in 0..Recognition
      BY DEF Older, TypeOK
    <3>3. current' \in State \cup {NoState}
      BY DEF TypeOK, MachineTypeOK, State
    <3> QED
      BY <3>1, <3>2, <3>3 DEF TypeOK, MachineTypeOK
  <2>2. MachineInv' /\ OutputOwned'
    BY DEF MachineInv, OutputOwned, At, NoState, GestureState
  <2>3. DeferInv' /\ ChainInv'
    BY DEF DeferInv, ChainInv, MachineInv, At, NoState
  <2>4. QuietInv'
    BY DEF QuietInv, MachineInv, Palm, Observe, MaxZone, NoState, OutputState, GestureState
  <2> QED
    BY <2>1, <2>2, <2>3, <2>4
<1>2. CASE ProcessFirstFrame
  <2> USE <1>2 DEF ProcessFirstFrame, RunCurrentState, Quiet
  <2>1. TypeOK'
    BY DEF TypeOK, MachineTypeOK, ManagerTypeOK, Ambiguous
  <2>2. MachineInv' /\ OutputOwned'
    BY DEF MachineInv, OutputOwned, At
  <2>3. DeferInv' /\ ChainInv' /\ QuietInv'
    BY DEF DeferInv, ChainInv, QuietInv, MachineInv, At, NoState, Not1, CountIn, Palm, Ambiguous
  <2> QED
    BY <2>1, <2>2, <2>3
<1>3. CASE EndFrame
  <2> USE <1>3 DEF EndFrame, Quiet
  <2>1. TypeOK'
    BY DEF TypeOK, MachineTypeOK, ManagerTypeOK, Ambiguous
  <2>2. MachineInv' /\ OutputOwned'
    BY DEF MachineInv, OutputOwned, At
  <2>3. DeferInv' /\ ChainInv' /\ QuietInv'
    BY DEF DeferInv, ChainInv, QuietInv, MachineInv, At, NoState, Not1, CountIn, Palm, Ambiguous
  <2> QED
    BY <2>1, <2>2, <2>3
<1>4. CASE Destroy
  <2> USE <1>4 DEF Destroy, Shutdown
  <2>1. TypeOK'
    BY DEF TypeOK, MachineTypeOK, ManagerTypeOK, Ambiguous
  <2>2. MachineInv' /\ OutputOwned'
    BY DEF MachineInv, OutputOwned, At
  <2>3. DeferInv' /\ ChainInv' /\ QuietInv'
    BY DEF DeferInv, ChainInv, QuietInv, MachineInv, At, NoState, Not1, CountIn, Palm, Ambiguous
  <2> QED
    BY <2>1, <2>2, <2>3
<1>5. CASE Recreate
  <2> USE <1>5 DEF Recreate, Quiet
  <2>1. TypeOK'
    BY DEF TypeOK, MachineTypeOK, ManagerTypeOK, Ambiguous
  <2>2. MachineInv' /\ OutputOwned'
    BY DEF MachineInv, OutputOwned, At
  <2>3. DeferInv' /\ ChainInv' /\ QuietInv'
    BY DEF DeferInv, ChainInv, QuietInv, MachineInv, OutputState, At, NoState, Palm
  <2> QED
    BY <2>1, <2>2, <2>3
<1>6. CASE Cancel
  <2> USE <1>6 DEF Cancel, machineVars
  <2>1. TypeOK'
    BY DEF TypeOK, MachineTypeOK, ManagerTypeOK, Ambiguous
  <2>2. MachineInv' /\ OutputOwned'
    BY DEF MachineInv, OutputOwned, At
  <2>3. DeferInv' /\ ChainInv' /\ QuietInv'
    BY DEF DeferInv, ChainInv, QuietInv, At, Not1, CountIn, Palm, Ambiguous
  <2> QED
    BY <2>1, <2>2, <2>3
<1>7. CASE UNCHANGED vars
  <2> USE <1>7 DEF vars, machineVars
  <2>1. TypeOK'
    BY DEF TypeOK, MachineTypeOK, ManagerTypeOK, Ambiguous
  <2>2. MachineInv' /\ OutputOwned'
    BY DEF MachineInv, OutputOwned, At
  <2>3. DeferInv' /\ ChainInv' /\ QuietInv'
    BY DEF DeferInv, ChainInv, QuietInv, At, Not1, CountIn, Palm, Ambiguous
  <2> QED
    BY <2>1, <2>2, <2>3
<1> QED
  BY <1>1, <1>2, <1>3, <1>4, <1>5, <1>6, <1>7, HandlerIInv DEF Next

-------------------------------------------------------------------------------
(* The theorems.                                                            *)

(* The invariant holds in every state the mode reaches.                     *)
THEOREM Invariance == Spec => []IInv
  BY InitIInv, NextIInv, PTL DEF Spec

(* FingerMouse: the machine and every field keep their types.               *)
THEOREM TypeCorrect == Spec => []TypeOK
<1>1. IInv => TypeOK
  BY DEF IInv
<1> QED
  BY <1>1, Invariance, PTL

(* processFrame: after a frame without hand and pointable no gesture is in  *)
(* progress and no button is down.                                          *)
THEOREM EmptySceneQuiet == Spec => []EmptySceneIsQuiet
<1>1. IInv => EmptySceneIsQuiet
  BY StatesDistinct
     DEF IInv, EmptySceneIsQuiet, MachineInv, OutputOwned, QuietInv, OutputState
<1> QED
  BY <1>1, Invariance, PTL

(* State_1Finger_Clicking: the state is never left on entry.                *)
THEOREM NoClickOfNoDuration == Spec => ClicksLast
<1> DEFINE A == At("1Finger_Clicking", {"enter"}) => next' = NoState
<1>1. IInv /\ [Next]_vars => [A]_vars
  <2> SUFFICES ASSUME IInv, Next, At("1Finger_Clicking", {"enter"})
               PROVE  next' = NoState
    OBVIOUS
  <2>1. Enter_1Finger_Clicking
    BY DEF Next, ProcessFrame, ProcessFirstFrame, EndFrame, Destroy, Shutdown, Recreate, Cancel,
       Quiet, IInv, MachineInv, At, Handler, State_0Fingers, State_1Finger_Hovering,
       Exit_1Finger_Clicking, State_1Finger_Clicking, State_1Finger_Dragging,
       Exit_1Finger_Dragging, State_2Fingers_Hovering, State_2Fingers_GestureRecognition,
       Enter_Gesture, State_2Fingers_Gesture, Exit_Gesture, State_3PlusFingers_NoInteraction,
       State_3PlusFingers_Hovering, State_3PlusFingers_GestureRecognition,
       State_3PlusFingers_Swipe, State_Palm_GestureRecognition, State_Palm_Swipe, Exit_Other,
       GestureState
  <2>2. ~Not1
    BY DEF IInv, ChainInv
  <2>3. Stay
    BY <2>1, <2>2, ManagerAssumption DEF Enter_1Finger_Clicking, Not1, CountIn
  <2> QED
    BY <2>3 DEF Stay, At, IInv, MachineInv
<1> QED
  BY <1>1, Invariance, PTL DEF Spec, ClicksLast

(* State_1Finger_Dragging: a drag keeps the button until fingers, zone or   *)
(* palm end it.                                                             *)
THEOREM DragsStayHeld == Spec => DragsAreHeld
<1> DEFINE A == button # 0 /\ button' = 0 /\ deferClickUp = "yes" /\ frameStep = "process"
                  => Not1 \/ zone # "TOUCHING"
<1>1. IInv /\ [Next]_vars => [A]_vars
  <2> SUFFICES ASSUME IInv, Next, button # 0, button' = 0, deferClickUp = "yes",
                      frameStep = "process"
               PROVE  Not1 \/ zone # "TOUCHING"
    OBVIOUS
  <2>1. Enter_1Finger_Clicking \/ Exit_1Finger_Clicking \/ Exit_1Finger_Dragging
    BY DEF Next, ProcessFrame, ProcessFirstFrame, EndFrame, Destroy, Recreate, Cancel,
       Handler, State_0Fingers, State_1Finger_Hovering,
       State_1Finger_Clicking, State_1Finger_Dragging,
       State_2Fingers_Hovering, State_2Fingers_GestureRecognition,
       Enter_Gesture, State_2Fingers_Gesture, Exit_Gesture, State_3PlusFingers_NoInteraction,
       State_3PlusFingers_Hovering, State_3PlusFingers_GestureRecognition,
       State_3PlusFingers_Swipe, State_Palm_GestureRecognition, State_Palm_Swipe, Exit_Other,
       frameVars, clickVars, machineVars, NoOutput
  <2>2. ~Enter_1Finger_Clicking /\ ~Exit_1Finger_Clicking
    BY DEF Enter_1Finger_Clicking, Exit_1Finger_Clicking, IInv, TypeOK
  <2> QED
    BY <2>1, <2>2 DEF Exit_1Finger_Dragging, IInv, ChainInv
<1> QED
  BY <1>1, Invariance, PTL DEF Spec, DragsAreHeld

(* The mode implements PointerOutput: whatever it is shown and whenever it  *)
(* is disconnected or deleted, it begins and ends gestures one at a time,   *)
(* presses and releases in turn, and never has a gesture while it presses.  *)
THEOREM ImplementsOutput == Spec => OutputSpec
<1>1. Init => Output!Init
  BY DEF Init, Output!Init
<1>2. IInv /\ [Next]_vars => [Output!Next]_(Output!outputVars)
  <2> SUFFICES ASSUME IInv, [Next]_vars
               PROVE  Output!Next \/ UNCHANGED outputVars
    BY DEF outputVars, Output!outputVars
  <2> USE Known, GestureTyped, StatesDistinct
      DEF outputVars, Output!Next, Output!Begin, Output!End, Output!Press, Output!Release
  <2>1. CASE ~Handler
    BY <2>1 DEF Next, ProcessFrame, ProcessFirstFrame, EndFrame, Destroy, Recreate, Cancel,
       IInv, MachineInv, OutputOwned, Quiet, NoState, GestureState, clickVars, vars, frameVars
  <2>2. CASE Enter_1Finger_Clicking
    BY <2>2 DEF Enter_1Finger_Clicking, IInv, OutputOwned, At, TypeOK
  <2>3. CASE Exit_1Finger_Clicking \/ Exit_1Finger_Dragging
    BY <2>3 DEF Exit_1Finger_Clicking, Exit_1Finger_Dragging, IInv, OutputOwned, At
  <2>4. CASE Enter_Gesture
    BY <2>4 DEF Enter_Gesture, clickVars, IInv, OutputOwned
  <2>5. CASE Exit_Gesture
    BY <2>5 DEF Exit_Gesture, clickVars
  <2>6. CASE /\ Handler /\ ~Enter_1Finger_Clicking /\ ~Exit_1Finger_Clicking
             /\ ~Exit_1Finger_Dragging /\ ~Enter_Gesture /\ ~Exit_Gesture
    BY <2>6 DEF Handler, State_0Fingers, State_1Finger_Hovering,
       State_1Finger_Clicking, State_1Finger_Dragging,
       State_2Fingers_Hovering, State_2Fingers_GestureRecognition,
       State_2Fingers_Gesture, State_3PlusFingers_NoInteraction,
       State_3PlusFingers_Hovering, State_3PlusFingers_GestureRecognition,
       State_3PlusFingers_Swipe, State_Palm_GestureRecognition, State_Palm_Swipe, Exit_Other,
       NoOutput, clickVars
  <2> QED
    BY <2>1, <2>2, <2>3, <2>4, <2>5, <2>6
<1> QED
  BY <1>1, <1>2, Invariance, PTL DEF Spec, OutputSpec, Output!Spec

-------------------------------------------------------------------------------
(* How long a frame's chain of calls is.                                    *)

(* The state that is asked for, until its entry is over, is one the frame   *)
(* speaks for: it is not left again for the reason it was chosen against.   *)
Suits(s) ==
  /\ s = "0Fingers_NoInteraction" => count \in {0, Ambiguous} /\ ~Palm
  /\ s \in {"1Finger_Hovering", "1Finger_Clicking"} => ~Not1
  /\ s = "1Finger_Dragging" => ~Not1 /\ zone = "TOUCHING"
  /\ s \in {"2Fingers_Hovering", "3PlusFingers_NoInteraction"} =>
       ~CountIn({0}) /\ ~Palm /\ (Misplaced(s) => zone # "TOUCHING")
  /\ s = "2Fingers_GestureRecognition" => ~CountIn({0}) /\ ~Palm /\ ~FingersUp
  /\ s = "3PlusFingers_GestureRecognition" => ~Not3Plus /\ zone = "TOUCHING"
  /\ s = "Palm_GestureRecognition" => Palm

(* The first entry of a mode is not asked for by any state.                 *)
First == frameStep = "initialize" /\ At("0Fingers_NoInteraction", {"enter"})

EntryInv ==
  /\ frameStep = "initialize" => input # "frame" /\ next # "0Fingers_NoInteraction"
  /\ input = "enter" => First \/ Suits(current)
  /\ input = "exit" /\ next # NoState => Suits(next)

(* Does the handler ask for s, which suits the frame, and does this bring   *)
(* the end of the chain nearer?                                             *)
Asks(s) ==
  /\ TransitionTo(s)
  /\ Suits(s)
  /\ frameStep = "initialize" => s # "0Fingers_NoInteraction"
  /\ input = "enter" => Depth(s) < Depth(current)

(* The depths of the states, and what is left of a chain at every call.     *)
LEMMA DepthBounded ==
  /\ \A s : Depth(s) \in 0..3
  /\ input = "enter" => CallsLeft = 2 * Depth(current) + 1
  /\ input = "exit" => CallsLeft = IF next = NoState THEN 1 ELSE 2 * Depth(next) + 2
  /\ input = "frame" => CallsLeft = 7
<1>1. \A s : Depth(s) \in 0..3
  BY DEF Depth
<1>. QED
  BY <1>1 DEF CallsLeft

(* Only the first entry is three states from the end.                       *)
LEMMA DeepestIsFirst ==
  ASSUME NEW s, frameStep = "initialize" => s # "0Fingers_NoInteraction"
  PROVE  Depth(s) \in 0..2
  BY DEF Depth

(* While the frame is the same, so are the depths and what suits it.        *)
LEMMA FrameKept ==
  ASSUME UNCHANGED <<frameVars, frameStep>>
  PROVE  \A s : Depth(s)' = Depth(s) /\ Suits(s)' = Suits(s)
  BY DEF frameVars, managerVars, Depth, Suits, Misplaced, Not1, Not3Plus, CountIn, Palm, FingersUp,
     Ambiguous

(* A handler that stays ends the chain; one that asks for a state goes on   *)
(* with a shorter one.                                                      *)
LEMMA CallShortens ==
  ASSUME IInv, EntryInv, input \in {"enter", "frame"}, UNCHANGED frameVars,
         Stay \/ \E s \in State : Asks(s)
  PROVE  EntryInv' /\ CallsLeft' \in 0..(CallsLeft - 1)
<1>1. CASE Stay
  <2>1. CallsLeft' = 0
    BY <1>1 DEF Stay, CallsLeft
  <2>2. CallsLeft \in Nat /\ CallsLeft >= 1
    BY DepthBounded
  <2>3. EntryInv'
    BY <1>1 DEF Stay, EntryInv, First
  <2>. QED
    BY <2>1, <2>2, <2>3
<1>2. ASSUME NEW s \in State, Asks(s)
      PROVE  EntryInv' /\ CallsLeft' \in 0..(CallsLeft - 1)
  <2>1. UNCHANGED frameStep /\ next' = s /\ input' = "exit" /\ s # NoState
    BY <1>2, StatesDistinct DEF Asks, TransitionTo
  <2>2. Depth(s)' = Depth(s) /\ Suits(s)' = Suits(s)
    BY <2>1, FrameKept
  <2>3. CallsLeft' = 2 * Depth(s) + 2
    BY <2>1, <2>2 DEF CallsLeft
  <2>4. Depth(s) \in 0..2
    BY <1>2, DeepestIsFirst DEF Asks
  <2>5. CallsLeft' \in 0..(CallsLeft - 1)
    BY <1>2, <2>3, <2>4, DepthBounded DEF Asks
  <2>6. EntryInv'
    BY <1>2, <2>1, <2>2 DEF Asks, EntryInv
  <2>. QED
    BY <2>5, <2>6
<1>. QED
  BY <1>1, <1>2

(* An exit is followed by the entry that was asked for, or by nothing.      *)
LEMMA ExitShortens ==
  ASSUME IInv, EntryInv, input = "exit", UNCHANGED frameVars, Exited
  PROVE  EntryInv' /\ CallsLeft' \in 0..(CallsLeft - 1)
<1>1. CASE next = NoState
  <2>1. CallsLeft' = 0 /\ CallsLeft = 1
    BY <1>1, DepthBounded DEF Exited, CallsLeft
  <2>2. EntryInv'
    BY <1>1 DEF Exited, EntryInv, NoState
  <2>. QED
    BY <2>1, <2>2
<1>2. CASE next # NoState
  <2>1. UNCHANGED frameStep /\ current' = next /\ input' = "enter" /\ next' = NoState
    BY <1>2 DEF Exited
  <2>2. Depth(current)' = Depth(next) /\ Suits(current)' = Suits(next)
    BY <2>1, FrameKept DEF frameVars, managerVars, Depth, Suits, Misplaced, Not1, Not3Plus, CountIn,
       Palm, FingersUp, Ambiguous
  <2>3. CallsLeft' = 2 * Depth(next) + 1
    BY <2>1, <2>2 DEF CallsLeft
  <2>4. EntryInv'
    BY <1>2, <2>1, <2>2 DEF EntryInv, NoState
  <2>. QED
    BY <1>2, <2>3, <2>4, DepthBounded
<1>. QED
  BY <1>1, <1>2

(* What the fingers and the palm ask for suits the frame.                   *)
LEMMA NFingersSuits ==
  ASSUME IInv
  PROVE  /\ NFingers \in State /\ Suits(NFingers)
         /\ NFingers = "0Fingers_NoInteraction" <=> count \in {0, Ambiguous} /\ ~Palm
<1>1. count \in 0..Ambiguous
  BY ManagerAssumption DEF IInv, TypeOK, ManagerTypeOK, Ambiguous
<1>. QED
  BY <1>1, ManagerAssumption, NFingersPlain
     DEF NFingers, Suits, Depth, Misplaced, Not1, Not3Plus, CountIn, FingersUp, Ambiguous, State,
         PressedState, GestureState

(* Every call of a handler brings the end of the chain nearer.              *)
LEMMA HandlerShortens ==
  ASSUME IInv, EntryInv, Handler
  PROVE  EntryInv' /\ CallsLeft' \in 0..(CallsLeft - 1)
<1>0. /\ UNCHANGED frameVars /\ count \in 0..Ambiguous /\ MaxPointables \in Nat \ {0}
      /\ input \in {"none", "enter", "exit", "frame"}
  BY ManagerAssumption DEF Handler, IInv, TypeOK, ManagerTypeOK, MachineTypeOK
<1>1. CASE input = "exit"
  <2>1. Exited
    BY <1>1 DEF Handler, State_0Fingers, State_1Finger_Hovering, Enter_1Finger_Clicking,
       Exit_1Finger_Clicking, State_1Finger_Clicking, State_1Finger_Dragging,
       Exit_1Finger_Dragging, State_2Fingers_Hovering, State_2Fingers_GestureRecognition,
       Enter_Gesture, State_2Fingers_Gesture, Exit_Gesture, State_3PlusFingers_NoInteraction,
       State_3PlusFingers_Hovering, State_3PlusFingers_GestureRecognition,
       State_3PlusFingers_Swipe, State_Palm_GestureRecognition, State_Palm_Swipe, Exit_Other, At
  <2>. QED
    BY <1>0, <1>1, <2>1, ExitShortens
<1>2. ASSUME input \in {"enter", "frame"}
      PROVE  Stay \/ \E s \in State : Asks(s)
  <2>. USE <1>0, <1>2, NFingersSuits DEF ToNFingers, Asks, At, EntryInv
  <2>1. CASE State_0Fingers
    <3>1. CASE count \in 1..MaxPointables \/ Palm
      <4>1. /\ NFingers # "0Fingers_NoInteraction" /\ ToNFingers
            /\ input = "frame" \/ First
        BY <2>1, <3>1 DEF State_0Fingers, Suits, Ambiguous
      <4>2. input = "enter" => Depth(NFingers) < Depth(current)
        BY <2>1, <4>1, DeepestIsFirst DEF Depth, First
      <4>. QED
        BY <4>1, <4>2
    <3>. QED
      BY <2>1, <3>1 DEF State_0Fingers
  <2>. USE DEF First
  <2>2. CASE State_1Finger_Hovering
    BY <2>2 DEF State_1Finger_Hovering, Suits, Depth, State, PressedState
  <2>3. CASE Enter_1Finger_Clicking
    BY <2>3 DEF Enter_1Finger_Clicking, Suits, Not1, CountIn
  <2>4. CASE State_1Finger_Clicking
    BY <2>4 DEF State_1Finger_Clicking, Suits, State, PressedState
  <2>5. CASE State_1Finger_Dragging
    BY <2>5 DEF State_1Finger_Dragging, Suits, State
  <2>6. CASE State_2Fingers_Hovering
    BY <2>6 DEF State_2Fingers_Hovering, Suits, Depth, NFingers, Misplaced, CountIn, FingersUp,
       State
  <2>7. CASE State_2Fingers_GestureRecognition
    BY <2>7 DEF State_2Fingers_GestureRecognition, Suits, Depth, State, GestureState, FingersUp
  <2>8. CASE Enter_Gesture
    BY <2>8 DEF Enter_Gesture
  <2>9. CASE State_2Fingers_Gesture
    BY <2>9 DEF State_2Fingers_Gesture, Suits, State, FingersUp
  <2>10. CASE State_3PlusFingers_NoInteraction
    BY <2>10 DEF State_3PlusFingers_NoInteraction, OtherZone, Suits, Depth, NFingers, Misplaced,
       Not3Plus, CountIn, State
  <2>11. CASE State_3PlusFingers_Hovering
    BY <2>11 DEF State_3PlusFingers_Hovering, OtherZone, Suits, Misplaced, Not3Plus, CountIn, State
  <2>12. CASE State_3PlusFingers_GestureRecognition
    BY <2>12 DEF State_3PlusFingers_GestureRecognition, OtherZone, Suits, Depth, Misplaced,
       Not3Plus, CountIn, State, GestureState
  <2>13. CASE State_3PlusFingers_Swipe
    BY <2>13 DEF State_3PlusFingers_Swipe, Suits, State, FingersUp
  <2>14. CASE State_Palm_GestureRecognition
    BY <2>14 DEF State_Palm_GestureRecognition, Suits, Depth, State, GestureState
  <2>15. CASE State_Palm_Swipe
    BY <2>15 DEF State_Palm_Swipe
  <2>. QED
    BY <1>2, <2>1, <2>2, <2>3, <2>4, <2>5, <2>6, <2>7, <2>8, <2>9, <2>10, <2>11, <2>12, <2>13,
       <2>14, <2>15
       DEF Handler, Exit_1Finger_Clicking, Exit_1Finger_Dragging, Exit_Gesture, Exit_Other
<1>3. input # "none"
  BY DEF Handler, State_0Fingers, State_1Finger_Hovering, Enter_1Finger_Clicking,
     Exit_1Finger_Clicking, State_1Finger_Clicking, State_1Finger_Dragging,
     Exit_1Finger_Dragging, State_2Fingers_Hovering, State_2Fingers_GestureRecognition,
     Enter_Gesture, State_2Fingers_Gesture, Exit_Gesture, State_3PlusFingers_NoInteraction,
     State_3PlusFingers_Hovering, State_3PlusFingers_GestureRecognition,
     State_3PlusFingers_Swipe, State_Palm_GestureRecognition, State_Palm_Swipe, Exit_Other, At
<1>. QED
  BY <1>0, <1>1, <1>2, <1>3, CallShortens

(* A step that calls no handler: the machine is quiet before it.            *)
LEMMA OtherSteps ==
  ASSUME IInv, EntryInv, [Next]_vars, ~Handler
  PROVE  EntryInv' /\ (input = "none" \/ UNCHANGED vars)
<1>1. CASE UNCHANGED vars
  <2>1. UNCHANGED <<frameVars, frameStep, current, next, input>>
    BY <1>1 DEF vars, machineVars
  <2>2. Suits(current)' = Suits(current) /\ Suits(next)' = Suits(next) /\ First' = First
    BY <2>1 DEF frameVars, managerVars, Suits, Misplaced, Not1, Not3Plus, CountIn, Palm, FingersUp,
       Ambiguous, First, At
  <2>. QED
    BY <1>1, <2>1, <2>2 DEF EntryInv
<1>2. CASE ~UNCHANGED vars
  <2>1. input = "none" /\ next = NoState
    BY <1>2 DEF Next, ProcessFrame, ProcessFirstFrame, EndFrame, Destroy, Shutdown, Recreate,
       Cancel, Quiet, IInv, MachineInv
  <2>2. EntryInv'
    BY <1>2, <2>1
       DEF Next, ProcessFrame, ProcessFirstFrame, EndFrame, Destroy, Shutdown, Recreate, Cancel,
           Initialize, RunCurrentState, machineVars, EntryInv, First, At, NoState
  <2>. QED
    BY <2>1, <2>2
<1>. QED
  BY <1>1, <1>2

(* StateMachine: whatever a frame shows, the states it leads through do not *)
(* transition to each other for ever.                                       *)
THEOREM ChainsAreShort == Spec => ChainsShorten
<1> DEFINE A == input # "none" => CallsLeft' \in 0..(CallsLeft - 1)
<1>1. Init => EntryInv
  BY DEF Init, MachineInit, EntryInv, NoState
<1>2. IInv /\ EntryInv /\ [Next]_vars => EntryInv' /\ [A]_vars
  BY HandlerShortens, OtherSteps
<1>. QED
  BY <1>1, <1>2, Invariance, PTL DEF Spec, ChainsShorten

===============================================================================
