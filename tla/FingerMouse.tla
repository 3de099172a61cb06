------------------------------ MODULE FingerMouse ------------------------------
(***************************************************************************)
(* The advanced interaction mode (GestureInteraction/FingerMouse.cpp):     *)
(* one finger moves, clicks and drags the mouse, two fingers rotate, zoom  *)
(* or scroll, three or more swipe between desktops, and so does a hand     *)
(* held sideways.                                                          *)
(*                                                                         *)
(* As in BasicMode a step is a handler call and a frame's data are classes *)
(* that stay fixed while its chain of calls runs; what only one handler    *)
(* reads once per frame (which motion dominates, how far the finger has    *)
(* moved) is chosen where it is read.  The settings keep their initial     *)
(* values, as nothing changes them: gestures of three fingers, rotation    *)
(* and zoom are in use.  LOST_FOCUS is never sent.                         *)
(***************************************************************************)
EXTENDS GestureInteractionManager, StateMachine

CONSTANTS
  DragDelay,     \* frames in the 500 ms after which a held click is a drag
  Recognition    \* frames in the 10 or 100 ms a swipe needs to be recognized

ASSUME FingerMouseAssumption == DragDelay \in Nat /\ Recognition \in Nat

VARIABLES
  hands,        \* does the frame show a hand?  "none" or "some"
  palm,         \* "sideways" when shouldBeInPalmSwipeMode(), else "flat"
  clickNumber,  \* m_clickNumber
  deferClickUp, \* m_deferClickUpForDrag: "yes" or "no"
  eligible,     \* m_clickEligibleForDrag: "yes" or "no"
  clickAge,     \* frames since m_lastClickTime, capped
  gestureAge,   \* frames since m_gestureStart, capped
  gesture,      \* the type of the driver's gesture
  button        \* click number of the driver's pressed button, 0 when up

frameVars  == <<managerVars, hands, palm>>
clickVars  == <<clickNumber, deferClickUp, eligible, button>>
ageVars    == <<clickAge, gestureAge>>
outputVars == <<gesture, button>>
vars == <<machineVars, frameVars, clickVars, ageVars, gesture>>

(* The states that hold a gesture, and its type.                           *)
GestureOf == [Rotating |-> "Rotate", Zooming |-> "Zoom", Scrolling |-> "Scroll",
              SwipeVertical |-> "DesktopSwipeVertical",
              SwipeHorizontal |-> "DesktopSwipeHorizontal",
              Palm_Swipe |-> "DesktopSwipeHorizontal"]

GestureState == {"Rotating", "Zooming", "Scrolling",
                 "SwipeVertical", "SwipeHorizontal", "Palm_Swipe"}
PressedState == {"1Finger_Clicking", "1Finger_Dragging"}

State == GestureState \cup PressedState \cup
  {"0Fingers_NoInteraction", "1Finger_Hovering", "2Fingers_Hovering",
   "2Fingers_GestureRecognition", "3PlusFingers_NoInteraction",
   "3PlusFingers_Hovering", "3PlusFingers_GestureRecognition",
   "Palm_GestureRecognition"}

GestureType == {"Rotate", "Zoom", "Scroll", "DesktopSwipeVertical", "DesktopSwipeHorizontal"}
NoGesture   == "None"

TypeOK ==
  /\ MachineTypeOK(State, {"frame"}, {"between", "initialize", "process", "shutdown"})
  /\ ManagerTypeOK
  /\ hands \in {"none", "some"} /\ palm \in {"sideways", "flat"}
  /\ clickNumber \in 0..3
  /\ deferClickUp \in {"yes", "no"} /\ eligible \in {"yes", "no"}
  /\ clickAge \in 0..(DragDelay + 1) /\ gestureAge \in 0..Recognition
  /\ gesture \in GestureType \cup {NoGesture}
  /\ button \in 0..3

(* The constructor leaves m_deferClickUpForDrag and m_clickEligibleForDrag *)
(* uninitialized.                                                          *)
Init ==
  /\ MachineInit /\ ManagerInit
  /\ hands = "none" /\ palm = "flat"
  /\ clickNumber = 0
  /\ deferClickUp \in {"yes", "no"} /\ eligible \in {"yes", "no"}
  /\ clickAge = DragDelay + 1 /\ gestureAge = 0
  /\ gesture = NoGesture /\ button = 0

-------------------------------------------------------------------------------
(* processFrame.                                                            *)

(* This mode's identifyCollectivePointableZone: the greatest zone of the    *)
(* pointables.  A relevant one is never in ZONE_NONE.                       *)
MaxZone(n, t) ==
  IF n = 0 THEN "NONE" ELSE IF t > 0 THEN "TOUCHING" ELSE "HOVERING"

Older(age, limit) == IF age < limit THEN age + 1 ELSE age

(* A frame arrives; a palm is sideways only if there is a hand.            *)
ProcessFrame ==
  /\ frameStep = "between"
  /\ Observe /\ zone' = MaxZone(relevant', touching')
  /\ hands' \in {"none", "some"}
  /\ palm' \in IF hands' = "some" THEN {"sideways", "flat"} ELSE {"flat"}
  /\ clickAge' = Older(clickAge, DragDelay + 1)
  /\ gestureAge' = Older(gestureAge, Recognition)
  /\ IF current = NoState
       THEN frameStep' = "initialize" /\ Initialize("0Fingers_NoInteraction")
       ELSE frameStep' = "process" /\ RunCurrentState("frame")
  /\ UNCHANGED <<clickVars, gesture>>

ProcessFirstFrame ==
  /\ frameStep = "initialize" /\ Quiet
  /\ frameStep' = "process"
  /\ RunCurrentState("frame")
  /\ UNCHANGED <<frameVars, clickVars, ageVars, gesture>>

EndFrame ==
  /\ frameStep = "process" /\ Quiet
  /\ frameStep' = "between"
  /\ UNCHANGED <<current, next, input, frameVars, clickVars, ageVars, gesture>>

(* The mode is deleted, and the user chooses it again.                     *)
Destroy == Shutdown /\ UNCHANGED <<frameVars, clickVars, ageVars, gesture>>

Recreate ==
  /\ frameStep = "shutdown" /\ Quiet
  /\ frameStep' = "between"
  /\ relevant' = 0 /\ touching' = 0 /\ count' = Ambiguous /\ zone' = "NONE"
  /\ hands' = "none" /\ palm' = "flat"
  /\ clickNumber' = 0
  /\ deferClickUp' \in {"yes", "no"} /\ eligible' \in {"yes", "no"}
  /\ clickAge' = DragDelay + 1 /\ gestureAge' = 0
  /\ gesture' = NoGesture
  /\ UNCHANGED <<current, next, input, button>>

(* The device is disconnected between two frames.                          *)
Cancel ==
  /\ frameStep = "between"
  /\ gesture # NoGesture
  /\ gesture' = NoGesture
  /\ UNCHANGED <<machineVars, frameVars, clickVars, ageVars>>

-------------------------------------------------------------------------------
(* What handlers call.                                                      *)

Palm == palm = "sideways"

(* Slip: a palm is looked for only when the count says nothing.            *)
MutNFingers ==
  IF count = 1 THEN "1Finger_Hovering"
  ELSE IF count = 2 THEN "2Fingers_Hovering"
  ELSE IF count \notin {0, Ambiguous} THEN "3PlusFingers_NoInteraction"
  ELSE IF Palm THEN "Palm_GestureRecognition"
  ELSE "0Fingers_NoInteraction"

NFingers ==
  IF Palm THEN "Palm_GestureRecognition"
  ELSE IF count = Ambiguous \/ count = 0 THEN "0Fingers_NoInteraction"
  ELSE IF count = 1 THEN "1Finger_Hovering"
  ELSE IF count = 2 THEN "2Fingers_Hovering"
  ELSE "3PlusFingers_NoInteraction"

ToNFingers == TransitionTo(NFingers)

(* Fingers let go of a gesture when none touches any more.                 *)
FingersUp == touching = 0 /\ zone # "TOUCHING"

StartGesture(i) == gestureAge' = IF i = "enter" THEN 0 ELSE gestureAge

NoOutput == UNCHANGED <<clickVars, gesture, clickAge>>

-------------------------------------------------------------------------------
(* The handlers, for SM_ENTER, SM_EXIT and the frame input.                 *)

State_0Fingers ==
  /\ At("0Fingers_NoInteraction", {"enter", "frame"})
  /\ IF count \in 1..MaxPointables \/ Palm THEN ToNFingers ELSE Stay
  /\ NoOutput /\ UNCHANGED gestureAge

Not1 == CountIn(0..MaxPointables \ {1}) \/ Palm

(* Slip: the palm is not looked at while hovering.                         *)
MutState_1Finger_Hovering ==
  /\ At("1Finger_Hovering", {"enter", "frame"})
  /\ IF CountIn(0..MaxPointables \ {1}) THEN ToNFingers
     ELSE IF zone = "TOUCHING" THEN TransitionTo("1Finger_Clicking")
     ELSE Stay
  /\ NoOutput /\ UNCHANGED gestureAge

State_1Finger_Hovering ==
  /\ At("1Finger_Hovering", {"enter", "frame"})
  /\ \/ Not1 /\ ToNFingers
     \/ ~Not1 /\ zone = "TOUCHING" /\ TransitionTo("1Finger_Clicking")
     \/ ~Not1 /\ zone # "TOUCHING" /\ Stay
  /\ NoOutput /\ UNCHANGED gestureAge

(* The button goes down even when the state is to be left at once.         *)
Enter_1Finger_Clicking ==
  /\ At("1Finger_Clicking", {"enter"})
  /\ clickNumber' \in {1} \cup (IF clickNumber = 3 THEN {} ELSE {clickNumber + 1})
  /\ button' = clickNumber'
  /\ deferClickUp' = "no"
  /\ eligible' = "yes"
  /\ clickAge' = 0
  /\ IF CountIn({0}) \/ Palm THEN ToNFingers ELSE Stay
  /\ UNCHANGED <<gesture, gestureAge>>

(* Slip: the click is released although a drag follows.                    *)
MutExit_1Finger_Clicking ==
  /\ At("1Finger_Clicking", {"exit"})
  /\ button' = 0
  /\ Exited
  /\ UNCHANGED <<clickNumber, deferClickUp, eligible, gesture, ageVars>>

Exit_1Finger_Clicking ==
  /\ At("1Finger_Clicking", {"exit"})
  /\ button' = IF deferClickUp = "yes" THEN button ELSE 0
  /\ Exited
  /\ UNCHANGED <<clickNumber, deferClickUp, eligible, gesture, ageVars>>

(* A finger that has stayed within 50 pixels for half a second drags.      *)
State_1Finger_Clicking ==
  /\ At("1Finger_Clicking", {"frame"})
  /\ \/ /\ \/ Not1 /\ ToNFingers
           \/ ~Not1 /\ zone # "TOUCHING" /\ TransitionTo("1Finger_Hovering")
        /\ UNCHANGED clickVars
     \/ /\ ~Not1 /\ zone = "TOUCHING"
        /\ eligible' \in {eligible, "no"}
        /\ IF eligible' = "yes" /\ clickAge > DragDelay
             THEN /\ deferClickUp' = "yes"
                  /\ clickNumber' = 0
                  /\ TransitionTo("1Finger_Dragging")
             ELSE Stay /\ UNCHANGED <<deferClickUp, clickNumber>>
        /\ UNCHANGED button
  /\ UNCHANGED <<gesture, ageVars>>

State_1Finger_Dragging ==
  /\ At("1Finger_Dragging", {"enter", "frame"})
  /\ \/ Not1 /\ ToNFingers
     \/ ~Not1 /\ zone # "TOUCHING" /\ TransitionTo("1Finger_Hovering")
     \/ ~Not1 /\ zone = "TOUCHING" /\ Stay
  /\ NoOutput /\ UNCHANGED gestureAge

Exit_1Finger_Dragging ==
  /\ At("1Finger_Dragging", {"exit"})
  /\ button' = 0
  /\ Exited
  /\ UNCHANGED <<clickNumber, deferClickUp, eligible, gesture, ageVars>>

State_2Fingers_Hovering ==
  /\ At("2Fingers_Hovering", {"enter", "frame"})
  /\ \/ (Palm \/ CountIn(0..MaxPointables \ {2})) /\ ToNFingers
     \/ /\ ~Palm /\ ~CountIn(0..MaxPointables \ {2})
        /\ IF zone = "TOUCHING" THEN TransitionTo("2Fingers_GestureRecognition") ELSE Stay
  /\ NoOutput /\ UNCHANGED gestureAge

(* With enough history one motion may dominate, even on entering.          *)
State_2Fingers_GestureRecognition ==
  /\ At("2Fingers_GestureRecognition", {"enter", "frame"})
  /\ StartGesture(input)
  /\ \/ (CountIn({0}) \/ Palm) /\ ToNFingers
     \/ /\ ~CountIn({0}) /\ ~Palm
        /\ \/ FingersUp /\ TransitionTo("2Fingers_Hovering")
           \/ /\ ~FingersUp
              /\ Stay \/ \E s \in {"Rotating", "Zooming", "Scrolling"} : TransitionTo(s)
  /\ NoOutput

Enter_Gesture ==
  /\ current \in GestureState /\ input = "enter"
  /\ gesture' = GestureOf[current]
  /\ Stay
  /\ UNCHANGED <<clickVars, ageVars>>

(* Slip: the gesture is not ended.                                         *)
MutExit_Gesture ==
  /\ current \in GestureState /\ input = "exit"
  /\ Exited
  /\ UNCHANGED <<gesture, clickVars, ageVars>>

Exit_Gesture ==
  /\ current \in GestureState /\ input = "exit"
  /\ gesture' = NoGesture
  /\ Exited
  /\ UNCHANGED <<clickVars, ageVars>>

(* Slip: only the count and the palm end a gesture.                        *)
MutState_2Fingers_Gesture ==
  /\ current \in {"Rotating", "Zooming", "Scrolling"} /\ input = "frame"
  /\ IF CountIn({0}) \/ Palm THEN ToNFingers ELSE Stay
  /\ NoOutput /\ UNCHANGED gestureAge

State_2Fingers_Gesture ==
  /\ current \in {"Rotating", "Zooming", "Scrolling"} /\ input = "frame"
  /\ \/ (CountIn({0}) \/ Palm) /\ ToNFingers
     \/ /\ ~CountIn({0}) /\ ~Palm
        /\ IF FingersUp THEN TransitionTo("2Fingers_Hovering") ELSE Stay
  /\ NoOutput /\ UNCHANGED gestureAge

Not3Plus == CountIn({0, 1, 2}) \/ Palm

(* The three states move between each other with the zone.                 *)
OtherZone(s) ==
  \/ zone = "NONE" /\ s # "3PlusFingers_NoInteraction"
     /\ TransitionTo("3PlusFingers_NoInteraction")
  \/ zone = "HOVERING" /\ s # "3PlusFingers_Hovering"
     /\ TransitionTo("3PlusFingers_Hovering")
  \/ zone = "TOUCHING" /\ s # "3PlusFingers_GestureRecognition"
     /\ TransitionTo("3PlusFingers_GestureRecognition")

State_3PlusFingers_NoInteraction ==
  /\ At("3PlusFingers_NoInteraction", {"enter", "frame"})
  /\ \/ Not3Plus /\ ToNFingers
     \/ ~Not3Plus /\ (OtherZone(current) \/ (zone = "NONE" /\ Stay))
  /\ NoOutput /\ UNCHANGED gestureAge

(* This state does nothing on SM_ENTER.                                    *)
State_3PlusFingers_Hovering ==
  /\ At("3PlusFingers_Hovering", {"enter", "frame"})
  /\ \/ input = "enter" /\ Stay
     \/ input = "frame" /\ Not3Plus /\ ToNFingers
     \/ input = "frame" /\ ~Not3Plus /\ (OtherZone(current) \/ (zone = "HOVERING" /\ Stay))
  /\ NoOutput /\ UNCHANGED gestureAge

State_3PlusFingers_GestureRecognition ==
  /\ At("3PlusFingers_GestureRecognition", {"enter", "frame"})
  /\ StartGesture(input)
  /\ \/ Not3Plus /\ ToNFingers
     \/ ~Not3Plus /\ OtherZone(current)
     \/ /\ ~Not3Plus /\ zone = "TOUCHING"
        /\ \/ Stay
           \/ /\ gestureAge' >= Recognition
              /\ TransitionTo("SwipeHorizontal") \/ TransitionTo("SwipeVertical")
  /\ NoOutput

(* The code that would make a vertical swipe horizontal runs only when no  *)
(* finger touches and the zone is still TOUCHING, so it is dead.           *)
State_3PlusFingers_Swipe ==
  /\ current \in {"SwipeVertical", "SwipeHorizontal"} /\ input = "frame"
  /\ \/ (CountIn({0}) \/ Palm) /\ ToNFingers
     \/ /\ ~CountIn({0}) /\ ~Palm
        /\ IF FingersUp THEN TransitionTo("3PlusFingers_NoInteraction")
           ELSE Stay
  /\ NoOutput /\ UNCHANGED gestureAge

State_Palm_GestureRecognition ==
  /\ At("Palm_GestureRecognition", {"enter", "frame"})
  /\ StartGesture(input)
  /\ \/ ~Palm /\ ToNFingers
     \/ Palm /\ Stay
     \/ Palm /\ gestureAge' >= Recognition /\ TransitionTo("Palm_Swipe")
  /\ NoOutput

State_Palm_Swipe ==
  /\ At("Palm_Swipe", {"frame"})
  /\ IF Palm THEN Stay ELSE ToNFingers
  /\ NoOutput /\ UNCHANGED gestureAge

Exit_Other ==
  /\ current \in State \ (GestureState \cup PressedState) /\ input = "exit"
  /\ Exited
  /\ NoOutput /\ UNCHANGED gestureAge

Handler ==
  /\ \/ State_0Fingers
     \/ State_1Finger_Hovering
     \/ Enter_1Finger_Clicking \/ State_1Finger_Clicking \/ Exit_1Finger_Clicking
     \/ State_1Finger_Dragging \/ Exit_1Finger_Dragging
     \/ State_2Fingers_Hovering \/ State_2Fingers_GestureRecognition
     \/ Enter_Gesture \/ State_2Fingers_Gesture \/ Exit_Gesture
     \/ State_3PlusFingers_NoInteraction \/ State_3PlusFingers_Hovering
     \/ State_3PlusFingers_GestureRecognition \/ State_3PlusFingers_Swipe
     \/ State_Palm_GestureRecognition \/ State_Palm_Swipe
     \/ Exit_Other
  /\ UNCHANGED frameVars

Next ==
  \/ ProcessFrame \/ ProcessFirstFrame \/ Handler \/ EndFrame
  \/ Destroy \/ Recreate \/ Cancel

Spec == Init /\ [][Next]_vars

-------------------------------------------------------------------------------
(* Properties.                                                              *)

(* The gesture and the button belong to states: the driver's gesture is     *)
(* that of the present state or was cancelled, none is in progress when a   *)
(* state is entered, and the button is down exactly in the clicking and     *)
(* dragging states, from the entry of the one to the exit of the last.      *)
OutputOwned ==
  /\ gesture # NoGesture =>
       current \in GestureState /\ gesture = GestureOf[current] /\ input # "enter"
  /\ button # 0 <=> current \in PressedState /\ ~At("1Finger_Clicking", {"enter"})

(* A frame that shows no hand and no pointable leaves no gesture and no     *)
(* button behind, however late the count filter is.                         *)
EmptySceneIsQuiet ==
  frameStep = "between" /\ relevant = 0 /\ hands = "none" => gesture = NoGesture /\ button = 0

(* The clicking state, which presses the button even when it is to be left  *)
(* on entry (FingerMouse.cpp:571-573), is never left on entry: there is no  *)
(* click of no duration.                                                    *)
ClicksLast == [][At("1Finger_Clicking", {"enter"}) => next' = NoState]_vars

(* A click that turns into a drag keeps the button down all the way: it is  *)
(* released only when fingers, zone or palm end the drag, or on shutdown.   *)
DragsAreHeld ==
  [][button # 0 /\ button' = 0 /\ deferClickUp = "yes" /\ frameStep = "process"
       => Not1 \/ zone # "TOUCHING"]_vars

(* A hovering state that is entered although the count speaks against it:   *)
(* fingers have let go of a gesture for it.                                 *)
Misplaced(s) ==
  \/ s = "2Fingers_Hovering" /\ CountIn(0..MaxPointables \ {2})
  \/ s = "3PlusFingers_NoInteraction" /\ CountIn({0, 1, 2})

(* How many more states a frame can enter after s, when s is the one it      *)
(* asks for: only the first frame enters the first state.                   *)
Depth(s) ==
  CASE s = "0Fingers_NoInteraction" -> IF frameStep = "initialize" THEN 3 ELSE 0
    [] s = "2Fingers_Hovering"      -> IF zone = "TOUCHING" \/ Misplaced(s) THEN 2 ELSE 0
    [] s = "3PlusFingers_NoInteraction" -> IF zone = "TOUCHING" \/ Misplaced(s) THEN 2 ELSE 1
    [] s \in {"1Finger_Hovering", "2Fingers_GestureRecognition",
              "3PlusFingers_GestureRecognition", "Palm_GestureRecognition"} -> 1
    [] OTHER                        -> 0

(* How many handler calls are left of a frame's chain, this one included:   *)
(* an exit and an entry for every state that is entered.                    *)
CallsLeft ==
  CASE input = "none"  -> 0
    [] input = "enter" -> 2 * Depth(current) + 1
    [] input = "exit"  -> IF next = NoState THEN 1 ELSE 2 * Depth(next) + 2
    [] input = "frame" -> 7

(* Every call brings the end of its frame's chain nearer: no states go on   *)
(* transitioning to each other (StateMachine.h:35), and a frame makes at    *)
(* most seven, however its count and its zone contradict each other (the    *)
(* first frame of a mode twice that, as it also initializes the machine).   *)
ChainsShorten == [][input # "none" => CallsLeft' \in 0..(CallsLeft - 1)]_vars

(* The mode drives the button and the gestures as PointerOutput allows.     *)
Output == INSTANCE PointerOutput
OutputSpec == Output!Spec
===============================================================================
