------------------------------- MODULE BasicMode -------------------------------
(***************************************************************************)
(* The basic interaction mode (GestureInteraction/BasicMode.cpp): hovering *)
(* and clicking with one pointable, scrolling with a hand of several,      *)
(* rotating and zooming with two hands; or the same as touch points.       *)
(*                                                                         *)
(* One step is one handler call; a frame's data is fixed while the chain   *)
(* of calls it causes runs.  What a handler reads of a frame are           *)
(* classes: counts, zones, which hands are seen and which have a finger    *)
(* touching; time is counted in frames.  Left out are the cursor, the      *)
(* overlays, and what nothing can reach: SetIntroMode is never called, so  *)
(* clicking is never disabled and the palm states are never entered, and   *)
(* no caller of stopActiveEvents ever sends LOST_FOCUS.  Left out too is    *)
(* the call of applyCharms in the hovering state (BasicMode.cpp:333-341):   *)
(* it changes the charms of module TouchPeripheral, and nothing here.      *)
(***************************************************************************)
EXTENDS GestureInteractionManager, StateMachine

CONSTANTS
  Hand,             \* hands that can be seen and become the favorite
  Outputs,          \* the kinds of output: "mouse" (and gestures), "touch" points
  Cooldown,         \* frames in the 150 ms after which a click is released
  Recognition       \* frames in the 20 ms a two-hand gesture needs

ASSUME BasicModeAssumption ==
  /\ Outputs \subseteq {"mouse", "touch"}
  /\ Cooldown \in Nat
  /\ Recognition \in Nat
  /\ Hand \cap {"none", "handless", "finger", "finger1", "finger2"} = {}

VARIABLES
  output,        \* UseMouseOutput: "mouse" or "touch", never changed
  reach,         \* "two" when shouldBeInMultiHandMode(), else "one"
  hands,         \* the valid hands of the frame
  fingers,       \* those with a finger in ZONE_TOUCHING
  foremost,      \* the hand of the foremost pointable, "handless" or "none"
  favorite,      \* the same of the pointable favoritePointableId() returns
  favoriteHand,  \* m_favoriteHandId, "none" for -1
  clickNumber,   \* m_clickNumber
  clickDown,     \* m_clickDown: "up" or "down"
  clickAge,      \* frames since m_lastClickTime, capped
  gestureAge,    \* frames since m_gestureStart, capped
  gesture,       \* the type of the driver's gesture
  button,        \* click number of the driver's pressed button, 0 when up
  touchEvent,    \* m_touchEvent
  emitted        \* the touches the driver was last given

frameVars  == <<managerVars, output, reach, hands, fingers, foremost>>
clickVars  == <<clickNumber, clickDown, button>>
outputVars == <<gesture, button>>
touchVars  == <<touchEvent, emitted>>
ageVars    == <<clickAge, gestureAge>>
vars == <<machineVars, frameVars, favorite, favoriteHand, clickVars, ageVars,
          gesture, touchVars>>

State == {"0Pointables_NoInteraction", "1Pointable_Hovering", "1Pointable_ClickCooldown",
          "2PlusPointables_Hovering", "2PlusPointables_Scrolling", "2Hands_Hovering",
          "2Hands_GestureRecognition", "2Hands_Rotating", "2Hands_Zooming", "2Hands_Touch"}

GestureType == {"Scroll", "Rotate", "Zoom"}
NoGesture   == "None"
TouchId     == Hand \cup {"finger", "finger1", "finger2"}
Sight       == Hand \cup {"none", "handless"}

TypeOK ==
  /\ MachineTypeOK(State, {"frame"}, {"between", "initialize", "process", "shutdown"})
  /\ ManagerTypeOK
  /\ output \in Outputs /\ reach \in {"one", "two"}
  /\ hands \subseteq Hand /\ fingers \subseteq hands
  /\ foremost \in Sight /\ favorite \in Sight
  /\ favoriteHand \in Hand \cup {"none"}
  /\ clickNumber \in 0..3
  /\ clickDown \in {"up", "down"}
  /\ clickAge \in 0..(Cooldown + 1) /\ gestureAge \in 0..Recognition
  /\ gesture \in GestureType \cup {NoGesture}
  /\ button \in 0..3
  /\ touchEvent \subseteq TouchId \X BOOLEAN /\ emitted \subseteq TouchId \X BOOLEAN

Init ==
  /\ MachineInit /\ ManagerInit
  /\ output \in Outputs
  /\ reach = "one" /\ hands = {} /\ fingers = {} /\ foremost = "none"
  /\ favorite = "none" /\ favoriteHand = "none"
  /\ clickNumber = 0 /\ clickDown = "up"
  /\ clickAge = Cooldown + 1 /\ gestureAge = 0
  /\ gesture = NoGesture /\ button = 0
  /\ touchEvent = {} /\ emitted = {}

-------------------------------------------------------------------------------
(* processFrame.                                                            *)

Older(age, limit) == IF age < limit THEN age + 1 ELSE age

(* A frame arrives: the manager derives what the handlers read, and the    *)
(* state machine is initialized or run.                                    *)
ProcessFrame ==
  /\ frameStep = "between"
  /\ Observe /\ zone' = CollectiveZone(relevant', touching')
  /\ reach' \in {"one", "two"}
  /\ hands' \in SUBSET Hand
  /\ fingers' \in SUBSET hands'
  /\ IF HasForemost(relevant', count') THEN foremost' \in hands' \cup {"handless"}
                                       ELSE foremost' = "none"
  /\ favorite' \in hands' \cup {"handless", "none"}
  /\ favorite' = "none" => foremost' = "none"
  /\ favorite' # "none" => favorite # "none" \/ foremost' # "none"
  /\ clickAge' = Older(clickAge, Cooldown + 1)
  /\ gestureAge' = Older(gestureAge, Recognition)
  /\ IF current = NoState
       THEN frameStep' = "initialize" /\ Initialize("0Pointables_NoInteraction")
       ELSE frameStep' = "process" /\ RunCurrentState("frame")
  /\ UNCHANGED <<output, favoriteHand, clickVars, gesture, touchVars>>

(* After Initialize the same frame is processed.                           *)
ProcessFirstFrame ==
  /\ frameStep = "initialize" /\ Quiet
  /\ frameStep' = "process"
  /\ RunCurrentState("frame")
  /\ UNCHANGED <<frameVars, favorite, favoriteHand, clickVars, ageVars, gesture, touchVars>>

(* The handlers are done: in touch mode the touch event is emitted.        *)
EndFrame ==
  /\ frameStep = "process" /\ Quiet
  /\ frameStep' = "between"
  /\ IF output = "mouse" THEN UNCHANGED touchVars
                       ELSE emitted' = touchEvent /\ touchEvent' = {}
  /\ UNCHANGED <<current, next, input, frameVars, favorite, favoriteHand, clickVars,
                 ageVars, gesture>>

(* The mode is deleted (the state machine leaves its state), and the user  *)
(* chooses it again: cancelGestureEvents clears the driver and a new mode  *)
(* finds the button as the old one left it.                                *)
Destroy ==
  /\ Shutdown
  /\ UNCHANGED <<frameVars, favorite, favoriteHand, clickVars, ageVars, gesture, touchVars>>

Recreate ==
  /\ frameStep = "shutdown" /\ Quiet
  /\ frameStep' = "between"
  /\ relevant' = 0 /\ touching' = 0 /\ count' = Ambiguous /\ zone' = "NONE"
  /\ reach' = "one" /\ hands' = {} /\ fingers' = {} /\ foremost' = "none"
  /\ favorite' = "none" /\ favoriteHand' = "none"
  /\ clickNumber' = 0 /\ clickDown' = "up"
  /\ clickAge' = Cooldown + 1 /\ gestureAge' = 0
  /\ touchEvent' = {} /\ gesture' = NoGesture /\ emitted' = {}
  /\ UNCHANGED <<current, next, input, output, button>>

(* The device is disconnected between two frames: cancelGestureEvents ends *)
(* the driver's gesture and touches without telling the mode.              *)
Cancel ==
  /\ frameStep = "between"
  /\ gesture # NoGesture \/ emitted # {}
  /\ gesture' = NoGesture
  /\ emitted' = {}
  /\ UNCHANGED <<machineVars, frameVars, favorite, favoriteHand, clickVars, ageVars, touchEvent>>

-------------------------------------------------------------------------------
(* What handlers call.                                                      *)

TwoHands == reach = "two"

(* Points are added unless they fall outside the screen or their pointable *)
(* is gone; a std::set keeps the first point of an id.                     *)
AddTouchPoints(points) ==
  IF output = "mouse" THEN UNCHANGED touchEvent
  ELSE \E seen \in SUBSET points :
         touchEvent' = touchEvent \cup {p \in seen : \A q \in touchEvent : q[1] # p[1]}

(* Slip: the count is looked at before the hands.                          *)
MutNPointables ==
  IF count = 1 THEN "1Pointable_Hovering"
  ELSE IF TwoHands THEN "2Hands_Hovering"
  ELSE IF count = Ambiguous \/ count = 0 THEN "0Pointables_NoInteraction"
  ELSE "2PlusPointables_Hovering"

NPointables ==
  IF TwoHands THEN "2Hands_Hovering"
  ELSE IF count = Ambiguous \/ count = 0 THEN "0Pointables_NoInteraction"
  ELSE IF count = 1 THEN "1Pointable_Hovering"
  ELSE "2PlusPointables_Hovering"

ToNPointables == TransitionTo(NPointables)

BeginGesture(g) == IF output = "mouse" THEN gesture' = g ELSE UNCHANGED gesture
EndGesture      == IF output = "mouse" THEN gesture' = NoGesture ELSE UNCHANGED gesture

(* What most handlers leave alone.                                         *)
NoOutput == UNCHANGED <<clickVars, gesture, touchEvent>>
NoClick  == UNCHANGED <<clickVars, clickAge>>
Reset(i) == favorite' = IF i = "enter" THEN foremost ELSE favorite

-------------------------------------------------------------------------------
(* The handlers, for SM_ENTER and the frame input.                          *)

State_0Pointables ==
  /\ At("0Pointables_NoInteraction", {"enter", "frame"})
  /\ IF count \in 1..MaxPointables \/ TwoHands THEN ToNPointables ELSE Stay
  /\ NoOutput
  /\ UNCHANGED <<favorite, favoriteHand, ageVars>>

Not1 == CountIn(0..MaxPointables \ {1}) \/ TwoHands

(* The zone says the finger touches: the button goes down.  The click is   *)
(* the next of a multiple click unless it is far from the last one in time *)
(* or place, or three have been counted.                                   *)
Press ==
  /\ clickNumber' \in {1} \cup (IF clickNumber = 3 THEN {} ELSE {clickNumber + 1})
  /\ button' = clickNumber'
  /\ clickDown' = "down"

(* Slip: the mode forgets the click without telling the driver.            *)
MutRelease == clickDown' = "up" /\ UNCHANGED <<button, clickNumber>>

Release ==
  /\ clickDown' = "up"
  /\ button' = 0
  /\ UNCHANGED clickNumber

State_1Pointable_Hovering ==
  /\ At("1Pointable_Hovering", {"enter", "frame"})
  /\ Reset(input)
  /\ \/ Not1 /\ ToNPointables /\ NoOutput /\ UNCHANGED clickAge
     \/ /\ ~Not1 /\ zone = "TOUCHING"
        /\ IF output = "mouse" THEN Press ELSE UNCHANGED clickVars
        /\ AddTouchPoints({<<"finger", TRUE>>})
        /\ clickAge' = 0
        /\ TransitionTo("1Pointable_ClickCooldown")
     \/ /\ ~Not1 /\ zone # "TOUCHING"
        /\ AddTouchPoints({<<"finger", FALSE>>})
        /\ NoClick /\ Stay
  /\ UNCHANGED <<gesture, favoriteHand, gestureAge>>

(* Slip: a finger that stays down is never released.                       *)
MutState_1Pointable_ClickCooldown ==
  /\ At("1Pointable_ClickCooldown", {"enter", "frame"})
  /\ \/ Not1 /\ ToNPointables /\ NoOutput
     \/ ~Not1 /\ zone # "TOUCHING" /\ TransitionTo("1Pointable_Hovering") /\ NoOutput
     \/ /\ ~Not1 /\ zone = "TOUCHING"
        /\ AddTouchPoints({<<"finger", TRUE>>}) /\ UNCHANGED clickVars
        /\ Stay
  /\ UNCHANGED <<gesture, favorite, favoriteHand, ageVars>>

State_1Pointable_ClickCooldown ==
  /\ At("1Pointable_ClickCooldown", {"enter", "frame"})
  /\ \/ Not1 /\ ToNPointables /\ NoOutput
     \/ ~Not1 /\ zone # "TOUCHING" /\ TransitionTo("1Pointable_Hovering") /\ NoOutput
     \/ /\ ~Not1 /\ zone = "TOUCHING"
        /\ IF clickAge > Cooldown
             THEN /\ IF clickDown = "down" THEN Release ELSE UNCHANGED clickVars
                  /\ UNCHANGED touchEvent
             ELSE AddTouchPoints({<<"finger", TRUE>>}) /\ UNCHANGED clickVars
        /\ Stay
  /\ UNCHANGED <<gesture, favorite, favoriteHand, ageVars>>

Exit_1Pointable_ClickCooldown ==
  /\ At("1Pointable_ClickCooldown", {"exit"})
  /\ IF clickDown = "down" THEN Release ELSE UNCHANGED clickVars
  /\ Exited
  /\ UNCHANGED <<touchEvent, gesture, favorite, favoriteHand, ageVars>>

(* Entering without a favorite pointable stops there; otherwise a hand is  *)
(* looked for with the favorite pointable, in every frame until one comes. *)
State_2PlusPointables_Hovering ==
  /\ At("2PlusPointables_Hovering", {"enter", "frame"})
  /\ Reset(input)
  /\ LET stored == IF input = "enter" THEN "none" ELSE favoriteHand
         found  == IF favorite' = "handless" THEN "none" ELSE favorite'
         hand   == IF stored = "none" THEN found ELSE stored
         leave  == CountIn({0, 1}) \/ TwoHands
     IN \/ /\ input = "enter" /\ favorite' = "none"
           /\ favoriteHand' = "none" /\ Stay /\ UNCHANGED touchEvent
        \/ /\ ~(input = "enter" /\ favorite' = "none")
           /\ leave
           /\ favoriteHand' = stored /\ ToNPointables /\ UNCHANGED touchEvent
        \/ /\ input = "frame" \/ favorite' # "none"
           /\ ~leave /\ hand = "none"
           /\ favoriteHand' = "none" /\ Stay
           /\ AddTouchPoints(IF favorite' = "none" THEN {} ELSE {<<"finger", FALSE>>})
        \/ /\ ~leave /\ hand # "none"
           /\ favoriteHand' = hand
           /\ \/ hand \notin hands /\ ToNPointables /\ UNCHANGED touchEvent
              \/ /\ hand \in fingers
                 /\ TransitionTo("2PlusPointables_Scrolling") /\ UNCHANGED touchEvent
              \/ hand \in hands \ fingers /\ Stay /\ AddTouchPoints({<<hand, FALSE>>})
  /\ UNCHANGED <<clickVars, gesture, ageVars>>

Enter_2PlusPointables_Scrolling ==
  /\ At("2PlusPointables_Scrolling", {"enter"})
  /\ BeginGesture("Scroll")
  /\ AddTouchPoints({<<favoriteHand, TRUE>>})
  /\ Stay
  /\ UNCHANGED <<clickVars, favorite, favoriteHand, ageVars>>

(* Slip: the gesture is not ended.                                         *)
MutExit_2PlusPointables_Scrolling ==
  /\ At("2PlusPointables_Scrolling", {"exit"})
  /\ AddTouchPoints({<<favoriteHand, FALSE>>})
  /\ Exited
  /\ UNCHANGED <<clickVars, gesture, favorite, favoriteHand, ageVars>>

Exit_2PlusPointables_Scrolling ==
  /\ At("2PlusPointables_Scrolling", {"exit"})
  /\ EndGesture
  /\ AddTouchPoints(IF favoriteHand \in hands THEN {<<favoriteHand, FALSE>>} ELSE {})
  /\ Exited
  /\ UNCHANGED <<clickVars, favorite, favoriteHand, ageVars>>

(* Slip: only the count and the hands end a scroll.                        *)
MutState_2PlusPointables_Scrolling ==
  /\ At("2PlusPointables_Scrolling", {"frame"})
  /\ IF CountIn({0}) \/ TwoHands THEN ToNPointables /\ UNCHANGED touchEvent
     ELSE Stay /\ AddTouchPoints({<<favoriteHand, TRUE>>})
  /\ UNCHANGED <<clickVars, gesture, favorite, favoriteHand, ageVars>>

State_2PlusPointables_Scrolling ==
  /\ At("2PlusPointables_Scrolling", {"frame"})
  /\ IF CountIn({0}) \/ TwoHands \/ favoriteHand \notin fingers
       THEN ToNPointables /\ UNCHANGED touchEvent
       ELSE Stay /\ AddTouchPoints({<<favoriteHand, TRUE>>})
  /\ UNCHANGED <<clickVars, gesture, favorite, favoriteHand, ageVars>>

State_2Hands_Hovering ==
  /\ At("2Hands_Hovering", {"enter", "frame"})
  /\ Reset(input)
  /\ \/ ~TwoHands /\ ToNPointables /\ UNCHANGED touchEvent
     \/ /\ TwoHands /\ zone = "TOUCHING"
        /\ TransitionTo(IF output = "mouse" THEN "2Hands_GestureRecognition" ELSE "2Hands_Touch")
        /\ UNCHANGED touchEvent
     \/ /\ TwoHands /\ zone # "TOUCHING"
        /\ AddTouchPoints({<<"finger1", FALSE>>, <<"finger2", FALSE>>})
        /\ Stay
  /\ UNCHANGED <<clickVars, gesture, favoriteHand, ageVars>>

(* The two-hand gestures end when a hand leaves or nothing touches.        *)
HandsUp == touching = 0 /\ zone # "TOUCHING"

LeaveTwoHands ==
  \/ ~TwoHands /\ ToNPointables
  \/ TwoHands /\ HandsUp /\ TransitionTo("2Hands_Hovering")

State_2Hands_GestureRecognition ==
  /\ At("2Hands_GestureRecognition", {"enter", "frame"})
  /\ gestureAge' = IF input = "enter" THEN 0 ELSE gestureAge
  /\ \/ LeaveTwoHands
     \/ /\ TwoHands /\ ~HandsUp
        /\ \/ Stay
           \/ /\ gestureAge' >= Recognition
              /\ TransitionTo("2Hands_Rotating") \/ TransitionTo("2Hands_Zooming")
  /\ NoOutput
  /\ UNCHANGED <<favorite, favoriteHand, clickAge>>

Enter_2Hands_Gesture ==
  /\ \/ At("2Hands_Rotating", {"enter"}) /\ BeginGesture("Rotate")
     \/ At("2Hands_Zooming", {"enter"}) /\ BeginGesture("Zoom")
  /\ Stay
  /\ UNCHANGED <<clickVars, touchEvent, favorite, favoriteHand, ageVars>>

State_2Hands_Gesture ==
  /\ \/ At("2Hands_Rotating", {"frame"})
     \/ At("2Hands_Zooming", {"frame"})
  /\ LeaveTwoHands \/ (TwoHands /\ ~HandsUp /\ Stay)
  /\ NoOutput
  /\ UNCHANGED <<favorite, favoriteHand, ageVars>>

Exit_2Hands_Gesture ==
  /\ \/ At("2Hands_Rotating", {"exit"})
     \/ At("2Hands_Zooming", {"exit"})
  /\ EndGesture
  /\ Exited
  /\ UNCHANGED <<clickVars, touchEvent, favorite, favoriteHand, ageVars>>

(* The points are added also when the state is being left.                 *)
State_2Hands_Touch ==
  /\ At("2Hands_Touch", {"enter", "frame"})
  /\ \/ ~TwoHands /\ ToNPointables /\ UNCHANGED touchEvent
     \/ /\ TwoHands
        /\ IF zone # "TOUCHING" THEN TransitionTo("2Hands_Hovering") ELSE Stay
        /\ AddTouchPoints({<<"finger1", TRUE>>, <<"finger2", TRUE>>})
  /\ UNCHANGED <<clickVars, gesture, favorite, favoriteHand, ageVars>>

(* States with nothing to do on SM_EXIT.                                   *)
Exit_Other ==
  /\ At(current, {"exit"})
  /\ current \notin {"1Pointable_ClickCooldown", "2PlusPointables_Scrolling",
                     "2Hands_Rotating", "2Hands_Zooming"}
  /\ Exited
  /\ NoOutput
  /\ UNCHANGED <<favorite, favoriteHand, ageVars>>

Handler ==
  /\ \/ State_0Pointables
     \/ State_1Pointable_Hovering
     \/ State_1Pointable_ClickCooldown \/ Exit_1Pointable_ClickCooldown
     \/ State_2PlusPointables_Hovering
     \/ Enter_2PlusPointables_Scrolling \/ State_2PlusPointables_Scrolling
     \/ Exit_2PlusPointables_Scrolling
     \/ State_2Hands_Hovering
     \/ State_2Hands_GestureRecognition
     \/ Enter_2Hands_Gesture \/ State_2Hands_Gesture \/ Exit_2Hands_Gesture
     \/ State_2Hands_Touch
     \/ Exit_Other
  /\ UNCHANGED <<frameVars, emitted>>

Next ==
  \/ ProcessFrame \/ ProcessFirstFrame \/ Handler \/ EndFrame
  \/ Destroy \/ Recreate \/ Cancel

(* Handlers run when called, and setDesiredMode goes on after deleting a    *)
(* mode.  No frame is ever owed: the device may be gone.                    *)
Fairness ==
  /\ WF_vars(Handler)
  /\ WF_vars(ProcessFirstFrame)
  /\ WF_vars(EndFrame)
  /\ WF_vars(Recreate)

Spec == Init /\ [][Next]_vars /\ Fairness

-------------------------------------------------------------------------------
(* Properties.                                                              *)

(* The driver's gesture belongs to the state that began it: between two     *)
(* handler calls it is in progress only in the scrolling, rotating or       *)
(* zooming state, and of that type (or cancelled), and the button is        *)
(* pressed only by the click being cooled down, with its click number.      *)
OutputOwned ==
  /\ gesture = "Scroll" => current = "2PlusPointables_Scrolling"
  /\ gesture = "Rotate" => current = "2Hands_Rotating"
  /\ gesture = "Zoom" => current = "2Hands_Zooming"
  /\ button # 0 => button = clickNumber /\ clickDown = "down"
  /\ clickDown = "down" => current = "1Pointable_ClickCooldown" \/ next = "1Pointable_ClickCooldown"

(* A frame that shows no hand and no pointable leaves nothing behind, and   *)
(* neither does a mode that is destroyed in the middle of anything: no      *)
(* gesture is in progress and no button is down, however late the count     *)
(* filter is.                                                               *)
NothingLeft == gesture = NoGesture /\ button = 0

EmptyOrGoneIsQuiet ==
  /\ frameStep = "between" /\ relevant = 0 /\ hands = {} /\ ~TwoHands => NothingLeft
  /\ frameStep = "shutdown" /\ Quiet => NothingLeft

(* A hand is reported as touching only when one of its fingers touches: the *)
(* scroll's exit and the states before and after it add points of the same  *)
(* hand to one event, from a favorite hand chosen in an earlier call.       *)
HandTouchesAreReal ==
  frameStep = "process" => \A h \in Hand : <<h, TRUE>> \in touchEvent => h \in fingers

(* How many more states a frame can enter after s, when s is the one it      *)
(* asks for: only the first frame enters the first state.                   *)
Depth(s) ==
  CASE s = "0Pointables_NoInteraction" -> IF frameStep = "initialize" THEN 3 ELSE 0
    [] s = "2Hands_Hovering"           -> 2
    [] s \in {"1Pointable_Hovering", "2PlusPointables_Hovering", "2Hands_GestureRecognition"} -> 1
    [] OTHER                           -> 0

(* How many handler calls are left of a frame's chain, this one included:   *)
(* an exit and an entry for every state that is entered.                    *)
CallsLeft ==
  CASE input = "none"  -> 0
    [] input = "enter" -> 2 * Depth(current) + 1
    [] input = "exit"  -> IF next = NoState THEN 1 ELSE 2 * Depth(next) + 2
    [] input = "frame" -> 7

(* Every call brings the end of its frame's chain nearer: no states go on   *)
(* transitioning to each other (StateMachine.h:35), and a frame makes at    *)
(* most seven, however its count and its zone contradict each other (the    *)
(* first frame of a mode twice that, as it also initializes the machine).   *)
ChainsShorten == [][input # "none" => CallsLeft' \in 0..(CallsLeft - 1)]_vars

(* And the engine makes all the calls: every frame's chain ends.            *)
FrameCompletes == input # "none" ~> input = "none"

(* As long as frames come, a click is released, however the finger moves,   *)
(* and in touch mode a tap is released though its finger stays down: after  *)
(* the cooldown its point is no longer sent as touching.  When they stop, as *)
(* after a disconnection, what is pressed stays pressed: onDisconnect keeps *)
(* the mode (TouchlessListener.cpp:58-62) and cancelGestureEvents releases  *)
(* no button.                                                               *)
FramesComing == []<>(frameStep = "process")

ClicksEnd ==
  FramesComing =>
    /\ button # 0 ~> button = 0
    /\ <<"finger", TRUE>> \in emitted ~> <<"finger", TRUE>> \notin emitted

(* The mode drives the button and the gestures as PointerOutput allows.     *)
Output == INSTANCE PointerOutput
OutputSpec == Output!Spec

(* GestureInteractionManager.cpp:145, "all pointables must be ZONE_TOUCHING *)
(* for the collective zone to be ZONE_TOUCHING": then a two-hand touch      *)
(* point would be sent only while something touches.                        *)
TouchPointsAreTouches ==
  frameStep = "process" /\ <<"finger1", TRUE>> \in touchEvent => touching > 0
===============================================================================
