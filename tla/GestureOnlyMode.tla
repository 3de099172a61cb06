---------------------------- MODULE GestureOnlyMode ----------------------------
(***************************************************************************)
(* The intro mode of the Mac (GestureInteraction/GestureOnlyMode.cpp): no  *)
(* cursor and no clicks, only scrolling with one or two fingers, swipes    *)
(* with more of them and swipes of a palm.                                 *)
(*                                                                         *)
(* It does not use the filtered count of the manager.  It sorts frames     *)
(* into categories and gives its state machine an event when a category    *)
(* has three quarters of the last 100 ms, so that one frame runs the       *)
(* machine up to three times: for the count, for touching, for the frame.  *)
(* Frames come at a steady rate, Window of them in 100 ms.  LOST_FOCUS is  *)
(* never sent.                                                             *)
(***************************************************************************)
EXTENDS Naturals, Sequences, FiniteSets, StateMachine

CONSTANTS
  Window,     \* frames in GestureRecognitionDuration (100 ms)
  Cooldown    \* frames in COOLDOWN_DURATION (500 ms)

ASSUME GestureOnlyAssumption == Window \in Nat \ {0} /\ Cooldown \in Nat

VARIABLES
  history,       \* the categories of the last Window frames, the newest first
  aged,          \* "yes" when a frame is at least 100 ms old
  touch,         \* who touches: "none", "favorite" hand or pointable, or "other"
  justScrolled,  \* m_justScrolled: "yes" or "no"
  cooldownAge,   \* frames since m_cooldownStartTime, capped
  sinceSwipe,    \* frames since a swipe ended, capped: read by a property only
  gesture        \* the type of the driver's gesture

frameVars == <<history, aged, touch>>
vars == <<machineVars, frameVars, justScrolled, cooldownAge, sinceSwipe, gesture>>

Category   == {"TWO", "THREEPLUS", "OTHER", "PALM"}
CountInput == {"COUNT_TWO", "COUNT_THREEPLUS", "COUNT_OTHER", "COUNT_PALM", "COUNT_UNCERTAIN"}
UserInput  == CountInput \cup {"TOUCHING", "NOT_TOUCHING", "PROCESS_FRAME"}

GestureOf == [Scrolling |-> "Scroll",
              SwipeVertical |-> "DesktopSwipeVertical",
              SwipeHorizontal |-> "DesktopSwipeHorizontal",
              Palm_Swipe |-> "DesktopSwipeHorizontal"]

GestureState == {"Scrolling", "SwipeVertical", "SwipeHorizontal", "Palm_Swipe"}
State        == GestureState \cup {"GestureRecognition", "Cooldown", "2Fingers_Hovering"}
GestureType  == {"Scroll", "DesktopSwipeVertical", "DesktopSwipeHorizontal"}
NoGesture    == "None"

TypeOK ==
  /\ MachineTypeOK(State, UserInput,
                   {"between", "count", "touch", "process", "end", "shutdown"})
  /\ history \in Seq(Category) /\ Len(history) <= Window
  /\ aged \in {"yes", "no"} /\ touch \in {"none", "favorite", "other"}
  /\ justScrolled \in {"yes", "no"}
  /\ cooldownAge \in 0..Cooldown /\ sinceSwipe \in 0..Cooldown
  /\ gesture \in GestureType \cup {NoGesture}

Init ==
  /\ MachineInit
  /\ history = <<>> /\ aged = "no" /\ touch = "none"
  /\ justScrolled = "no"
  /\ cooldownAge = Cooldown /\ sinceSwipe = Cooldown
  /\ gesture = NoGesture

-------------------------------------------------------------------------------
(* processFrame.                                                            *)

Older(age, limit) == IF age < limit THEN age + 1 ELSE age

(* A frame of category c joins the history.                                *)
AddFrame(c) ==
  /\ history' = IF Len(history) = Window THEN <<c>> \o SubSeq(history, 1, Window - 1)
                                         ELSE <<c>> \o history
  /\ aged' = IF Len(history) = Window THEN "yes" ELSE "no"

(* How many pointables identifyRelevantPointables leaves of a frame (more  *)
(* than two are alike), and how its hand is held (shouldBeInPalmSwipeMode). *)
Relevant == 0..3
HandPose == {"sideways", "other"}

CategoryOf(n, pose) ==
  IF pose = "sideways" THEN "PALM"
  ELSE IF n = 0 THEN "OTHER"
  ELSE IF n <= 2 THEN "TWO"
  ELSE "THREEPLUS"

(* Who may touch in a frame with n relevant pointables.                    *)
MayTouch(n) == IF n = 0 THEN {"none"} ELSE {"none", "favorite", "other"}

ProcessFrame ==
  /\ frameStep = "between"
  /\ \E n \in Relevant, pose \in HandPose :
       AddFrame(CategoryOf(n, pose)) /\ touch' \in MayTouch(n)
  /\ cooldownAge' = Older(cooldownAge, Cooldown)
  /\ sinceSwipe' = Older(sinceSwipe, Cooldown)
  /\ frameStep' = "count"
  /\ IF current = NoState THEN Initialize("GestureRecognition")
                          ELSE UNCHANGED <<current, next, input>>
  /\ UNCHANGED <<justScrolled, gesture>>

(* The frames of category c in the window.                                 *)
Number(c) == Cardinality({i \in DOMAIN history : history[i] = c})

Dominates(c) == 4 * Number(c) >= 3 * Window
Low(c)       == 2 * Number(c) < Window

CountOf(c) ==
  CASE c = "TWO"       -> "COUNT_TWO"
    [] c = "THREEPLUS" -> "COUNT_THREEPLUS"
    [] c = "OTHER"     -> "COUNT_OTHER"
    [] c = "PALM"      -> "COUNT_PALM"

(* The count event of a frame, if any.  A history that is too short counts *)
(* as OTHER.                                                               *)
CountEvents ==
  IF aged = "no" THEN {"COUNT_OTHER"}
  ELSE IF \E c \in Category : Dominates(c)
    THEN {CountOf(c) : c \in {d \in Category : Dominates(d)}}
  ELSE IF \A c \in Category : Low(c) THEN {"COUNT_UNCERTAIN"}
  ELSE {}

TouchEvents ==
  IF touch = "none" THEN {"NOT_TOUCHING"}
  ELSE IF touch = "favorite" THEN {"TOUCHING"}
  ELSE {}

(* The machine is run with the event of one step of processFrameInternal,  *)
(* if there is one.                                                        *)
RunStep(step, events, then) ==
  /\ frameStep = step /\ Quiet
  /\ frameStep' = then
  /\ IF events = {} THEN UNCHANGED <<current, next, input>>
                    ELSE \E e \in events : RunCurrentState(e)
  /\ UNCHANGED <<frameVars, justScrolled, cooldownAge, sinceSwipe, gesture>>

RunCount == RunStep("count", CountEvents, "touch")
RunTouch == RunStep("touch", TouchEvents, "process")
RunFrame == RunStep("process", {"PROCESS_FRAME"}, "end")
EndFrame == RunStep("end", {}, "between")

(* The mode is deleted, and the user chooses it again.                     *)
Destroy ==
  /\ Shutdown
  /\ UNCHANGED <<frameVars, justScrolled, cooldownAge, sinceSwipe, gesture>>

Recreate ==
  /\ frameStep = "shutdown" /\ Quiet
  /\ frameStep' = "between"
  /\ history' = <<>> /\ aged' = "no" /\ touch' = "none"
  /\ justScrolled' = "no"
  /\ cooldownAge' = Cooldown /\ sinceSwipe' = Cooldown
  /\ gesture' = NoGesture
  /\ UNCHANGED <<current, next, input>>

(* The device is disconnected between two frames.                          *)
Cancel ==
  /\ frameStep = "between"
  /\ gesture # NoGesture
  /\ gesture' = NoGesture
  /\ UNCHANGED <<machineVars, frameVars, justScrolled, cooldownAge, sinceSwipe>>

-------------------------------------------------------------------------------
(* The handlers.                                                            *)

(* Slip: recognition starts itself anew when there is nothing to recognize.*)
MutState_GestureRecognition ==
  /\ current = "GestureRecognition" /\ input # "none"
  /\ justScrolled' = "no"
  /\ \/ input = "exit" /\ Exited
     \/ input = "COUNT_PALM" /\ aged = "yes" /\ TransitionTo("Palm_Swipe")
     \/ input = "COUNT_TWO" /\ aged = "yes" /\ TransitionTo("2Fingers_Hovering")
     \/ input \notin {"exit", "COUNT_PALM", "COUNT_TWO"} /\ TransitionTo("GestureRecognition")
  /\ UNCHANGED <<cooldownAge, sinceSwipe, gesture>>

(* This handler forgets a scroll on every call, its exit included, and     *)
(* three fingers must have moved far enough, in one direction.             *)
State_GestureRecognition ==
  /\ current = "GestureRecognition"
  /\ justScrolled' = "no"
  /\ \/ input = "exit" /\ Exited
     \/ input = "COUNT_PALM" /\ aged = "yes" /\ TransitionTo("Palm_Swipe")
     \/ input = "COUNT_TWO" /\ aged = "yes" /\ TransitionTo("2Fingers_Hovering")
     \/ /\ input = "COUNT_THREEPLUS" /\ aged = "yes"
        /\ \/ TransitionTo("SwipeHorizontal")
           \/ TransitionTo("SwipeVertical")
           \/ Stay
     \/ input \in {"enter", "COUNT_OTHER", "COUNT_UNCERTAIN",
                   "TOUCHING", "NOT_TOUCHING", "PROCESS_FRAME"} /\ Stay
  /\ UNCHANGED <<cooldownAge, sinceSwipe, gesture>>

(* Slip: the cooldown goes on from its last start.                         *)
MutState_Cooldown ==
  /\ current = "Cooldown" /\ input # "none"
  /\ UNCHANGED cooldownAge
  /\ \/ input = "exit" /\ Exited
     \/ input \notin {"exit", "enter", "PROCESS_FRAME"} /\ Stay
     \/ /\ input \in {"enter", "PROCESS_FRAME"}
        /\ IF cooldownAge >= Cooldown THEN TransitionTo("GestureRecognition") ELSE Stay
  /\ UNCHANGED <<justScrolled, sinceSwipe, gesture>>

State_Cooldown ==
  /\ current = "Cooldown" /\ input # "none"
  /\ cooldownAge' = IF input = "enter" THEN 0 ELSE cooldownAge
  /\ \/ input = "exit" /\ Exited
     \/ input \notin {"exit", "enter", "PROCESS_FRAME"} /\ Stay
     \/ /\ input \in {"enter", "PROCESS_FRAME"}
        /\ IF cooldownAge' >= Cooldown THEN TransitionTo("GestureRecognition") ELSE Stay
  /\ UNCHANGED <<justScrolled, sinceSwipe, gesture>>

State_2Fingers_Hovering ==
  /\ current = "2Fingers_Hovering" /\ input # "none"
  /\ \/ input = "exit" /\ Exited
     \/ input = "TOUCHING" /\ TransitionTo("Scrolling")
     \/ /\ input \in CountInput \ {"COUNT_TWO"}
        /\ TransitionTo(IF justScrolled = "yes" THEN "Cooldown" ELSE "GestureRecognition")
     \/ input \in {"enter", "COUNT_TWO", "NOT_TOUCHING", "PROCESS_FRAME"} /\ Stay
  /\ UNCHANGED <<justScrolled, cooldownAge, sinceSwipe, gesture>>

Begin == gesture' = GestureOf[current]

End == gesture' = NoGesture

State_2Fingers_Scrolling ==
  /\ current = "Scrolling" /\ input # "none"
  /\ \/ input = "enter" /\ justScrolled' = "yes" /\ Begin /\ Stay
     \/ input = "exit" /\ End /\ Exited /\ UNCHANGED justScrolled
     \/ /\ \/ input = "NOT_TOUCHING" /\ TransitionTo("2Fingers_Hovering")
           \/ input \in CountInput \ {"COUNT_TWO"} /\ TransitionTo("GestureRecognition")
           \/ input \in {"COUNT_TWO", "TOUCHING", "PROCESS_FRAME"} /\ Stay
        /\ UNCHANGED <<justScrolled, gesture>>
  /\ UNCHANGED <<cooldownAge, sinceSwipe>>

(* The swipe is applied and left as soon as there is history for it, which *)
(* the state before has made sure of.                                      *)
State_Swipe ==
  /\ current \in {"SwipeVertical", "SwipeHorizontal"} /\ input # "none"
  /\ \/ /\ input \in {"enter", "PROCESS_FRAME"}
        /\ IF input = "enter" THEN Begin ELSE UNCHANGED gesture
        /\ IF aged = "yes" THEN TransitionTo("Cooldown") ELSE Stay
        /\ UNCHANGED sinceSwipe
     \/ input = "exit" /\ End /\ Exited /\ sinceSwipe' = 0
     \/ /\ input \in UserInput \ {"PROCESS_FRAME"}
        /\ Stay
        /\ UNCHANGED <<sinceSwipe, gesture>>
  /\ UNCHANGED <<justScrolled, cooldownAge>>

(* Slip: only an uncertain count or one of fingers ends a palm swipe.      *)
MutState_Palm_Swipe ==
  /\ current = "Palm_Swipe" /\ input # "none"
  /\ \/ input = "enter" /\ Begin /\ Stay /\ UNCHANGED sinceSwipe
     \/ input = "exit" /\ End /\ Exited /\ sinceSwipe' = 0
     \/ /\ IF input \in {"COUNT_TWO", "COUNT_THREEPLUS", "COUNT_UNCERTAIN"}
             THEN TransitionTo("Cooldown") ELSE input \in UserInput /\ Stay
        /\ UNCHANGED <<sinceSwipe, gesture>>
  /\ UNCHANGED <<justScrolled, cooldownAge>>

(* A palm swipe is applied as a whole when it is left.                     *)
State_Palm_Swipe ==
  /\ current = "Palm_Swipe" /\ input # "none"
  /\ \/ input = "enter" /\ Begin /\ Stay /\ UNCHANGED sinceSwipe
     \/ input = "exit" /\ End /\ Exited /\ sinceSwipe' = 0
     \/ /\ \/ input \in CountInput \ {"COUNT_PALM"} /\ TransitionTo("Cooldown")
           \/ input \in {"COUNT_PALM", "TOUCHING", "NOT_TOUCHING", "PROCESS_FRAME"} /\ Stay
        /\ UNCHANGED <<sinceSwipe, gesture>>
  /\ UNCHANGED <<justScrolled, cooldownAge>>

Handler ==
  /\ \/ State_GestureRecognition \/ State_Cooldown
     \/ State_2Fingers_Hovering \/ State_2Fingers_Scrolling
     \/ State_Swipe \/ State_Palm_Swipe
  /\ UNCHANGED frameVars

Next ==
  \/ ProcessFrame \/ RunCount \/ RunTouch \/ RunFrame \/ EndFrame \/ Handler
  \/ Destroy \/ Recreate \/ Cancel

Spec == Init /\ [][Next]_vars

-------------------------------------------------------------------------------
(* Properties.                                                              *)

(* Once three quarters of the window show no pointable no gesture is in     *)
(* progress between frames, whatever swipe, scroll or cooldown went before. *)
EmptySceneIsQuiet ==
  frameStep = "between" /\ (aged = "no" \/ Dominates("OTHER")) => gesture = NoGesture

(* After a swipe no gesture begins before the cooldown is over.             *)
SwipesAreSpaced ==
  [][gesture = NoGesture /\ gesture' # NoGesture => sinceSwipe >= Cooldown]_vars

(* How many more states a run can enter after s.                            *)
Depth(s) ==
  CASE s \in {"SwipeVertical", "SwipeHorizontal"} -> 2
    [] s = "Cooldown"                             -> 1
    [] OTHER                                      -> 0

(* How many handler calls are left of a run, this one included: an exit and *)
(* an entry for every state that is entered.                                *)
CallsLeft ==
  CASE input = "none"     -> 0
    [] input = "enter"    -> 2 * Depth(current) + 1
    [] input = "exit"     -> IF next = NoState THEN 1 ELSE 2 * Depth(next) + 2
    [] input \in UserInput -> 7

(* Every call brings the end of its run nearer: no states go on             *)
(* transitioning to each other (StateMachine.h:35), and none of the up to   *)
(* three runs of a frame makes more than seven calls.                       *)
ChainsShorten == [][input # "none" => CallsLeft' \in 0..(CallsLeft - 1)]_vars

(* The mode drives the driver's gestures as PointerOutput allows, and never *)
(* presses a button.                                                        *)
Output == INSTANCE PointerOutput WITH button <- 0
OutputSpec == Output!Spec
===============================================================================
