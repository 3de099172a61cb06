----------------------------- MODULE PointerOutput -----------------------------
(***************************************************************************)
(* What an interaction mode promises the operating-system driver: mouse    *)
(* presses and releases alternate, gestures are begun and ended one at a   *)
(* time, and a gesture and a pressed button exclude each other.            *)
(***************************************************************************)
EXTENDS Naturals

CONSTANTS GestureType, NoGesture

VARIABLES
  gesture,   \* the gesture in progress, or NoGesture
  button     \* the click number of the pressed button, 0 when it is up

outputVars == <<gesture, button>>

Init == gesture = NoGesture /\ button = 0

Begin == gesture = NoGesture /\ button = 0 /\ gesture' \in GestureType /\ UNCHANGED button
End == gesture # NoGesture /\ gesture' = NoGesture /\ UNCHANGED button
Press == gesture = NoGesture /\ button = 0 /\ button' \in 1..3 /\ UNCHANGED gesture
Release == button # 0 /\ button' = 0 /\ UNCHANGED gesture

Next == Begin \/ End \/ Press \/ Release

Spec == Init /\ [][Next]_outputVars
===============================================================================
