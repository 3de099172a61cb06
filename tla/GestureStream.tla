----------------------------- MODULE GestureStream -----------------------------
(***************************************************************************)
(* The stream of gesture events as an application receives it from a       *)
(* single trackpad: the phase of the last event of a gesture and the       *)
(* momentum phase of the last momentum event.  A gesture begins, changes   *)
(* and ends; momentum begins only after the gesture that feeds it has      *)
(* ended, and is over before the next gesture begins.  A gesture that      *)
(* begins while the replay of the old momentum is late may miss its Began, *)
(* and so may its momentum.                                                *)
(***************************************************************************)

VARIABLES
  gesture,   \* "None", or the phase of the last gesture event
  momentum,  \* "None", or the phase of the last momentum event
  late       \* "yes" if the gesture began while a replay was under way

vars == <<gesture, momentum>>

Over == {"None", "Ended", "Cancelled"}

Init ==
  /\ gesture = "None"
  /\ momentum = "None"

GestureBegins ==
  /\ gesture \in Over
  /\ momentum \in Over
  /\ gesture' = "Began"
  /\ UNCHANGED momentum

GestureChanges ==
  /\ gesture = "Began"
  /\ gesture' = "Changed"
  /\ UNCHANGED momentum

(* A gesture without any motion only ever shows its end. *)
GestureEnds ==
  /\ gesture' \in {"Ended", "Cancelled"}
  /\ UNCHANGED momentum

MomentumBegins ==
  /\ gesture = "Ended"
  /\ momentum \in Over
  /\ momentum' = "Began"
  /\ UNCHANGED gesture

MomentumChanges ==
  /\ momentum = "Began"
  /\ momentum' = "Changed"
  /\ UNCHANGED gesture

MomentumEnds ==
  /\ momentum \in {"Began", "Changed"}
  /\ momentum' = "Ended"
  /\ UNCHANGED gesture

(* The replay took the gesture's Began for its own, or its momentum's.      *)
GestureBeganLost ==
  /\ late = "yes"
  /\ gesture \in Over
  /\ momentum \in Over
  /\ gesture' = "Changed"
  /\ UNCHANGED momentum

MomentumBeganLost ==
  /\ late = "yes"
  /\ gesture = "Ended"
  /\ momentum \in Over
  /\ momentum' \in {"Changed", "Ended"}
  /\ UNCHANGED gesture

Next ==
  \/ GestureBegins
  \/ GestureChanges
  \/ GestureEnds
  \/ MomentumBegins
  \/ MomentumChanges
  \/ MomentumEnds
  \/ GestureBeganLost
  \/ MomentumBeganLost

Spec == Init /\ [][Next]_vars
===============================================================================
