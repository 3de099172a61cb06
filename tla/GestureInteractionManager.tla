----------------------- MODULE GestureInteractionManager -----------------------
(***************************************************************************)
(* What GestureInteractionManager::processFrame derives from a frame of    *)
(* the tracking device before the mode's state machine runs: the number of *)
(* relevant pointables, how many of them touch, the filtered count and the *)
(* collective zone.  The zone is a virtual method: each mode says which    *)
(* one it uses.                                                            *)
(***************************************************************************)
EXTENDS Naturals

CONSTANTS
  MaxPointables,  \* bound on the relevant pointables of a frame
  Jumpy           \* can the count filter change its mind within one frame?

ASSUME ManagerAssumption == MaxPointables \in Nat \ {0} /\ Jumpy \in BOOLEAN

VARIABLES
  relevant,   \* m_relevantPointables.size()
  touching,   \* how many of them are in ZONE_TOUCHING
  count,      \* filteredCategory(), or Ambiguous
  zone        \* m_collectiveZone

managerVars == <<relevant, touching, count, zone>>

Ambiguous == MaxPointables + 1

ManagerTypeOK ==
  /\ relevant \in 0..MaxPointables
  /\ touching \in 0..relevant
  /\ count \in 0..Ambiguous
  /\ zone \in {"NONE", "HOVERING", "TOUCHING"}

(* A new filter is "completely ambiguous"; the zone is set by the first    *)
(* frame before anything reads it.                                         *)
ManagerInit ==
  /\ relevant = 0
  /\ touching = 0
  /\ count = Ambiguous
  /\ zone = "NONE"

(* The zone of n relevant pointables, t of them touching.  It is computed  *)
(* before the count is updated and therefore compares the touching         *)
(* pointables of this frame with the filtered count of the frame before.   *)
CollectiveZone(n, t) ==
  IF n = 0 THEN "NONE"
  ELSE IF t = count \/ t >= 3 THEN "TOUCHING"
  ELSE "HOVERING"

(* The category filter averages exponentially and is unambiguous when one  *)
(* count has at least 0.8 of the weight.  An update with n raises only the *)
(* weight of n: an unambiguous count is kept when seen again, otherwise it *)
(* may hold on or become ambiguous, and n alone can become unambiguous;    *)
(* from another unambiguous count only when a single frame has 0.75 of the *)
(* weight, between 15 and 20 frames per second.                            *)
Filtered(n) ==
  IF count = n THEN {n}
  ELSE {count, Ambiguous} \cup (IF Jumpy \/ count = Ambiguous THEN {n} ELSE {})

(* The manager looks at a new frame; the mode adds zone'.                  *)
Observe ==
  \E n \in 0..MaxPointables : \E t \in 0..n :
    /\ relevant' = n
    /\ touching' = t
    /\ count' \in Filtered(n)

(* pointableCountIsUnambiguous() and a count in S.                         *)
CountIn(S) == count # Ambiguous /\ count \in S

(* Is there a foremost pointable?  When the filter names a count that the  *)
(* frame does not show, no pointable is trusted.                           *)
HasForemost(n, c) == n > 0 /\ (c = Ambiguous \/ c = n)
===============================================================================
