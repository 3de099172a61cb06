----------------------------- MODULE TouchPeripheral -----------------------------
(***************************************************************************)
(* The touch mode of Windows (OSInteraction/TouchPeripheral.cpp) on top of *)
(* the driver (OSInteraction/OSInteractionWin.cpp) and its touch manager:  *)
(* every pointable in a touch zone is a touch, and a single one that       *)
(* hovers past an edge opens a Windows 8 bar ("charm").                    *)
(*                                                                         *)
(* A frame gives each pointable a zone and a place.  Pointables without a  *)
(* zone, or that point backwards, are dropped before the mode sees them.   *)
(*                                                                         *)
(* The program never destroys the driver (the clean-up of Touchless.cpp is *)
(* disabled) and quits at once when the system supports no touch manager.  *)
(***************************************************************************)
EXTENDS TouchManager, FiniteSets

CONSTANTS
  Places   \* the places of a frame's pointables

AllPlaces == {"inside", "margin", "right", "left", "top", "far"}

ASSUME PeripheralAssumption == Places \subseteq AllPlaces /\ IsFiniteSet(TouchIds)

VARIABLES
  charmsMode,    \* m_charmsMode
  charm,         \* the bar whose keys the last frame sent, 0 when none
  lastNumIcons,  \* m_lastNumIcons
  icons,         \* the overlay icons that are visible
  replaced,      \* has a touch mode been replaced that showed icons?  (history)
  visit          \* has one hovered inside since the last bar or touch?  (history)

modeVars == <<charmsMode, charm, lastNumIcons, icons, replaced, visit>>
vars == <<touchVars, modeVars>>

Zones == {"hover", "contact"}
Seen  == [zone : Zones, place : Places]
Unseen == [zone |-> "none", place |-> "far"]

(* m_relevantPointables of a frame: what is seen of each pointable.        *)
Frames == [TouchIds -> Seen \cup {Unseen}]

Visible(frame) == {id \in TouchIds : frame[id] # Unseen}

TypeOK ==
  /\ TouchTypeOK
  /\ charmsMode \in -1..3 /\ charm \in 0..3
  /\ lastNumIcons \in Nat /\ icons \subseteq Nat
  /\ replaced \in {"no", "yes"}
  /\ visit \in {"no", "yes"}

Init ==
  /\ TouchInit
  /\ charmsMode = -1 /\ charm = 0
  /\ lastNumIcons = 0 /\ icons = {} /\ replaced = "no"
  /\ visit = "no"

---------------------------------------------------------------------------
(* A pointable is considered unless it is far outside of the screen, and   *)
(* becomes a touch where its position needs no clamping.  The position is  *)
(* normalized to the interaction box first, so that on a landscape screen  *)
(* only the height can need any.                                           *)
Considered(seen) == seen.place # "far"

TouchPoint(seen) ==
  IF seen.zone # "none" /\ seen.place \in {"inside", "margin", "left", "right"}
  THEN seen.zone ELSE "none"

TouchEvent(frame) == [id \in TouchIds |-> TouchPoint(frame[id])]

(* OSInteractionDriverWin::applyCharms for the pointable at a place.       *)
EdgeCharm(place) ==
  CASE place = "right" -> 1 [] place = "left" -> 2 [] place = "top" -> 3 [] OTHER -> 0

ApplyCharms(place, numPointables, mode) ==
  CASE mode = 0 /\ numPointables = 1 -> EdgeCharm(place)
    [] ~(mode = 0 /\ numPointables = 1) /\ place = "inside" -> 0
    [] OTHER -> mode

(* Slip: a pointable in contact leaves the mode as it is.                  *)
MutPointableMode(seen, numPointables, mode) ==
  IF seen.zone = "contact" THEN mode ELSE ApplyCharms(seen.place, numPointables, mode)

(* The modes one frame's loop over the pointables can end with, starting   *)
(* from mode: a pointable in contact resets it, one that hovers applies    *)
(* the charms, the last one that changes it decides.                       *)
PointableMode(seen, numPointables, mode) ==
  IF seen.zone = "contact" THEN -1 ELSE ApplyCharms(seen.place, numPointables, mode)

Loop(frame) == {id \in Visible(frame) : Considered(frame[id])}

LoopModes(frame, mode) ==
  LET number == Cardinality(Visible(frame))
      decisive == {id \in Loop(frame) :
                     \/ frame[id].zone = "contact"
                     \/ frame[id].place = "inside"
                     \/ ApplyCharms(frame[id].place, number, mode) # mode}
  IN  IF decisive = {} THEN {mode}
      ELSE {PointableMode(frame[id], number, mode) : id \in decisive}

(* History: whether one has hovered inside the screen since the view was   *)
(* last empty, one touched or a bar was opened.                            *)
Inside(frame)  == {id \in TouchIds : frame[id].place = "inside"}
Visits(frame)  == \E id \in Inside(frame) : frame[id].zone = "hover"
Touches(frame) == \E id \in Loop(frame) : frame[id].zone = "contact"

Visit(frame) ==
  visit' = IF charm' = 0 /\ Visits(frame) THEN "yes"
           ELSE IF charm' # 0 \/ Visible(frame) = {} \/ Touches(frame) THEN "no"
           ELSE visit

(* Each pointable of the loop gets the next icon of the overlay; those of  *)
(* the frame before that are not drawn again are hidden.                   *)
Drawn(n)  == 0..(n - 1)
Hidden(n) == n..(lastNumIcons - 1)

(* Slip: the number of icons is kept before the others are hidden.         *)
MutDrawIcons(n) ==
  /\ icons' = icons \cup Drawn(n)
  /\ lastNumIcons' = n

DrawIcons(n) ==
  /\ icons' = (icons \cup Drawn(n)) \ Hidden(n)
  /\ lastNumIcons' = n

(* TouchPeripheral::processFrameInternal, through emitTouchEvent of the    *)
(* manager and of the driver to setTouches.                                *)
Process(frame) ==
  LET start == IF Visible(frame) = {} THEN -1 ELSE charmsMode
  IN  /\ SetTouches(TouchEvent(frame))
      /\ IF manager = "Win8"
         THEN charmsMode' \in LoopModes(frame, start)
         ELSE charmsMode' = start
      /\ charm' = IF start = 0 /\ charmsMode' > 0 THEN charmsMode' ELSE 0
      /\ DrawIcons(Cardinality(Loop(frame)))
      /\ Visit(frame)
      /\ UNCHANGED replaced

ProcessFrame == manager # "nullptr" /\ \E frame \in Frames : Process(frame)

(* OSInteractionDriverWin::cancelGestureEvents, called when the device is  *)
(* disconnected or the focus is lost.                                      *)
Cancel ==
  /\ manager # "nullptr"
  /\ ClearTouches
  /\ charm' = 0
  /\ UNCHANGED <<charmsMode, lastNumIcons, icons, replaced, visit>>

(* Another mode is chosen, which cancels, and touch mode again (the other  *)
(* modes' icons are left out).  The deleted TouchPeripheral hides nothing. *)
Replace ==
  /\ manager # "nullptr"
  /\ ClearTouches
  /\ charm' = 0
  /\ charmsMode' = -1 /\ lastNumIcons' = 0 /\ visit' = "no"
  /\ replaced' = IF icons = {} THEN replaced ELSE "yes"
  /\ UNCHANGED icons

Next == ProcessFrame \/ Cancel \/ Replace

Spec == Init /\ [][Next]_vars

---------------------------------------------------------------------------
(* What the system holds is what the last frame had.  On Windows 8 exactly *)
(* so at each pointer: every batch is accepted, although its reports are   *)
(* made one by one from the contact before and after and the result of the *)
(* injection is never looked at, so that one refused batch would leave a   *)
(* pointer down.  The Windows 7 driver is told of every contact (that it   *)
(* is told of no release is not claimed), and the window of the other      *)
(* Windows 7 manager holds no point that has been removed.                 *)
Held(p) ==
  IF \E id \in TouchIds : Pointer(id) = p /\ m_touches[id] # "none"
  THEN m_touches[CHOOSE id \in TouchIds : Pointer(id) = p /\ m_touches[id] # "none"]
  ELSE "none"

Win8Follows == manager = "Win8" /\ clashed = "no" => \A p \in Pointers : system[p] = Held(p)

Win7DriverFollows ==
  manager = "Win7Driver" /\ clashed = "no" =>
    \A id \in TouchIds : m_touches[id] = "contact" => system[Pointer(id)] = "contact"

Win7WindowFollows ==
  manager = "Win7Undocumented" =>
    \A id \in TouchIds : m_touches[id] = "none" => system[id] = "none"

SystemFollows == Win8Follows /\ Win7DriverFollows /\ Win7WindowFollows

(* Keys for a bar are never sent while a pointable holds a touch, which    *)
(* would be a drag out of the screen; and each bar needs a visit of its own: *)
(* since the view was last empty, since a pointable last touched and since  *)
(* the last bar, one has hovered inside.  It need not be the one that opens *)
(* the bar, whatever TouchPeripheral.cpp:26 says.                           *)
CharmsUntouched ==
  [][charm' # 0 => /\ visit = "yes"
                   /\ \A id \in TouchIds : m_touches'[id] # "contact"]_vars

(* "hide any overlay images that weren't updated" (TouchPeripheral.cpp:55) *)
(* as long as no touch mode with icons has been replaced: each icon that   *)
(* is visible was drawn in the last frame.                                 *)
IconsFollow == replaced = "no" => icons = 0..(lastNumIcons - 1)
=============================================================================
