------------------------------ MODULE TouchManager ------------------------------
(***************************************************************************)
(* Injection of touches on Windows (OSInteraction/TouchManager.cpp and the *)
(* three concrete managers).  setTouches compares the touches of a frame   *)
(* with those of the frame before and calls AddTouch, UpdateTouch and      *)
(* RemoveTouch of the concrete class, which turns each into a report to    *)
(* the system.  What the system makes of a report is external and modelled *)
(* from the flags the code gives it.                                       *)
(*                                                                         *)
(* A touch is its contact with the screen; positions are left out.  A call *)
(* of setTouches is one step: its callers are taken not to overlap.        *)
(***************************************************************************)
EXTENDS Integers

CONSTANTS
  TouchIds,        \* ids a Touch may have
  MaxTouchCount    \* MAX_TOUCH_COUNT, and the size of a BYTE

ASSUME TouchAssumption == TouchIds \subseteq Nat /\ MaxTouchCount \in Nat \ {0}

VARIABLES
  manager,    \* the class of *m_touchManager, "nullptr" when there is none
  m_touches,  \* the contact of each touch of the set, "none" when not in it
  capture,    \* m_capture: "touch" for a window that takes touches, else "other"
  system,     \* external: the contact the system holds at each pointer
  clashed     \* has a call ever used one pointer for two touches?  (history)

touchVars == <<manager, m_touches, capture, system, clashed>>

Manager == {"Win8", "Win7Driver", "Win7Undocumented"}
Contact == {"none", "hover", "contact"}

(* The pointer a touch is reported as.  Two ids may share one.             *)
Pointer(id) == IF manager = "Win7Undocumented" THEN id ELSE id % MaxTouchCount
Pointers    == TouchIds \cup 0..(MaxTouchCount - 1)

NoTouches == [id \in TouchIds |-> "none"]

TouchTypeOK ==
  /\ manager \in Manager \cup {"nullptr"}
  /\ m_touches \in [TouchIds -> Contact]
  /\ capture \in {"nullptr", "touch", "other"}
  /\ system \in [Pointers -> Contact]
  /\ clashed \in {"no", "yes"}

(* OSInteractionDriverWin::initializeTouch, TouchManager::New: the first   *)
(* class that the system supports, if any.                                 *)
New(supported) ==
  CASE "Win8" \in supported -> "Win8"
    [] "Win8" \notin supported /\ "Win7Driver" \in supported -> "Win7Driver"
    [] supported = {"Win7Undocumented"} -> "Win7Undocumented"
    [] OTHER -> "nullptr"

TouchInit ==
  /\ \E supported \in SUBSET Manager : manager = New(supported)
  /\ m_touches = NoTouches
  /\ capture = "nullptr"
  /\ system = [p \in Pointers |-> "none"]
  /\ clashed = "no"

(* The touches a call reports: those before it and those after it.         *)
Reported(touches) == {id \in TouchIds : m_touches[id] # "none" \/ touches[id] # "none"}

Clash(touches) ==
  \E a, b \in Reported(touches) : a # b /\ Pointer(a) = Pointer(b)

---------------------------------------------------------------------------
(* TouchManagerWin8: the flags of each report, by INRANGE, INCONTACT and   *)
(* DOWN, UPDATE or UP.                                                     *)
Win8AddTouch(new) == IF new = "contact" THEN "down" ELSE "hover"

(* Slip: an update only looks at the contact the touch has now.            *)
MutWin8UpdateTouch(old, new) == IF new = "contact" THEN "move" ELSE "hover"

Win8UpdateTouch(old, new) ==
  CASE new = "contact" /\ old = "contact" -> "move"
    [] new = "contact" /\ old # "contact" -> "down"
    [] new # "contact" /\ old = "contact" -> "lift"
    [] OTHER -> "hover"

Win8RemoveTouch(old) == IF old = "contact" THEN "up" ELSE "leave"

Win8Report(old, new) ==
  CASE old = "none" -> Win8AddTouch(new)
    [] new = "none" -> Win8RemoveTouch(old)
    [] OTHER -> Win8UpdateTouch(old, new)

(* External: the states of a pointer a report is legal in, and the state   *)
(* that follows.                                                           *)
LegalIn(report) ==
  CASE report \in {"down", "hover"} -> {"none", "hover"}
    [] report \in {"move", "lift", "up"} -> {"contact"}
    [] OTHER -> {"hover"}

After(report) ==
  CASE report \in {"down", "move"} -> "contact"
    [] report \in {"hover", "lift"} -> "hover"
    [] OTHER -> "none"

(* FinishFrame hands all reports to one NtUserInjectTouchInput, which      *)
(* refuses them all when one is illegal or two are for the same pointer;   *)
(* its result is ignored.                                                  *)
QueuedReport(id, touches) == Win8Report(m_touches[id], touches[id])

Accepted(touches) ==
  /\ ~Clash(touches)
  /\ \A id \in Reported(touches) :
       system[Pointer(id)] \in LegalIn(QueuedReport(id, touches))

(* The touches a call reports for a pointer.                               *)
Sharing(p, touches) == {id \in Reported(touches) : Pointer(id) = p}

InjectTouchInput(touches) ==
  /\ system' =
       IF Accepted(touches)
       THEN [p \in Pointers |->
              IF Sharing(p, touches) = {} THEN system[p]
              ELSE After(QueuedReport(CHOOSE id \in Sharing(p, touches) : TRUE, touches))]
       ELSE system
  /\ UNCHANGED capture

---------------------------------------------------------------------------
(* TouchManagerWin7Driver: each touch is sent at once with its tip switch, *)
(* a removed one with the last value it had.  Removed touches go first and *)
(* both groups in the order of their ids, so the last of those that share  *)
(* a pointer decides.                                                      *)
TipSwitch(old, new) ==
  LET touch == IF new = "none" THEN old ELSE new
  IN  IF touch = "contact" THEN "contact" ELSE "hover"

LastSent(p, touches) ==
  LET staying == {id \in Sharing(p, touches) : touches[id] # "none"}
      group == IF staying # {} THEN staying ELSE Sharing(p, touches)
  IN  CHOOSE id \in group : \A other \in group : other <= id

SendReports(touches) ==
  /\ system' = [p \in Pointers |->
       IF Sharing(p, touches) = {} THEN system[p]
       ELSE TipSwitch(m_touches[LastSent(p, touches)], touches[LastSent(p, touches)])]
  /\ UNCHANGED capture

---------------------------------------------------------------------------
(* TouchManagerWin7Undocumented: touches go to the window found under the  *)
(* first one added, until all are removed.  While there is no window, each *)
(* new touch searches one and an existing one is not reported.  "moved" is *)
(* TOUCHEVENTF_MOVE, which neither presses nor lifts a point.              *)
Win7Report(old, new) ==
  CASE old = "none" -> IF new = "contact" THEN "contact" ELSE "hover"
    [] new = "none" -> "none"
    [] new = "contact" -> IF old = "contact" THEN "contact" ELSE "moved"
    [] OTHER -> IF old = "contact" THEN "moved" ELSE "none"

Send(touches, seen) ==
  system' = [p \in Pointers |->
    IF p \in seen \cap Reported(touches) /\ Win7Report(m_touches[p], touches[p]) # "moved"
    THEN Win7Report(m_touches[p], touches[p])
    ELSE system[p]]

SendToWindow(touches) ==
  LET added == {id \in TouchIds : m_touches[id] = "none" /\ touches[id] # "none"}
  IN  \/ /\ capture # "nullptr"
         /\ IF capture = "touch" THEN Send(touches, TouchIds) ELSE UNCHANGED system
         /\ capture' = IF touches = NoTouches THEN "nullptr" ELSE capture
      \/ /\ capture = "nullptr"
         /\ \E first \in added :
              \/ /\ Send(touches, {id \in TouchIds : id >= first /\ touches[id] # "none"})
                 /\ capture' = "touch"
              \/ /\ UNCHANGED system
                 /\ capture' = "other"
      \/ /\ capture = "nullptr"
         /\ UNCHANGED <<system, capture>>

---------------------------------------------------------------------------
(* TouchManager::setTouches.                                               *)
SetTouches(touches) ==
  /\ m_touches' = touches
  /\ clashed' = IF manager # "Win7Undocumented" /\ Clash(touches) THEN "yes" ELSE clashed
  /\ CASE manager = "Win8" -> InjectTouchInput(touches)
       [] manager = "Win7Driver" -> SendReports(touches)
       [] manager = "Win7Undocumented" -> SendToWindow(touches)
  /\ UNCHANGED manager

(* TouchManager::clearTouches.                                             *)
ClearTouches ==
  IF m_touches = NoTouches THEN UNCHANGED touchVars ELSE SetTouches(NoTouches)
=============================================================================
