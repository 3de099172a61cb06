-------------------------- MODULE TouchPeripheralProofs --------------------------
(***************************************************************************)
(* Proofs about touch injection, for any set of ids and any number of      *)
(* pointers.  SystemFollows is not inductive: that a batch is accepted     *)
(* rests on the touches of the set having pointers of their own, that the  *)
(* window holds no point on there being none while nothing is captured.    *)
(***************************************************************************)
EXTENDS TouchPeripheral, FiniteSetTheorems, TLAPS

(* The touches of the set have pointers of their own.                      *)
Distinct ==
  manager \in {"Win8", "Win7Driver"} /\ clashed = "no" =>
    \A a, b \in TouchIds :
      m_touches[a] # "none" /\ m_touches[b] # "none" /\ a # b => Pointer(a) # Pointer(b)

(* A window without capture, or that takes no touches, holds no point.     *)
CaptureInv ==
  manager = "Win7Undocumented" /\ capture # "touch" => \A id \in TouchIds : system[id] = "none"

TouchInv == TouchTypeOK /\ SystemFollows /\ Distinct /\ CaptureInv

(* Charms mode 0, from which a bar opens, is reached by a visit only, and   *)
(* never without the Windows 8 manager.                                     *)
VisitInv == charmsMode = 0 => visit = "yes" /\ manager = "Win8"

IInv == TypeOK /\ TouchInv /\ IconsFollow /\ VisitInv

(* Every touch has a pointer.                                              *)
LEMMA PointerType == \A id \in TouchIds : Pointer(id) \in Pointers /\ id \in Pointers
BY TouchAssumption DEF Pointer, Pointers

(* When no pointer is used twice, the system holds at the pointer of each  *)
(* reported touch what the set has for it.                                 *)
LEMMA HeldOfReported ==
  ASSUME TouchInv, manager = "Win8", clashed = "no",
         NEW touches \in [TouchIds -> Contact], ~Clash(touches),
         NEW id \in Reported(touches)
  PROVE  system[Pointer(id)] = m_touches[id]
<1>1. id \in TouchIds /\ Pointer(id) \in Pointers
  BY PointerType DEF Reported
<1>2. system[Pointer(id)] = Held(Pointer(id))
  BY <1>1 DEF TouchInv, SystemFollows, Win8Follows
<1>3. ASSUME NEW other \in TouchIds, Pointer(other) = Pointer(id), m_touches[other] # "none"
      PROVE  other = id
  BY <1>1, <1>3 DEF Clash, Reported
<1> QED
  BY <1>1, <1>2, <1>3 DEF Held

(* Each report is legal where the touch was and leads to where it is.      *)
LEMMA Win8Reports ==
  ASSUME NEW old \in Contact, NEW new \in Contact, old # "none" \/ new # "none"
  PROVE  old \in LegalIn(Win8Report(old, new)) /\ After(Win8Report(old, new)) = new
<1>1. \/ old = "none" /\ new = "hover" /\ Win8Report(old, new) = "hover"
      \/ old = "none" /\ new = "contact" /\ Win8Report(old, new) = "down"
      \/ old = "hover" /\ new = "none" /\ Win8Report(old, new) = "leave"
      \/ old = "contact" /\ new = "none" /\ Win8Report(old, new) = "up"
      \/ old = "hover" /\ new = "hover" /\ Win8Report(old, new) = "hover"
      \/ old = "hover" /\ new = "contact" /\ Win8Report(old, new) = "down"
      \/ old = "contact" /\ new = "hover" /\ Win8Report(old, new) = "lift"
      \/ old = "contact" /\ new = "contact" /\ Win8Report(old, new) = "move"
  <2>1. CASE old = "none"
    BY <2>1 DEF Win8Report, Win8AddTouch, Contact
  <2>2. CASE old # "none" /\ new = "none"
    BY <2>2 DEF Win8Report, Win8RemoveTouch, Contact
  <2>3. CASE old # "none" /\ new # "none"
    <3>1. Win8Report(old, new) = Win8UpdateTouch(old, new)
      BY <2>3 DEF Win8Report
    <3> QED
      BY <2>3, <3>1 DEF Win8UpdateTouch, Contact
  <2> QED
    BY <2>1, <2>2, <2>3
<1>2. /\ LegalIn("down") = {"none", "hover"} /\ LegalIn("hover") = {"none", "hover"}
      /\ LegalIn("move") = {"contact"} /\ LegalIn("lift") = {"contact"}
      /\ LegalIn("up") = {"contact"} /\ LegalIn("leave") = {"hover"}
  BY DEF LegalIn
<1>3. /\ After("down") = "contact" /\ After("move") = "contact"
      /\ After("hover") = "hover" /\ After("lift") = "hover"
      /\ After("up") = "none" /\ After("leave") = "none"
  BY DEF After
<1> QED
  BY <1>1, <1>2, <1>3

(* On Windows 8 a batch without clash is accepted and the system follows.  *)
LEMMA Win8Step ==
  ASSUME TouchInv, manager = "Win8", clashed = "no",
         NEW touches \in [TouchIds -> Contact], ~Clash(touches), SetTouches(touches)
  PROVE  Win8Follows'
<1>1. m_touches' = touches /\ manager' = manager /\ InjectTouchInput(touches)
  BY DEF SetTouches
<1>2. \A id \in Reported(touches) :
        /\ id \in TouchIds
        /\ m_touches[id] \in Contact /\ touches[id] \in Contact
        /\ system[Pointer(id)] = m_touches[id]
  BY HeldOfReported DEF Reported, TouchInv, TouchTypeOK
<1>3. \A id \in Reported(touches) :
        /\ system[Pointer(id)] \in LegalIn(QueuedReport(id, touches))
        /\ After(QueuedReport(id, touches)) = touches[id]
  BY <1>2, Win8Reports DEF QueuedReport, Reported
<1>4. Accepted(touches)
  BY <1>3 DEF Accepted
<1>5. ASSUME NEW p \in Pointers
      PROVE  system'[p] = Held(p)'
  <2>1. CASE Sharing(p, touches) = {}
    <3>1. system'[p] = system[p]
      BY <1>1, <1>4, <2>1 DEF InjectTouchInput
    <3>2. \A id \in TouchIds : Pointer(id) = p => m_touches[id] = "none" /\ touches[id] = "none"
      BY <2>1 DEF Sharing, Reported
    <3>3. system[p] = "none"
      BY <3>2 DEF TouchInv, SystemFollows, Win8Follows, Held
    <3> QED
      BY <1>1, <3>1, <3>2, <3>3 DEF Held, Pointer
  <2>2. CASE Sharing(p, touches) # {}
    <3>1. PICK id \in Sharing(p, touches) : id = CHOOSE i \in Sharing(p, touches) : TRUE
      BY <2>2
    <3>2. id \in Reported(touches) /\ id \in TouchIds /\ Pointer(id) = p
      BY DEF Sharing, Reported
    <3>3. system'[p] = touches[id]
      BY <1>1, <1>3, <1>4, <2>2, <3>1, <3>2 DEF InjectTouchInput
    <3>4. ASSUME NEW other \in TouchIds, Pointer(other) = p, touches[other] # "none"
          PROVE  other = id
      BY <3>2, <3>4 DEF Clash, Reported
    <3> QED
      BY <1>1, <3>2, <3>3, <3>4 DEF Held, Pointer
  <2> QED
    BY <2>1, <2>2
<1> QED
  BY <1>5 DEF Win8Follows

(* The Windows 7 driver has been told of every contact.                    *)
LEMMA Win7DriverStep ==
  ASSUME TouchInv, manager = "Win7Driver", clashed = "no",
         NEW touches \in [TouchIds -> Contact], ~Clash(touches), SetTouches(touches)
  PROVE  Win7DriverFollows'
<1>1. m_touches' = touches /\ manager' = manager /\ SendReports(touches)
  BY DEF SetTouches
<1>2. SUFFICES ASSUME NEW id \in TouchIds, touches[id] = "contact"
               PROVE  system'[Pointer(id)] = "contact"
  BY <1>1 DEF Win7DriverFollows, Pointer
<1>3. Sharing(Pointer(id), touches) = {id}
  BY <1>2 DEF Sharing, Clash, Reported
<1>4. LastSent(Pointer(id), touches) = id
  <2>1. {i \in Sharing(Pointer(id), touches) : touches[i] # "none"} = {id}
    BY <1>2, <1>3
  <2>2. LastSent(Pointer(id), touches) = CHOOSE i \in {id} : \A other \in {id} : other <= i
    BY <2>1 DEF LastSent
  <2>3. id <= id
    BY TouchAssumption
  <2> QED
    BY <2>2, <2>3
<1>5. Pointer(id) \in Pointers
  BY PointerType
<1> QED
  BY <1>1, <1>2, <1>3, <1>4, <1>5 DEF SendReports, TipSwitch

(* The window of the other Windows 7 manager holds no removed point, and   *)
(* none at all once it has lost the capture.                               *)
LEMMA Win7WindowStep ==
  ASSUME TouchInv, manager = "Win7Undocumented",
         NEW touches \in [TouchIds -> Contact], SetTouches(touches)
  PROVE  Win7WindowFollows' /\ CaptureInv'
<1>1. m_touches' = touches /\ manager' = manager /\ SendToWindow(touches)
  BY DEF SetTouches
<1>2. \A id \in TouchIds : m_touches[id] = "none" => system[id] = "none"
  BY DEF TouchInv, SystemFollows, Win7WindowFollows
<1>3. capture # "touch" => \A id \in TouchIds : system[id] = "none"
  BY DEF TouchInv, CaptureInv
<1>4. SUFFICES /\ \A id \in TouchIds : touches[id] = "none" => system'[id] = "none"
               /\ capture' # "touch" => \A id \in TouchIds : system'[id] = "none"
  BY <1>1 DEF Win7WindowFollows, CaptureInv
<1>5. \A id \in TouchIds : id \in Pointers
  BY PointerType
<1>6. CASE capture = "touch"
  <2>1. Send(touches, TouchIds) /\ capture' = IF touches = NoTouches THEN "nullptr" ELSE capture
    BY <1>1, <1>6 DEF SendToWindow
  <2>2. ASSUME NEW id \in TouchIds, touches[id] = "none"
        PROVE  system'[id] = "none"
    <3>1. CASE m_touches[id] = "none"
      BY <1>2, <1>5, <2>1, <2>2, <3>1 DEF Send, Reported
    <3>2. CASE m_touches[id] # "none"
      <4>1. Win7Report(m_touches[id], touches[id]) = "none"
        BY <2>2, <3>2 DEF Win7Report
      <4> QED
        BY <1>5, <2>1, <2>2, <3>2, <4>1 DEF Send, Reported
    <3> QED
      BY <3>1, <3>2
  <2> QED
    BY <1>6, <2>1, <2>2 DEF NoTouches
<1>7. CASE capture = "other"
  BY <1>1, <1>3, <1>7 DEF SendToWindow
<1>8. CASE capture = "nullptr"
  <2>1. CASE UNCHANGED system
    BY <1>3, <1>8, <2>1
  <2>2. CASE \E first \in TouchIds :
               /\ Send(touches, {id \in TouchIds : id >= first /\ touches[id] # "none"})
               /\ capture' = "touch"
    BY <1>3, <1>5, <1>8, <2>2 DEF Send
  <2> QED
    BY <1>1, <1>8, <2>1, <2>2 DEF SendToWindow
<1> QED
  BY <1>6, <1>7, <1>8 DEF TouchInv, TouchTypeOK

(* The types survive a call: whatever is reported is a contact.            *)
LEMMA SetTouchesType ==
  ASSUME TouchTypeOK, manager \in Manager,
         NEW touches \in [TouchIds -> Contact], SetTouches(touches)
  PROVE  TouchTypeOK'
<1>1. m_touches' = touches /\ manager' = manager /\ clashed' \in {"no", "yes"}
  BY DEF SetTouches, TouchTypeOK
<1>2. \A report : After(report) \in Contact
  BY DEF After, Contact
<1>3. \A old, new : TipSwitch(old, new) \in Contact
  BY DEF TipSwitch, Contact
<1>4. \A old, new \in Contact : Win7Report(old, new) \in Contact \cup {"moved"}
  <2> SUFFICES ASSUME NEW old \in Contact, NEW new \in Contact
               PROVE  Win7Report(old, new) \in Contact \cup {"moved"}
    OBVIOUS
  <2>1. CASE old = "none"
    BY <2>1 DEF Win7Report, Contact
  <2>2. CASE old # "none"
    BY <2>2 DEF Win7Report, Contact
  <2> QED
    BY <2>1, <2>2
<1>5. CASE manager = "Win8"
  BY <1>1, <1>2, <1>5 DEF SetTouches, InjectTouchInput, TouchTypeOK
<1>6. CASE manager = "Win7Driver"
  BY <1>1, <1>3, <1>6 DEF SetTouches, SendReports, TouchTypeOK
<1>7. CASE manager = "Win7Undocumented"
  <2>1. ASSUME NEW seen, Send(touches, seen)
        PROVE  system' \in [Pointers -> Contact]
    BY <1>4, <2>1 DEF Send, Reported, TouchTypeOK
  <2>2. SendToWindow(touches)
    BY <1>7 DEF SetTouches
  <2>3. system' \in [Pointers -> Contact]
    BY <2>1, <2>2 DEF SendToWindow, TouchTypeOK
  <2>4. capture' \in {"nullptr", "touch", "other"}
    BY <2>2 DEF SendToWindow, TouchTypeOK
  <2> QED
    BY <1>1, <2>3, <2>4 DEF TouchTypeOK
<1> QED
  BY <1>5, <1>6, <1>7 DEF Manager

(* A call of setTouches keeps the invariant of the touch manager.          *)
LEMMA SetTouchesInv ==
  ASSUME TouchInv, manager \in Manager,
         NEW touches \in [TouchIds -> Contact], SetTouches(touches)
  PROVE  TouchInv' /\ m_touches' = touches /\ manager' = manager
<1>1. m_touches' = touches /\ manager' = manager
  BY DEF SetTouches
<1>2. TouchTypeOK'
  BY SetTouchesType DEF TouchInv
<1>3. ASSUME clashed' = "no", manager # "Win7Undocumented"
      PROVE  clashed = "no" /\ ~Clash(touches)
  BY <1>3 DEF SetTouches
<1>4. Distinct'
  <2> SUFFICES ASSUME manager \in {"Win8", "Win7Driver"}, clashed' = "no",
                      NEW a \in TouchIds, NEW b \in TouchIds,
                      touches[a] # "none", touches[b] # "none", a # b
               PROVE  Pointer(a) # Pointer(b)
    BY <1>1 DEF Distinct, Pointer
  <2> QED
    BY <1>3 DEF Clash, Reported
<1>5. Win8Follows'
  BY <1>1, <1>3, Win8Step DEF Win8Follows
<1>6. Win7DriverFollows'
  BY <1>1, <1>3, Win7DriverStep DEF Win7DriverFollows
<1>7. Win7WindowFollows' /\ CaptureInv'
  BY <1>1, Win7WindowStep DEF Win7WindowFollows, CaptureInv
<1> QED
  BY <1>1, <1>2, <1>4, <1>5, <1>6, <1>7 DEF TouchInv, SystemFollows

(* Cancelling keeps the invariant.                                         *)
LEMMA CancelInv ==
  ASSUME TouchInv, manager \in Manager, ClearTouches
  PROVE  TouchInv'
<1>1. NoTouches \in [TouchIds -> Contact]
  BY DEF NoTouches, Contact
<1>2. CASE UNCHANGED touchVars
  BY <1>2 DEF touchVars, TouchInv, TouchTypeOK, SystemFollows, Win8Follows, Held,
              Win7DriverFollows, Win7WindowFollows, Distinct, CaptureInv, Pointer
<1>3. CASE SetTouches(NoTouches)
  BY <1>1, <1>3, SetTouchesInv
<1> QED
  BY <1>2, <1>3 DEF ClearTouches

(* The charms a loop over a frame's pointables can leave.                  *)
LEMMA LoopModesType ==
  ASSUME NEW frame \in Frames, NEW mode \in -1..3
  PROVE  LoopModes(frame, mode) \subseteq -1..3
<1>1. \A place : EdgeCharm(place) \in 0..3
  BY DEF EdgeCharm
<1>2. \A place, number : ApplyCharms(place, number, mode) \in -1..3
  BY <1>1 DEF ApplyCharms
<1>3. \A seen, number : PointableMode(seen, number, mode) \in -1..3
  BY <1>2 DEF PointableMode
<1> QED
  BY <1>3 DEF LoopModes

(* What a frame emits is a contact for every id.                           *)
LEMMA EventType == \A frame \in Frames : TouchEvent(frame) \in [TouchIds -> Contact]
<1>1. ASSUME NEW frame \in Frames, NEW id \in TouchIds
      PROVE  TouchPoint(frame[id]) \in Contact
  BY <1>1 DEF TouchPoint, Frames, Seen, Unseen, Zones, Contact
<1> QED
  BY <1>1 DEF TouchEvent

(* A frame's loop ends in mode 0 only by a pointable that hovers inside, or *)
(* when it was 0 before and none in the loop touches.                       *)
LEMMA ModeZero ==
  ASSUME NEW frame \in Frames, NEW mode \in -1..3, 0 \in LoopModes(frame, mode), ~Visits(frame)
  PROVE  mode = 0 /\ ~Touches(frame)
<1> DEFINE number == Cardinality(Visible(frame))
           decisive == {id \in Loop(frame) :
                          \/ frame[id].zone = "contact"
                          \/ frame[id].place = "inside"
                          \/ ApplyCharms(frame[id].place, number, mode) # mode}
<1>1. ASSUME NEW id \in decisive
      PROVE  PointableMode(frame[id], number, mode) # 0
  <2>1. id \in TouchIds /\ frame[id].zone \in {"hover", "contact"}
    BY DEF Loop, Visible, Frames, Seen, Unseen, Zones
  <2>2. CASE frame[id].zone = "contact"
    BY <2>2 DEF PointableMode
  <2>3. CASE frame[id].zone = "hover"
    <3>1. frame[id].place # "inside"
      BY <2>1, <2>3 DEF Visits, Inside
    <3>2. ApplyCharms(frame[id].place, number, mode) # mode
      BY <2>3, <3>1
    <3> QED
      BY <2>3, <3>1, <3>2 DEF PointableMode, ApplyCharms
  <2> QED
    BY <2>1, <2>2, <2>3
<1>2. LoopModes(frame, mode) = IF decisive = {} THEN {mode}
                               ELSE {PointableMode(frame[id], number, mode) : id \in decisive}
  BY DEF LoopModes
<1>3. decisive = {} /\ mode = 0
  BY <1>1, <1>2
<1> QED
  BY <1>3 DEF Touches

(* A bar opens for a lone pointable that hovers: none is in contact.        *)
LEMMA LoneCharm ==
  ASSUME NEW frame \in Frames, NEW mode \in LoopModes(frame, 0), mode > 0
  PROVE  \A id \in TouchIds : TouchPoint(frame[id]) # "contact"
<1> DEFINE number == Cardinality(Visible(frame))
<1>1. PICK id \in Visible(frame) : mode = PointableMode(frame[id], number, 0)
  BY DEF LoopModes, Loop
<1>2. frame[id].zone # "contact" /\ mode = ApplyCharms(frame[id].place, number, 0)
  BY <1>1 DEF PointableMode
<1>3. number = 1
  BY <1>2 DEF ApplyCharms
<1>4. IsFiniteSet(Visible(frame))
  BY PeripheralAssumption, FS_Subset DEF Visible
<1>5. Visible(frame) = {id}
  BY <1>1, <1>3, <1>4, FS_Singleton
<1>6. ASSUME NEW other \in TouchIds
      PROVE  TouchPoint(frame[other]) # "contact"
  BY <1>2, <1>5 DEF Visible, Unseen, TouchPoint
<1> QED
  BY <1>6

(* The driver starts without touches, whatever manager there is.           *)
LEMMA InitIInv == Init => IInv
<1> SUFFICES ASSUME Init
             PROVE  IInv
  OBVIOUS
<1>1. \A supported : New(supported) \in Manager \cup {"nullptr"}
  BY DEF New, Manager
<1>2. TypeOK
  BY <1>1 DEF Init, TouchInit, TypeOK, TouchTypeOK, NoTouches, Contact
<1>3. TouchInv
  BY <1>2 DEF Init, TouchInit, NoTouches, TypeOK, TouchInv, SystemFollows, Win8Follows,
              Held, Win7DriverFollows, Win7WindowFollows, Distinct, CaptureInv, Pointers
<1>4. IconsFollow /\ VisitInv
  BY DEF Init, IconsFollow, VisitInv
<1> QED
  BY <1>2, <1>3, <1>4 DEF IInv

(* Drawing any number of icons leaves that many visible.                   *)
LEMMA DrawIconsInv ==
  ASSUME NEW n \in Nat, lastNumIcons \in Nat, icons \subseteq Nat, IconsFollow,
         DrawIcons(n), replaced' = replaced
  PROVE  lastNumIcons' \in Nat /\ icons' \subseteq Nat /\ IconsFollow'
<1>1. lastNumIcons' = n /\ icons' = (icons \cup 0..(n - 1)) \ n..(lastNumIcons - 1)
  BY DEF DrawIcons, Drawn, Hidden
<1>2. 0..(n - 1) \subseteq Nat
  OBVIOUS
<1>3. CASE replaced = "no"
  <2>1. icons = 0..(lastNumIcons - 1)
    BY <1>3 DEF IconsFollow
  <2>2. icons' = 0..(n - 1)
    BY <1>1, <2>1
  <2> QED
    BY <1>1, <1>2, <2>2 DEF IconsFollow
<1>4. CASE replaced # "no"
  BY <1>1, <1>2, <1>4 DEF IconsFollow
<1> QED
  BY <1>3, <1>4

(* A frame draws a number of icons.                                        *)
LEMMA LoopNumber == \A frame \in Frames : Cardinality(Loop(frame)) \in Nat
BY PeripheralAssumption, FS_Subset, FS_CardinalityType DEF Loop, Visible

(* A frame keeps the invariant.                                            *)
LEMMA FrameIInv == IInv /\ ProcessFrame => IInv'
<1> SUFFICES ASSUME IInv, ProcessFrame
             PROVE  IInv'
  OBVIOUS
<1>1. /\ TouchInv /\ manager \in Manager /\ charmsMode \in -1..3 /\ IconsFollow
      /\ lastNumIcons \in Nat /\ icons \subseteq Nat /\ replaced \in {"no", "yes"}
  BY DEF IInv, TypeOK, TouchTypeOK, ProcessFrame
<1>2. PICK frame \in Frames : Process(frame)
  BY DEF ProcessFrame
<1>3. TouchInv'
  BY <1>1, <1>2, SetTouchesInv, EventType DEF Process
<1>4. charmsMode' \in -1..3
  <2> DEFINE start == IF Visible(frame) = {} THEN -1 ELSE charmsMode
  <2>1. start \in -1..3
    BY <1>1
  <2>2. LoopModes(frame, start) \subseteq -1..3
    BY <2>1, LoopModesType
  <2> QED
    BY <1>2, <2>1, <2>2 DEF Process
<1>5. charm' \in 0..3
  BY <1>2, <1>4 DEF Process
<1>6. replaced' = replaced
  BY <1>2 DEF Process
<1>7. lastNumIcons' \in Nat /\ icons' \subseteq Nat /\ IconsFollow'
  BY <1>1, <1>2, <1>6, LoopNumber, DrawIconsInv DEF Process
<1>8. visit' \in {"no", "yes"} /\ VisitInv'
  <2> DEFINE start == IF Visible(frame) = {} THEN -1 ELSE charmsMode
  <2>1. /\ manager' = manager /\ Visit(frame) /\ visit \in {"no", "yes"} /\ start \in -1..3
        /\ charmsMode = 0 => visit = "yes" /\ manager = "Win8"
    BY <1>1, <1>2 DEF Process, SetTouches, IInv, VisitInv, TypeOK
  <2>2. ASSUME charmsMode' = 0
        PROVE  visit' = "yes" /\ manager = "Win8"
    <3>1. charm' = 0
      BY <1>2, <2>2 DEF Process
    <3>2. manager = "Win8" /\ 0 \in LoopModes(frame, start)
      BY <1>2, <2>1, <2>2 DEF Process
    <3>3. CASE Visits(frame)
      BY <2>1, <3>1, <3>2, <3>3 DEF Visit
    <3>4. CASE ~Visits(frame)
      <4>1. start = 0 /\ ~Touches(frame)
        BY <2>1, <3>2, <3>4, ModeZero
      <4> QED
        BY <2>1, <3>1, <3>2, <3>4, <4>1 DEF Visit
    <3> QED
      BY <3>3, <3>4
  <2>3. visit' \in {"no", "yes"}
    BY <2>1 DEF Visit
  <2> QED
    BY <2>1, <2>2, <2>3 DEF VisitInv
<1> QED
  BY <1>1, <1>3, <1>4, <1>5, <1>6, <1>7, <1>8 DEF IInv, TypeOK, TouchInv

(* Every step keeps the invariant.                                         *)
LEMMA NextIInv == IInv /\ [Next]_vars => IInv'
<1> SUFFICES ASSUME IInv, [Next]_vars
             PROVE  IInv'
  OBVIOUS
<1>1. /\ TypeOK /\ TouchInv /\ IconsFollow /\ VisitInv /\ manager \in Manager \cup {"nullptr"}
      /\ charmsMode \in -1..3 /\ lastNumIcons \in Nat /\ icons \subseteq Nat
      /\ replaced \in {"no", "yes"} /\ visit \in {"no", "yes"}
  BY DEF IInv, TypeOK, TouchTypeOK
<1>2. CASE ProcessFrame
  BY <1>2, FrameIInv
<1>3. CASE Cancel
  <2>1. TouchInv'
    BY <1>1, <1>3, CancelInv DEF Cancel
  <2>2. manager' = manager
    BY <1>3 DEF Cancel, ClearTouches, SetTouches, touchVars
  <2> QED
    BY <1>1, <1>3, <2>1, <2>2 DEF Cancel, IInv, TypeOK, TouchInv, IconsFollow, VisitInv
<1>4. CASE Replace
  <2>1. TouchInv'
    BY <1>1, <1>4, CancelInv DEF Replace
  <2>2. CASE icons = {}
    <3>1. icons' = 0..(lastNumIcons' - 1)
      BY <1>4, <2>2 DEF Replace
    <3> QED
      BY <1>1, <1>4, <2>1, <2>2, <3>1 DEF Replace, IInv, TypeOK, TouchInv, IconsFollow, VisitInv
  <2>3. CASE icons # {}
    BY <1>1, <1>4, <2>1, <2>3 DEF Replace, IInv, TypeOK, TouchInv, IconsFollow, VisitInv
  <2> QED
    BY <2>2, <2>3
<1>5. CASE UNCHANGED vars
  BY <1>1, <1>5 DEF vars, modeVars, touchVars, IInv, IconsFollow, VisitInv, TypeOK, TouchInv, TouchTypeOK, SystemFollows,
                    Win8Follows, Held, Win7DriverFollows, Win7WindowFollows, Distinct,
                    CaptureInv, Pointer
<1> QED
  BY <1>2, <1>3, <1>4, <1>5 DEF Next

(* The invariant holds throughout.                                         *)
THEOREM Invariance == Spec => []IInv
BY InitIInv, NextIInv, PTL DEF Spec

(* The state keeps its types under frames and cancellations.               *)
THEOREM TypeCorrect == Spec => []TypeOK
<1>1. IInv => TypeOK
  BY DEF IInv
<1> QED
  BY <1>1, Invariance, PTL

(* setTouches and the reports of the managers keep the system's contacts    *)
(* in step with the touches of the last frame.                              *)
THEOREM InjectionFollows == Spec => []SystemFollows
<1>1. IInv => SystemFollows
  BY DEF IInv, TouchInv
<1> QED
  BY <1>1, Invariance, PTL

(* Until a mode with icons is replaced, exactly the icons that the last     *)
(* frame drew are visible, for any number of pointables.                    *)
THEOREM OverlayFollows == Spec => []IconsFollow
<1>1. IInv => IconsFollow
  BY DEF IInv
<1> QED
  BY <1>1, Invariance, PTL

(* applyCharms only acts for a single pointable that hovers, and only from *)
(* charms mode 0, which each bar, each touch and each empty view takes away *)
(* until a pointable hovers inside the screen again.                        *)
THEOREM CharmsAreUntouched == Spec => CharmsUntouched
<1>1. ASSUME IInv, [Next]_vars, ~UNCHANGED vars, charm' # 0
      PROVE  visit = "yes" /\ \A id \in TouchIds : m_touches'[id] # "contact"
  <2>1. ProcessFrame
    BY <1>1 DEF Next, Cancel, Replace
  <2>2. PICK frame \in Frames : Process(frame)
    BY <2>1 DEF ProcessFrame
  <2>3. charmsMode = 0 /\ charmsMode' > 0 /\ manager = "Win8"
    BY <1>1, <2>2 DEF Process, IInv, VisitInv
  <2>4. charmsMode' \in LoopModes(frame, 0) /\ m_touches' = TouchEvent(frame)
    BY <1>1, <2>2, <2>3 DEF Process, SetTouches
  <2>5. \A id \in TouchIds : TouchPoint(frame[id]) # "contact"
    BY <2>3, <2>4, LoneCharm
  <2> QED
    BY <1>1, <2>3, <2>4, <2>5 DEF TouchEvent, IInv, VisitInv
<1> QED
  BY <1>1, Invariance, PTL DEF Spec, CharmsUntouched
=============================================================================
