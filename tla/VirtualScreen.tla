----------------------------- MODULE VirtualScreen -----------------------------
(***************************************************************************)
(* LPVirtualScreen (Utility/LPVirtualScreen.cpp): the displays that have    *)
(* been detected, and those in use, which are all of them or, when there    *)
(* are several and the default one is asked for, only the primary one.      *)
(*                                                                          *)
(* The object has no mutex.  UseDefaultScreen is called on the thread of    *)
(* the tracking library and on that of the user interface, which also       *)
(* hears of displays that come and go, so that an update is two steps: it   *)
(* looks at the flag and the displays, and stores what it has made of them. *)
(* (Two threads that assign one vector at once are undefined; here the      *)
(* last one wins.)  Lists of screens are known by their length.             *)
(***************************************************************************)
EXTENDS Integers, Sequences

CONSTANTS
  Displays,   \* the numbers of displays that may be attached
  Counting    \* how a touch driver may count screens: a subset of Count

Count == {"active", "one", "none"}

ASSUME ScreenAssumption ==
  /\ Displays \subseteq Nat \ {0}
  /\ Counting \subseteq Count

VARIABLES
  displays,      \* how many displays are attached to the system
  detected,      \* m_detectedScreens.size()
  active,        \* m_activeScreens.size()
  useDefault,    \* m_useDefaultScreen: "yes" or "no"
  update,        \* what each thread is doing to them
  raced,         \* "yes" once two threads were at it together: read by properties only
  counting       \* how the touch driver counts, on this system

screenVars == <<displays, detected, active, useDefault, update, raced, counting>>

User   == {"leap", "ui"}
Idle   == [step |-> "none", default |-> "yes", seen |-> 0, use |-> 0]
Update ==
  {Idle} \cup [step : {"set"}, default : {"yes", "no"}, seen : {0}, use : {0}]
         \cup [step : {"store"}, default : {"yes", "no"},
               seen : Displays, use : Displays \cup {1}]

ScreenTypeOK ==
  /\ displays \in Displays /\ detected \in Displays /\ active \in Displays \cup {1}
  /\ useDefault \in {"yes", "no"} /\ raced \in {"yes", "no"}
  /\ update \in [User -> Update]
  /\ counting \in Counting

(* The screens of d displays that are in use.                               *)
InUse(d, default) == IF default = "yes" /\ d > 1 THEN 1 ELSE d

(* The object has looked at the displays, and its owner has then asked for  *)
(* the default screen.                                                      *)
ScreenInit ==
  /\ displays \in Displays /\ counting \in Counting
  /\ detected = displays /\ useDefault = "yes"
  /\ active = InUse(displays, "yes")
  /\ update = [t \in User |-> Idle]
  /\ raced = "no"

(* numTouchScreens(): a touch manager counts the screens in use, the        *)
(* undocumented one for Windows 7 always says one, and without a manager    *)
(* there are none.                                                          *)
NumTouchScreens ==
  CASE counting = "active" -> active
    [] counting = "one"    -> 1
    [] counting = "none"   -> 0

(* Thread t is about to call UseDefaultScreen(default).                     *)
CallUseDefaultScreen(t, default) ==
  /\ update' = [update EXCEPT ![t] = [Idle EXCEPT !.step = "set", !.default = default]]
  /\ raced' = IF \E u \in User \ {t} : update[u].step # "none" THEN "yes" ELSE raced
  /\ UNCHANGED <<displays, detected, active, useDefault, counting>>

(* Slip: the flag is set, and the screens are left as they are.             *)
MutUseDefaultScreen(t) ==
  /\ update[t].step = "set"
  /\ useDefault' = update[t].default
  /\ update' = [update EXCEPT ![t] = Idle]
  /\ UNCHANGED <<displays, detected, active, raced, counting>>

(* Nothing is done when the flag is what it should be.  Otherwise it is set *)
(* and the displays are enumerated.                                         *)
UseDefaultScreen(t) ==
  /\ update[t].step = "set"
  /\ LET to == update[t].default
     IN  /\ useDefault' = to
         /\ update' = [update EXCEPT ![t] =
              IF useDefault = to THEN Idle
              ELSE [step |-> "store", default |-> to,
                    seen |-> displays, use |-> InUse(displays, to)]]
  /\ UNCHANGED <<displays, detected, active, raced, counting>>

(* The displays of the system change, and the user interface is told.       *)
ChangeDisplays(t) ==
  /\ displays' \in Displays \ {displays}
  /\ update' = [update EXCEPT ![t] =
       [step |-> "store", default |-> useDefault,
        seen |-> displays', use |-> InUse(displays', useDefault)]]
  /\ raced' = IF \E u \in User \ {t} : update[u].step # "none" THEN "yes" ELSE raced
  /\ UNCHANGED <<detected, active, useDefault, counting>>

(* The lists of screens are replaced.                                       *)
StoreScreens(t) ==
  /\ update[t].step = "store"
  /\ detected' = update[t].seen
  /\ active' = update[t].use
  /\ update' = [update EXCEPT ![t] = Idle]
  /\ UNCHANGED <<displays, useDefault, raced, counting>>

ScreenStep(t) == UseDefaultScreen(t) \/ StoreScreens(t)

(* No update is in progress on thread t.                                    *)
ScreensDone(t) == update[t].step = "none"
===============================================================================
