------------------------ MODULE TouchlessListenerProofs ------------------------
(***************************************************************************)
(* Proofs about the listener and the tray menu, for every set of modes,     *)
(* every number of displays and every bound on the queued signals.          *)
(*                                                                          *)
(* What the menu shows is decided by the last signal that is on its way to  *)
(* it.  The invariant therefore says, of the mode, of the monitors and of   *)
(* the connection: the menu has the listener's value, or the last signal    *)
(* has it, or the callback that is about to emit will send it.              *)
(***************************************************************************)
EXTENDS TouchlessListener, TLAPS

Connecting == {"connectLock", "connectWait", "connectEmit"}
Emitting   == Connecting \cup {"disconnectEmit"}

Last == queue[Len(queue)]

(* The application is ready before anything but onConnect goes on, unless a *)
(* wait has ended by itself.                                                *)
Handshake ==
  /\ ready = "yes" <=> uiPc \notin {"start", "connect", "setReady"}
  /\ leapPc = "connectWait" => ready = "no"
  /\ device = "connected" /\ leapPc \notin {"connectLock", "connectWait"} =>
       ready = "yes" \/ woken = "yes"
  /\ leapPc \in Connecting => device = "connected"
  /\ leapPc = "disconnectEmit" => device = "absent" /\ (ready = "yes" \/ woken = "yes")

(* The menu has heard nothing before it is connected to the listener, and   *)
(* is not enabled before it has heard something.                            *)
Unheard ==
  /\ uiPc \in {"start", "connect"} => queue = <<>> /\ menu.mode = "none"
  /\ menu.mode = "none" => menu.enabled = "no"

(* connectChangedSlot is between its two halves.                            *)
SlotHalfway ==
  /\ uiSlot.running = "yes" => uiPc \in {"modeFlag", "modeDelete", "modeNew", "slotMulti"}
  /\ uiPc = "slotMulti" => uiSlot.running = "yes"

(* A callback begins only when there is room for the signal it will emit.   *)
QueueHasRoom == leapPc \in Emitting => Len(queue) < MaxQueue

DeviceOnItsWay ==
  leapPc \notin Emitting /\ woken = "no" =>
    \/ queue = <<>> /\ (menu.enabled = "yes" <=> device = "connected")
    \/ queue # <<>> /\ (Last.connected = "yes" <=> device = "connected")

ModeOnItsWay ==
  \/ menu.mode \in {"none", desired}
  \/ leapPc \in Connecting /\ leapMode = desired
  \/ leapPc \notin Connecting /\ queue # <<>> /\ Last.mode = desired

MultiOnItsWay ==
  \/ menu.multi = multi
  \/ menu.mode = "none" /\ queue = <<>>
  \/ leapPc \in Connecting
  \/ queue # <<>> /\ Last.multi = multi
  \/ queue = <<>> /\ uiSlot.running = "yes" /\ uiSlot.multi = multi

(* Only the configuration file can move the desired mode away from the      *)
(* checked one, and the manager away from it as well.                       *)
FileDecides ==
  menu.mode # "none" =>
    /\ menu.mode # desired => config.mode = desired
    /\ uiPc \notin {"modeFlag", "modeDelete", "modeNew"} => manager \in {menu.mode, desired}

(* A choice that is not marked as unsaved yet.                              *)
Unmarked == uiPc \in {"modeFlag", "multiFlag"}

SavedOrMarked ==
  menu.mode # "none" /\ ~Unmarked /\ missed = "no"
    /\ (updateSettings = "no" \/ leapPc = "saved") => config = Chosen

(* Two threads that update the screens at once are remembered.  Alone, a    *)
(* thread leaves the lists as the flag says.                                *)
Alone == \E t \in User : update[t].step = "none"

Places ==
  /\ update["leap"].step # "none" => leapPc = "focus"
  /\ update["ui"].step # "none" => uiPc = "screens"

ListsFollow ==
  raced = "no" =>
    /\ Alone
    /\ \A t \in User : update[t].step = "store" =>
         update[t].seen = displays /\ update[t].use = InUse(displays, useDefault)
    /\ (\A t \in User : update[t].step # "store") =>
         detected = displays /\ active = InUse(displays, useDefault)

(* The user interface has told the screens of the checked item.             *)
Told == uiPc \notin {"multiFlag", "multiCall"} /\ update["ui"].step # "set"

DefaultFor(m) == IF m = "yes" THEN "no" ELSE "yes"

FlagFollows ==
  /\ menu.multi # multi => config.multi = multi
  /\ counting = "none" /\ raced = "no" =>
       LET Wanted == {DefaultFor(menu.multi), DefaultFor(multi)}
       IN  /\ update["ui"].step = "set" => update["ui"].default \in Wanted
           /\ Told => useDefault \in Wanted
           /\ Told /\ update["leap"].step = "set" => update["leap"].default \in Wanted

(* A touch driver never counts more than the default screen, which is       *)
(* therefore the only one that is asked for.                                *)
CountedIsDefault ==
  counting # "none" =>
    /\ useDefault = "yes" /\ active = 1
    /\ \A t \in User : /\ update[t].default = "yes"
                       /\ update[t].step = "store" => update[t].use = 1

IInv ==
  /\ TypeOK
  /\ QueueHasRoom
  /\ Handshake
  /\ Unheard
  /\ SlotHalfway
  /\ DeviceOnItsWay
  /\ ModeOnItsWay
  /\ MultiOnItsWay
  /\ FileDecides
  /\ SavedOrMarked
  /\ Places
  /\ ListsFollow
  /\ FlagFollows
  /\ CountedIsDefault
-------------------------------------------------------------------------------
(* Steps.                                                                   *)

(* What changes the screens.                                                *)
ScreenAction == FocusGained \/ FocusScreens \/ MultiCall \/ DisplaysChange \/ Screens

(* An update of the screens leaves the settings, the menu and its signals   *)
(* alone, and moves the threads between a few places only.                  *)
LEMMA ScreensApart ==
  ASSUME ScreenAction
  PROVE  /\ UNCHANGED <<listenerVars, fileVars, device, leapMode, woken, uiSlot, queue, menu>>
         /\ leapPc' = leapPc \/ (leapPc \in {"idle", "focus"} /\ leapPc' \in {"idle", "focus"})
         /\ \/ uiPc' = uiPc
            \/ uiPc \in {"loop", "multiCall", "screens"} /\ uiPc' \in {"loop", "screens"}
  BY DEF ScreenAction, FocusGained, Callback, FocusScreens, MultiCall, DisplaysChange,
         Screens, listenerVars, fileVars, uiVars, leapVars

(* Nothing else changes them.                                               *)
LEMMA ScreensStay ==
  ASSUME [Next]_vars, ~ScreenAction
  PROVE  UNCHANGED screenVars
  BY DEF Connect, ConnectLock, SpuriousWake, ConnectEmit, Disconnect, DisconnectEmit, Frame,
          FrameSaved, FrameProcess, FrameProcessed, MakeController,
          ConnectSignals, SetReady, ConnectChangedSlot, SlotMulti, PickMode,
          PickMulti, ModeFlag, ModeDelete, ModeNew, MultiFlag, ScreenAction,
          Next, LeapStep, UIStep, listenerVars, fileVars, screenVars,
          leapVars, uiVars, vars

(* Signals join the queue at its end and leave it at its head.              *)
LEMMA QueueGrows ==
  ASSUME NEW q \in Seq(Signal), NEW m \in Signal
  PROVE  /\ Append(q, m) \in Seq(Signal) /\ Append(q, m) # <<>>
         /\ Len(Append(q, m)) = Len(q) + 1 /\ Len(q) \in Nat
         /\ Append(q, m)[Len(Append(q, m))] = m
  OBVIOUS

(* What is left of the menu's signals when it takes the first.              *)
LEMMA QueueShrinks ==
  ASSUME NEW q \in Seq(Signal), q # <<>>
  PROVE  /\ Head(q) \in Signal /\ Tail(q) \in Seq(Signal)
         /\ Len(q) \in Nat /\ Len(Tail(q)) = Len(q) - 1
         /\ Tail(q) = <<>> => q[Len(q)] = Head(q)
         /\ Tail(q) # <<>> => q[Len(q)] = Tail(q)[Len(Tail(q))]
<1>1. Len(q) \in Nat /\ Len(q) # 0 /\ Head(q) \in Signal
  OBVIOUS
<1>2. Tail(q) \in Seq(Signal) /\ Len(Tail(q)) = Len(q) - 1
  BY <1>1
<1>3. ASSUME Tail(q) = <<>> PROVE q[Len(q)] = Head(q)
  BY <1>1, <1>2, <1>3
<1>4. ASSUME Tail(q) # <<>> PROVE q[Len(q)] = Tail(q)[Len(Tail(q))]
  <2>1. Len(Tail(q)) \in 1..Len(Tail(q))
    BY <1>2, <1>4
  <2>. QED
    BY <1>1, <1>2, <2>1
<1>. QED
  BY <1>1, <1>2, <1>3, <1>4

(* Every step keeps the types of the listener and the menu, and the room.    *)
LEMMA ListenerTypeStep ==
  ASSUME ListenerTypeOK, QueueHasRoom, [Next]_vars
  PROVE  ListenerTypeOK' /\ QueueHasRoom'
<1>1. CASE ScreenAction
  BY ListenerAssumption, <1>1, ScreensApart
     DEF ListenerTypeOK, QueueHasRoom, Emitting, Connecting, YesNo, Signal,
          listenerVars, fileVars
<1>2. CASE ConnectLock \/ SpuriousWake \/ Disconnect \/ FrameSaved \/ FrameProcess
           \/ FrameProcessed \/ MakeController \/ ConnectSignals \/ SetReady
           \/ ModeFlag \/ ModeDelete \/ ModeNew \/ MultiFlag \/ UNCHANGED vars
  BY ListenerAssumption, <1>2
     DEF ConnectLock, SpuriousWake, Disconnect, FrameSaved, FrameProcess, FrameProcessed,
          MakeController, ConnectSignals, SetReady, ModeFlag, ModeDelete,
          ModeNew, MultiFlag, Callback, RaiseFlag, Chosen, ListenerTypeOK,
          QueueHasRoom, Emitting, Connecting, YesNo, Signal, listenerVars,
          fileVars, screenVars, leapVars, uiVars, vars
<1>3. CASE Connect
  BY ListenerAssumption, <1>3
     DEF Connect, Callback, ListenerTypeOK, QueueHasRoom, Emitting,
          Connecting, YesNo, Signal, listenerVars, fileVars, screenVars,
          leapVars, uiVars, vars
<1>4. CASE ConnectEmit
  <2> DEFINE s == [connected |-> "yes", mode |-> leapMode, multi |-> multi]
  <2>1. s \in Signal /\ Len(queue) < MaxQueue
    BY <1>4 DEF ConnectEmit, EmitConnectChanged, Signal, YesNo, Emitting, Connecting, ListenerTypeOK, QueueHasRoom
  <2>2. Append(queue, s) \in Seq(Signal) /\ Len(Append(queue, s)) = Len(queue) + 1
        /\ Len(queue) \in Nat
    BY <2>1, QueueGrows DEF ListenerTypeOK
  <2>3. queue' = queue \/ queue' = Append(queue, s)
    BY <1>4 DEF ConnectEmit, EmitConnectChanged
  <2>. QED
    BY <1>4, <2>1, <2>2, <2>3, ListenerAssumption
       DEF ConnectEmit, ListenerTypeOK, QueueHasRoom, Emitting, Connecting, listenerVars, fileVars,
           leapVars, uiVars
<1>5. CASE DisconnectEmit
  <2> DEFINE s == [connected |-> "no", mode |-> desired, multi |-> multi]
  <2>1. s \in Signal /\ Len(queue) < MaxQueue
    BY <1>5 DEF DisconnectEmit, EmitConnectChanged, Signal, YesNo, Emitting, Connecting, ListenerTypeOK, QueueHasRoom
  <2>2. Append(queue, s) \in Seq(Signal) /\ Len(Append(queue, s)) = Len(queue) + 1
        /\ Len(queue) \in Nat
    BY <2>1, QueueGrows DEF ListenerTypeOK
  <2>3. queue' = queue \/ queue' = Append(queue, s)
    BY <1>5 DEF DisconnectEmit, EmitConnectChanged
  <2>. QED
    BY <1>5, <2>1, <2>2, <2>3, ListenerAssumption
       DEF DisconnectEmit, ListenerTypeOK, QueueHasRoom, Emitting, Connecting, listenerVars, fileVars,
           leapVars, uiVars
<1>6. CASE Frame
  BY ListenerAssumption, <1>6
     DEF Frame, Callback, Chosen, ListenerTypeOK, QueueHasRoom, Emitting,
          Connecting, YesNo, Signal, listenerVars, fileVars, screenVars,
          leapVars, uiVars, vars
<1>7. CASE ConnectChangedSlot
  <2>1. queue # <<>>
    BY <1>7 DEF ConnectChangedSlot
  <2>2. Head(queue) \in Signal /\ Tail(queue) \in Seq(Signal) /\ Len(queue) \in Nat
        /\ Len(Tail(queue)) = Len(queue) - 1
    BY <2>1, QueueShrinks DEF ListenerTypeOK
  <2>3. Head(queue).connected \in YesNo /\ Head(queue).mode \in Mode /\ Head(queue).multi \in YesNo
    BY <2>2 DEF Signal
  <2>4. desired' \in Mode /\ uiPc' \in {"modeFlag", "slotMulti"}
    BY <1>7, <2>3 DEF ConnectChangedSlot, CheckMode, ListenerTypeOK
  <2>5. uiSlot' \in [running : YesNo, multi : YesNo]
    BY <1>7, <2>3 DEF ConnectChangedSlot, YesNo
  <2>6. menu' \in [enabled : YesNo, mode : Mode \cup {"none"}, multi : YesNo]
    BY <1>7, <2>3 DEF ConnectChangedSlot, ListenerTypeOK
  <2>7. queue' \in Seq(Signal) /\ Len(queue') <= MaxQueue
        /\ (Len(queue) < MaxQueue => Len(queue') < MaxQueue)
    BY <1>7, <2>2, ListenerAssumption DEF ConnectChangedSlot, ListenerTypeOK
  <2>. QED
    BY <1>7, <2>4, <2>5, <2>6, <2>7
       DEF ConnectChangedSlot, ListenerTypeOK, QueueHasRoom, fileVars, leapVars
<1>8. CASE SlotMulti
  BY ListenerAssumption, <1>8
     DEF SlotMulti, CheckMulti, ListenerTypeOK, QueueHasRoom, Emitting,
          Connecting, YesNo, Signal, listenerVars, fileVars, screenVars,
          leapVars, uiVars, vars
<1>9. CASE PickMode
  BY ListenerAssumption, <1>9
     DEF PickMode, CheckMode, ListenerTypeOK, QueueHasRoom, Emitting,
          Connecting, YesNo, Signal, listenerVars, fileVars, screenVars,
          leapVars, uiVars, vars
<1>10. CASE PickMulti
  BY ListenerAssumption, <1>10
     DEF PickMulti, CheckMulti, ListenerTypeOK, QueueHasRoom, Emitting,
          Connecting, YesNo, Signal, listenerVars, fileVars, screenVars,
          leapVars, uiVars, vars
<1>. QED
  BY <1>1, <1>2, <1>3, <1>4, <1>5, <1>6, <1>7, <1>8, <1>9, <1>10 DEF Next, LeapStep, UIStep, ScreenAction

(* Every update of the screens keeps their types.                           *)
LEMMA ScreenTypeStep ==
  ASSUME ScreenTypeOK, [Next]_vars
  PROVE  ScreenTypeOK'
<1>1. CASE ~ScreenAction
  BY <1>1, ScreensStay DEF ScreenTypeOK, screenVars
<1>2. ASSUME NEW t \in User, NEW d \in {"yes", "no"}, CallUseDefaultScreen(t, d)
      PROVE  ScreenTypeOK'
  BY <1>2, ScreenAssumption DEF CallUseDefaultScreen, ScreenTypeOK, Update, Idle, User
<1>3. ASSUME NEW t \in User, UseDefaultScreen(t) PROVE ScreenTypeOK'
  <2>1. update[t] \in Update /\ update[t].default \in {"yes", "no"}
    BY <1>3 DEF ScreenTypeOK, Update, Idle
  <2>2. InUse(displays, update[t].default) \in Displays \cup {1}
    BY DEF ScreenTypeOK, InUse
  <2>. QED
    BY <1>3, <2>1, <2>2 DEF UseDefaultScreen, ScreenTypeOK, Update, Idle, User
<1>4. ASSUME NEW t \in User, ChangeDisplays(t) PROVE ScreenTypeOK'
  <2>1. displays' \in Displays /\ InUse(displays', useDefault) \in Displays \cup {1}
    BY <1>4 DEF ChangeDisplays, InUse
  <2>. QED
    BY <1>4, <2>1 DEF ChangeDisplays, ScreenTypeOK, Update, User
<1>5. ASSUME NEW t \in User, StoreScreens(t) PROVE ScreenTypeOK'
  <2>1. update[t] \in Update
    BY DEF ScreenTypeOK
  <2>2. update[t].seen \in Displays /\ update[t].use \in Displays \cup {1}
    BY <1>5, <2>1 DEF StoreScreens, Update, Idle
  <2>. QED
    BY <1>5, <2>2 DEF StoreScreens, ScreenTypeOK, Update, Idle, User
<1>. QED
  BY <1>1, <1>2, <1>3, <1>4, <1>5
     DEF ScreenAction, FocusGained, FocusScreens, MultiCall, DisplaysChange, Screens,
         UpdateDefaultScreen, ScreenStep, User

(* What a callback sends is the last signal, as the menu is connected.      *)
LEMMA SentOnConnect ==
  ASSUME ListenerTypeOK, uiPc \notin {"start", "connect"}, ConnectEmit
  PROVE  /\ queue' # <<>> /\ Last'.multi = multi
         /\ Last'.connected = "yes" /\ Last'.mode = leapMode
<1> DEFINE s == [connected |-> "yes", mode |-> leapMode, multi |-> multi]
<1>2. queue' = Append(queue, s)
  BY DEF ConnectEmit, EmitConnectChanged
<1>3. s \in Signal /\ queue \in Seq(Signal)
  BY DEF ListenerTypeOK, Signal, YesNo
<1>4. Append(queue, s) # <<>> /\ Append(queue, s)[Len(Append(queue, s))] = s
  BY <1>3, QueueGrows
<1>. QED
  BY <1>2, <1>4 DEF Last

(* onDisconnect queues the choices it has, with the device gone.            *)
LEMMA SentOnDisconnect ==
  ASSUME ListenerTypeOK, uiPc \notin {"start", "connect"}, DisconnectEmit
  PROVE  /\ queue' # <<>> /\ Last'.multi = multi
         /\ Last'.connected = "no" /\ Last'.mode = desired
<1> DEFINE s == [connected |-> "no", mode |-> desired, multi |-> multi]
<1>2. queue' = Append(queue, s)
  BY DEF DisconnectEmit, EmitConnectChanged
<1>3. s \in Signal /\ queue \in Seq(Signal)
  BY DEF ListenerTypeOK, Signal, YesNo
<1>4. Append(queue, s) # <<>> /\ Append(queue, s)[Len(Append(queue, s))] = s
  BY <1>3, QueueGrows
<1>. QED
  BY <1>2, <1>4 DEF Last

(* The slot takes the last signal, or leaves it the last.                   *)
LEMMA Received ==
  ASSUME ListenerTypeOK, ConnectChangedSlot
  PROVE  /\ queue # <<>> /\ Head(queue) \in Signal
         /\ queue' = <<>> => Last = Head(queue)
         /\ queue' # <<>> => Last' = Last
         /\ menu'.enabled = Head(queue).connected /\ menu'.mode = Head(queue).mode
         /\ menu'.multi = menu.multi
         /\ uiSlot' = [running |-> "yes", multi |-> Head(queue).multi]
<1>1. queue \in Seq(Signal) /\ queue # <<>> /\ queue' = Tail(queue)
  BY DEF ListenerTypeOK, ConnectChangedSlot
<1>2. /\ menu'.enabled = Head(queue).connected /\ menu'.mode = Head(queue).mode
      /\ menu'.multi = menu.multi
  BY DEF ListenerTypeOK, ConnectChangedSlot
<1>. QED
  BY <1>1, <1>2, QueueShrinks DEF Last, ConnectChangedSlot

(* onConnect and setReady, under the mutex.                                 *)
LEMMA HandshakeStep ==
  ASSUME ListenerTypeOK, Handshake, [Next]_vars
  PROVE  Handshake'
<1>1. CASE ScreenAction
  BY <1>1, ScreensApart
     DEF ListenerTypeOK, Handshake, Connecting, listenerVars, fileVars
<1>2. CASE Connect \/ ConnectEmit \/ Disconnect \/ DisconnectEmit \/ Frame
           \/ FrameSaved \/ FrameProcess \/ FrameProcessed \/ MakeController
           \/ ConnectSignals \/ ConnectChangedSlot \/ SlotMulti \/ PickMode
           \/ PickMulti \/ ModeFlag \/ ModeDelete \/ ModeNew \/ MultiFlag
           \/ UNCHANGED vars
  BY <1>2
     DEF Connect, ConnectEmit, Disconnect, DisconnectEmit, Frame, FrameSaved,
          FrameProcess, FrameProcessed, MakeController, ConnectSignals,
          ConnectChangedSlot, SlotMulti, PickMode, PickMulti, ModeFlag,
          ModeDelete, ModeNew, MultiFlag, Callback, EmitConnectChanged,
          Chosen, CheckMode, CheckMulti, RaiseFlag, ListenerTypeOK, Handshake,
          Connecting, listenerVars, fileVars, screenVars, leapVars, uiVars,
          vars
<1>3. CASE ConnectLock \/ SpuriousWake
  BY <1>3
     DEF ConnectLock, SpuriousWake, ListenerTypeOK, YesNo, Handshake, Connecting, listenerVars,
          fileVars, screenVars, leapVars, uiVars, vars
<1>4. CASE SetReady
  BY <1>4
     DEF SetReady, ListenerTypeOK, Handshake, Connecting, listenerVars,
          fileVars, screenVars, leapVars, uiVars, vars
<1>. QED
  BY <1>1, <1>2, <1>3, <1>4 DEF Next, LeapStep, UIStep, ScreenAction

(* The slot runs through the change of the mode, if there is one.           *)
LEMMA SlotHalfwayStep ==
  ASSUME ListenerTypeOK, SlotHalfway, [Next]_vars
  PROVE  SlotHalfway'
<1>1. CASE ScreenAction
  BY <1>1, ScreensApart
     DEF ListenerTypeOK, SlotHalfway, listenerVars, fileVars
<1>2. CASE Connect \/ ConnectLock \/ SpuriousWake \/ ConnectEmit \/ Disconnect
           \/ DisconnectEmit \/ Frame \/ FrameSaved \/ FrameProcess
           \/ FrameProcessed \/ MakeController \/ ConnectSignals \/ SetReady
           \/ PickMode \/ PickMulti \/ ModeFlag \/ ModeDelete \/ MultiFlag
           \/ UNCHANGED vars
  BY <1>2
     DEF Connect, ConnectLock, SpuriousWake, ConnectEmit, Disconnect, DisconnectEmit, Frame,
          FrameSaved, FrameProcess, FrameProcessed, MakeController,
          ConnectSignals, SetReady, PickMode, PickMulti, ModeFlag, ModeDelete,
          MultiFlag, Callback, EmitConnectChanged, Chosen, CheckMode,
          CheckMulti, RaiseFlag, ListenerTypeOK, SlotHalfway, listenerVars,
          fileVars, screenVars, leapVars, uiVars, vars
<1>3. CASE ConnectChangedSlot
  BY <1>3
     DEF ConnectChangedSlot, CheckMode, ListenerTypeOK, SlotHalfway,
          listenerVars, fileVars, screenVars, leapVars, uiVars, vars
<1>4. CASE SlotMulti
  BY <1>4
     DEF SlotMulti, CheckMulti, ListenerTypeOK, SlotHalfway, listenerVars,
          fileVars, screenVars, leapVars, uiVars, vars
<1>5. CASE ModeNew
  BY <1>5
     DEF ModeNew, ListenerTypeOK, SlotHalfway, listenerVars, fileVars,
          screenVars, leapVars, uiVars, vars
<1>. QED
  BY <1>1, <1>2, <1>3, <1>4, <1>5 DEF Next, LeapStep, UIStep, ScreenAction

(* A signal reaches only a menu that is connected.                          *)
LEMMA UnheardStep ==
  ASSUME ListenerTypeOK, Unheard, [Next]_vars
  PROVE  Unheard'
<1>1. CASE ScreenAction
  BY <1>1, ScreensApart DEF Unheard, listenerVars, fileVars
<1>2. CASE ConnectEmit \/ DisconnectEmit
  BY <1>2 DEF ConnectEmit, DisconnectEmit, EmitConnectChanged, Unheard, listenerVars, fileVars
<1>3. CASE ConnectChangedSlot
  <2>1. Head(queue).mode # "none"
    BY <1>3, Received, ListenerAssumption DEF Signal
  <2>. QED
    BY <1>3, <2>1, Received DEF ConnectChangedSlot, CheckMode, Unheard
<1>4. CASE SlotMulti \/ PickMode \/ PickMulti
  BY <1>4, ListenerAssumption
     DEF SlotMulti, PickMode, PickMulti, CheckMode, CheckMulti, Unheard, ListenerTypeOK
<1>5. CASE ~(\/ ScreenAction \/ ConnectEmit \/ DisconnectEmit \/ ConnectChangedSlot
             \/ SlotMulti \/ PickMode \/ PickMulti)
  BY <1>5
     DEF Connect, ConnectLock, SpuriousWake, Disconnect, Frame, FrameSaved, FrameProcess,
          FrameProcessed, MakeController, ConnectSignals, SetReady, ModeFlag, ModeDelete,
          ModeNew, MultiFlag, Callback, RaiseFlag, Chosen, Unheard, ScreenAction, Next,
          LeapStep, UIStep, listenerVars, fileVars, screenVars, leapVars, uiVars, vars
<1>. QED
  BY <1>1, <1>2, <1>3, <1>4, <1>5

(* The menu shows the device, or a signal will make it.                     *)
LEMMA DeviceStep ==
  ASSUME ListenerTypeOK, Handshake, DeviceOnItsWay, [Next]_vars
  PROVE  DeviceOnItsWay'
<1>1. CASE ScreenAction
  BY <1>1, ScreensApart
     DEF ListenerTypeOK, DeviceOnItsWay, Emitting, Connecting, Last,
          listenerVars, fileVars
<1>2. CASE Connect \/ ConnectLock \/ SpuriousWake \/ Disconnect \/ Frame \/ FrameSaved
           \/ FrameProcess \/ FrameProcessed \/ MakeController
           \/ ConnectSignals \/ SetReady \/ SlotMulti \/ PickMode \/ PickMulti
           \/ ModeFlag \/ ModeDelete \/ ModeNew \/ MultiFlag \/ UNCHANGED vars
  BY <1>2
     DEF Connect, ConnectLock, SpuriousWake, Disconnect, Frame, FrameSaved, FrameProcess,
          FrameProcessed, MakeController, ConnectSignals, SetReady, SlotMulti,
          PickMode, PickMulti, ModeFlag, ModeDelete, ModeNew, MultiFlag,
          Callback, Chosen, CheckMulti, CheckMode, RaiseFlag, ListenerTypeOK,
          DeviceOnItsWay, Emitting, Connecting, Last, listenerVars, fileVars,
          screenVars, leapVars, uiVars, vars
<1>3. CASE ConnectEmit
  <2>1. woken = "no" => device = "connected" /\ uiPc \notin {"start", "connect"}
    BY <1>3 DEF ConnectEmit, Handshake, Connecting
  <2>. QED
    BY <1>3, <2>1, SentOnConnect DEF ConnectEmit, DeviceOnItsWay
<1>4. CASE DisconnectEmit
  <2>1. woken = "no" => device = "absent" /\ uiPc \notin {"start", "connect"}
    BY <1>4 DEF DisconnectEmit, Handshake
  <2>. QED
    BY <1>4, <2>1, SentOnDisconnect DEF DisconnectEmit, DeviceOnItsWay
<1>5. CASE ConnectChangedSlot
  BY <1>5, Received
     DEF ConnectChangedSlot, CheckMode, DeviceOnItsWay, leapVars
<1>. QED
  BY <1>1, <1>2, <1>3, <1>4, <1>5 DEF Next, LeapStep, UIStep, ScreenAction

(* So it does with the mode.                                                *)
LEMMA ModeStep ==
  ASSUME ListenerTypeOK, Unheard, ModeOnItsWay, [Next]_vars
  PROVE  ModeOnItsWay'
<1>1. CASE ScreenAction
  BY <1>1, ScreensApart
     DEF ListenerTypeOK, ModeOnItsWay, Connecting, Last, listenerVars,
          fileVars
<1>2. CASE Connect \/ ConnectLock \/ SpuriousWake \/ Disconnect \/ Frame \/ FrameSaved
           \/ FrameProcess \/ FrameProcessed \/ MakeController
           \/ ConnectSignals \/ SetReady \/ SlotMulti \/ PickMulti \/ ModeFlag
           \/ ModeDelete \/ ModeNew \/ MultiFlag \/ UNCHANGED vars
  BY <1>2
     DEF Connect, ConnectLock, SpuriousWake, Disconnect, Frame, FrameSaved, FrameProcess,
          FrameProcessed, MakeController, ConnectSignals, SetReady, SlotMulti,
          PickMulti, ModeFlag, ModeDelete, ModeNew, MultiFlag, Callback,
          Chosen, CheckMulti, RaiseFlag, ListenerTypeOK, ModeOnItsWay,
          Connecting, Last, listenerVars, fileVars, screenVars, leapVars,
          uiVars, vars
<1>3. CASE ConnectEmit
  BY <1>3, SentOnConnect
     DEF ConnectEmit, EmitConnectChanged, Unheard, Connecting, ModeOnItsWay,
          listenerVars
<1>4. CASE DisconnectEmit
  BY <1>4, SentOnDisconnect
     DEF DisconnectEmit, EmitConnectChanged, Unheard, Connecting, ModeOnItsWay,
          listenerVars
<1>5. CASE ConnectChangedSlot
  BY <1>5, Received
     DEF ConnectChangedSlot, CheckMode, ModeOnItsWay, leapVars
<1>6. CASE PickMode
  BY <1>6
     DEF PickMode, CheckMode, ListenerTypeOK, ModeOnItsWay, Connecting, Last,
          listenerVars, fileVars, screenVars, leapVars, uiVars, vars
<1>. QED
  BY <1>1, <1>2, <1>3, <1>4, <1>5, <1>6 DEF Next, LeapStep, UIStep, ScreenAction

(* And with the monitors, which the slot keeps until the mode is changed.   *)
LEMMA MultiStep ==
  ASSUME ListenerTypeOK, Unheard, MultiOnItsWay, [Next]_vars
  PROVE  MultiOnItsWay'
<1>1. CASE ScreenAction
  BY <1>1, ScreensApart
     DEF ListenerTypeOK, MultiOnItsWay, Connecting, Last, listenerVars,
          fileVars
<1>2. CASE Connect \/ ConnectLock \/ SpuriousWake \/ Disconnect \/ Frame \/ FrameSaved
           \/ FrameProcess \/ FrameProcessed \/ MakeController
           \/ ConnectSignals \/ SetReady \/ ModeFlag \/ ModeDelete
           \/ ModeNew \/ MultiFlag \/ UNCHANGED vars
  BY <1>2
     DEF Connect, ConnectLock, SpuriousWake, Disconnect, Frame, FrameSaved, FrameProcess,
          FrameProcessed, MakeController, ConnectSignals, SetReady, PickMode,
          ModeFlag, ModeDelete, ModeNew, MultiFlag, Callback, Chosen,
          CheckMode, RaiseFlag, ListenerTypeOK, MultiOnItsWay, Connecting,
          Last, listenerVars, fileVars, screenVars, leapVars, uiVars, vars
<1>3. CASE ConnectEmit
  BY <1>3, SentOnConnect
     DEF ConnectEmit, EmitConnectChanged, Unheard, MultiOnItsWay, listenerVars
<1>4. CASE DisconnectEmit
  BY <1>4, SentOnDisconnect
     DEF DisconnectEmit, EmitConnectChanged, Unheard, Connecting, MultiOnItsWay, listenerVars
<1>5. CASE ConnectChangedSlot
  BY <1>5, Received
     DEF ConnectChangedSlot, CheckMode, MultiOnItsWay, leapVars
<1>6. CASE SlotMulti
  BY <1>6
     DEF SlotMulti, CheckMulti, ListenerTypeOK, MultiOnItsWay, Connecting,
          Last, listenerVars, fileVars, screenVars, leapVars, uiVars, vars
<1>7. CASE PickMulti
  BY <1>7
     DEF PickMulti, CheckMulti, ListenerTypeOK, MultiOnItsWay, Connecting,
          Last, listenerVars, fileVars, screenVars, leapVars, uiVars, vars
<1>8. CASE PickMode
  BY <1>8 DEF PickMode, CheckMode, Unheard, MultiOnItsWay, Connecting, Last, ListenerTypeOK, leapVars
<1>. QED
  BY <1>1, <1>2, <1>3, <1>4, <1>5, <1>6, <1>7, <1>8 DEF Next, LeapStep, UIStep, ScreenAction

(* A connection moves the desired mode, a choice or a signal all three.      *)
LEMMA FileStep ==
  ASSUME ListenerTypeOK, FileDecides, [Next]_vars
  PROVE  FileDecides'
<1>1. CASE ScreenAction
  BY ListenerAssumption, <1>1, ScreensApart
     DEF ListenerTypeOK, FileDecides, listenerVars, fileVars
<1>2. CASE ConnectLock \/ SpuriousWake \/ ConnectEmit \/ Disconnect \/ DisconnectEmit
           \/ FrameSaved \/ FrameProcess \/ FrameProcessed \/ MakeController
           \/ ConnectSignals \/ SetReady \/ SlotMulti \/ PickMulti \/ ModeFlag
           \/ ModeDelete \/ ModeNew \/ MultiFlag \/ UNCHANGED vars
  BY ListenerAssumption, <1>2
     DEF ConnectLock, SpuriousWake, ConnectEmit, Disconnect, DisconnectEmit, FrameSaved,
          FrameProcess, FrameProcessed, MakeController, ConnectSignals,
          SetReady, SlotMulti, PickMulti, ModeFlag, ModeDelete, ModeNew,
          MultiFlag, EmitConnectChanged, Callback, CheckMulti, RaiseFlag,
          Chosen, ListenerTypeOK, FileDecides, listenerVars, fileVars,
          screenVars, leapVars, uiVars, vars
<1>3. CASE Connect
  BY ListenerAssumption, <1>3
     DEF Connect, Callback, ListenerTypeOK, FileDecides, listenerVars,
          fileVars, screenVars, leapVars, uiVars, vars
<1>4. CASE Frame
  BY ListenerAssumption, <1>4
     DEF Frame, Callback, Chosen, ListenerTypeOK, FileDecides, listenerVars,
          fileVars, screenVars, leapVars, uiVars, vars
<1>5. CASE ConnectChangedSlot
  <2>1. Head(queue).mode # "none"
    BY <1>5, Received, ListenerAssumption DEF Signal
  <2>. QED
    BY <1>5, <2>1, Received
       DEF ConnectChangedSlot, CheckMode, FileDecides, fileVars
<1>6. CASE PickMode
  BY ListenerAssumption, <1>6
     DEF PickMode, CheckMode, ListenerTypeOK, FileDecides, listenerVars,
          fileVars, screenVars, leapVars, uiVars, vars
<1>. QED
  BY <1>1, <1>2, <1>3, <1>4, <1>5, <1>6 DEF Next, LeapStep, UIStep, ScreenAction

(* A choice is saved, or marked, or missed.                                 *)
LEMMA SavedStep ==
  ASSUME ListenerTypeOK, SavedOrMarked, [Next]_vars
  PROVE  SavedOrMarked'
<1>1. CASE ScreenAction
  BY <1>1, ScreensApart
     DEF ListenerTypeOK, SavedOrMarked, Unmarked, Chosen, listenerVars,
          fileVars
<1>2. CASE ConnectLock \/ SpuriousWake \/ ConnectEmit \/ Disconnect \/ DisconnectEmit
           \/ FrameProcess \/ FrameProcessed \/ MakeController
           \/ ConnectSignals \/ SetReady \/ ModeDelete \/ ModeNew
           \/ UNCHANGED vars
  BY <1>2
     DEF ConnectLock, SpuriousWake, ConnectEmit, Disconnect, DisconnectEmit, FrameProcess,
          FrameProcessed, MakeController, ConnectSignals, SetReady,
          ModeDelete, ModeNew, EmitConnectChanged, Callback, ListenerTypeOK,
          SavedOrMarked, Unmarked, Chosen, listenerVars, fileVars, screenVars,
          leapVars, uiVars, vars
<1>3. CASE Connect
  BY <1>3
     DEF Connect, Callback, ListenerTypeOK, SavedOrMarked, Unmarked, Chosen,
          listenerVars, fileVars, screenVars, leapVars, uiVars, vars
<1>4. CASE Frame
  BY <1>4
     DEF Frame, Callback, Chosen, ListenerTypeOK, SavedOrMarked, Unmarked,
          Chosen, listenerVars, fileVars, screenVars, leapVars, uiVars, vars
<1>5. CASE FrameSaved
  BY <1>5
     DEF FrameSaved, ListenerTypeOK, SavedOrMarked, Unmarked, Chosen,
          listenerVars, fileVars, screenVars, leapVars, uiVars, vars
<1>6. CASE ConnectChangedSlot
  BY <1>6
     DEF ConnectChangedSlot, CheckMode, ListenerTypeOK, SavedOrMarked,
          Unmarked, Chosen, listenerVars, fileVars, screenVars, leapVars,
          uiVars, vars
<1>7. CASE SlotMulti
  BY <1>7
     DEF SlotMulti, CheckMulti, ListenerTypeOK, SavedOrMarked, Unmarked,
          Chosen, listenerVars, fileVars, screenVars, leapVars, uiVars, vars
<1>8. CASE PickMode
  BY <1>8
     DEF PickMode, CheckMode, ListenerTypeOK, SavedOrMarked, Unmarked, Chosen,
          listenerVars, fileVars, screenVars, leapVars, uiVars, vars
<1>9. CASE PickMulti
  BY <1>9
     DEF PickMulti, CheckMulti, ListenerTypeOK, SavedOrMarked, Unmarked,
          Chosen, listenerVars, fileVars, screenVars, leapVars, uiVars, vars
<1>10. CASE ModeFlag
  BY <1>10
     DEF ModeFlag, RaiseFlag, Chosen, ListenerTypeOK, SavedOrMarked, Unmarked,
          Chosen, listenerVars, fileVars, screenVars, leapVars, uiVars, vars
<1>11. CASE MultiFlag
  BY <1>11
     DEF MultiFlag, RaiseFlag, Chosen, ListenerTypeOK, SavedOrMarked,
          Unmarked, Chosen, listenerVars, fileVars, screenVars, leapVars,
          uiVars, vars
<1>. QED
  BY <1>1, <1>2, <1>3, <1>4, <1>5, <1>6, <1>7, <1>8, <1>9, <1>10, <1>11 DEF Next, LeapStep, UIStep, ScreenAction

(* Where a thread is tells whether it updates the screens.                  *)
LEMMA PlacesStep ==
  ASSUME ListenerTypeOK, ScreenTypeOK, Places, [Next]_vars
  PROVE  Places'
<1>1. CASE ~ScreenAction
  <2>1. UNCHANGED update
    BY <1>1, ScreensStay DEF screenVars
  <2>2. leapPc = "focus" => leapPc' = "focus"
    BY <1>1
       DEF Connect, ConnectLock, SpuriousWake, ConnectEmit, Disconnect, DisconnectEmit, Frame,
            FrameSaved, FrameProcess, FrameProcessed, MakeController,
            ConnectSignals, SetReady, ConnectChangedSlot, SlotMulti, PickMode,
            PickMulti, ModeFlag, ModeDelete, ModeNew, MultiFlag, Callback,
            EmitConnectChanged, Chosen, CheckMode, CheckMulti, RaiseFlag,
            ScreenAction, Next, LeapStep, UIStep, listenerVars, fileVars,
            screenVars, leapVars, uiVars, vars
  <2>3. uiPc = "screens" => uiPc' = "screens"
    BY <1>1
       DEF Connect, ConnectLock, SpuriousWake, ConnectEmit, Disconnect, DisconnectEmit, Frame,
            FrameSaved, FrameProcess, FrameProcessed, MakeController,
            ConnectSignals, SetReady, ConnectChangedSlot, SlotMulti, PickMode,
            PickMulti, ModeFlag, ModeDelete, ModeNew, MultiFlag, Callback,
            EmitConnectChanged, Chosen, CheckMode, CheckMulti, RaiseFlag,
            ScreenAction, Next, LeapStep, UIStep, listenerVars, fileVars,
            screenVars, leapVars, uiVars, vars
  <2>. QED
    BY <2>1, <2>2, <2>3 DEF Places
<1>2. CASE FocusGained \/ FocusScreens
  BY <1>2 DEF FocusGained, Callback, UpdateDefaultScreen, CallUseDefaultScreen, FocusScreens,
     ScreenStep, UseDefaultScreen, StoreScreens, ScreensDone, Places, ScreenTypeOK, User,
     Idle, uiVars
<1>3. CASE MultiCall \/ DisplaysChange \/ Screens
  BY <1>3 DEF MultiCall, UpdateDefaultScreen, CallUseDefaultScreen, DisplaysChange,
     ChangeDisplays, Screens, ScreenStep, UseDefaultScreen, StoreScreens, ScreensDone, Places,
     ScreenTypeOK, User, Idle, leapVars
<1>. QED
  BY <1>1, <1>2, <1>3 DEF ScreenAction

(* An update that is alone leaves the lists as the flag says.               *)
LEMMA ListsStep ==
  ASSUME ScreenTypeOK, Places, ListsFollow, [Next]_vars
  PROVE  ListsFollow'
<1>1. CASE ~ScreenAction
  BY <1>1, ScreensStay DEF ListsFollow, Alone, InUse, screenVars
<1>2. ASSUME NEW t \in User, NEW d, update[t].step = "none", CallUseDefaultScreen(t, d)
      PROVE  ListsFollow'
  BY <1>2 DEF CallUseDefaultScreen, ListsFollow, Alone, InUse, ScreenTypeOK, User, Idle
<1>3. ASSUME NEW t \in User, UseDefaultScreen(t) PROVE ListsFollow'
  BY <1>3 DEF UseDefaultScreen, ListsFollow, Alone, InUse, ScreenTypeOK, User, Idle
<1>4. ASSUME NEW t \in User, update[t].step = "none", ChangeDisplays(t) PROVE ListsFollow'
  BY <1>4 DEF ChangeDisplays, ListsFollow, Alone, InUse, ScreenTypeOK, User, Idle
<1>5. ASSUME NEW t \in User, StoreScreens(t) PROVE ListsFollow'
  BY <1>5 DEF StoreScreens, ListsFollow, Alone, InUse, ScreenTypeOK, User, Idle
<1>6. CASE FocusGained
  BY <1>2, <1>6 DEF FocusGained, Callback, UpdateDefaultScreen, Places, User
<1>7. CASE MultiCall
  BY <1>2, <1>7 DEF MultiCall, UpdateDefaultScreen, Places, User
<1>8. CASE DisplaysChange
  BY <1>4, <1>8 DEF DisplaysChange, Places, User
<1>9. CASE FocusScreens \/ Screens
  BY <1>3, <1>5, <1>9 DEF FocusScreens, Screens, ScreenStep, User
<1>. QED
  BY <1>1, <1>6, <1>7, <1>8, <1>9 DEF ScreenAction

(* What is asked of the screens.                                            *)
LEMMA AskedFor ==
  ASSUME NEW t \in User, multi \in YesNo, counting = "none", ScreenTypeOK,
         UpdateDefaultScreen(t)
  PROVE  update' = [update EXCEPT ![t] = [Idle EXCEPT !.step = "set",
                                                      !.default = DefaultFor(multi)]]
  BY DEF UpdateDefaultScreen, CallUseDefaultScreen, NumTouchScreens, DefaultFor

(* The flag follows the checked item, or the choice that the file brought.  *)
LEMMA FlagStep ==
  ASSUME ListenerTypeOK, ScreenTypeOK, SlotHalfway, Places, ListsFollow, FlagFollows,
         [Next]_vars
  PROVE  FlagFollows'
<1>. USE DEF FlagFollows
<1>1. CASE ~ScreenAction
  <2>1. UNCHANGED screenVars
    BY <1>1, ScreensStay
  <2>2. CASE Connect
    BY <2>1, <2>2 DEF Connect, ListenerTypeOK, DefaultFor, Told, screenVars, uiVars
  <2>3. CASE Frame
    BY <2>1, <2>3 DEF Frame, Chosen, DefaultFor, Told, screenVars, uiVars, listenerVars
  <2>4. CASE ConnectChangedSlot
    BY <2>1, <2>4, Received DEF ConnectChangedSlot, CheckMode, DefaultFor, Told, screenVars, fileVars
  <2>5. CASE SlotMulti \/ PickMulti
    BY <2>1, <2>5 DEF SlotMulti, PickMulti, CheckMulti, Places, DefaultFor, Told, screenVars,
       ListenerTypeOK, fileVars
  <2>6. CASE PickMode
    BY <2>1, <2>6 DEF PickMode, CheckMode, ListenerTypeOK, DefaultFor, Told, screenVars, fileVars
  <2>7. CASE \/ ConnectLock \/ SpuriousWake \/ ConnectEmit \/ Disconnect \/ DisconnectEmit \/ FrameSaved
             \/ FrameProcess \/ FrameProcessed \/ UNCHANGED vars
    BY <2>1, <2>7 DEF ConnectLock, SpuriousWake, ConnectEmit, Disconnect, DisconnectEmit, FrameSaved,
       FrameProcess, FrameProcessed, vars, DefaultFor, Told, screenVars, listenerVars,
       fileVars, uiVars
  <2>8. CASE \/ MakeController \/ ConnectSignals \/ SetReady \/ ModeFlag \/ ModeDelete
             \/ ModeNew \/ MultiFlag
    BY <2>1, <2>8 DEF MakeController, ConnectSignals, SetReady, ModeFlag, ModeDelete, ModeNew,
       MultiFlag, RaiseFlag, DefaultFor, Told, screenVars, listenerVars, fileVars
  <2>. QED
    BY <1>1, <2>2, <2>3, <2>4, <2>5, <2>6, <2>7, <2>8 DEF Next, LeapStep, UIStep, ScreenAction
<1>2. CASE ScreenAction
  <2>1. UNCHANGED <<multi, menu, config>>
    BY <1>2, ScreensApart DEF listenerVars, fileVars
  <2>2. SUFFICES ASSUME counting = "none", raced = "no",
                        counting' = "none", raced' = "no"
                 PROVE  LET Wanted == {DefaultFor(menu'.multi), DefaultFor(multi')}
                        IN  /\ update'["ui"].step = "set" => update'["ui"].default \in Wanted
                            /\ Told' => useDefault' \in Wanted
                            /\ Told' /\ update'["leap"].step = "set" =>
                                 update'["leap"].default \in Wanted
    BY <1>2, <2>1 DEF ScreenAction, FocusGained, FocusScreens, MultiCall, DisplaysChange,
       Screens, UpdateDefaultScreen, CallUseDefaultScreen, ScreenStep, UseDefaultScreen,
       ChangeDisplays, StoreScreens, ScreenTypeOK
  <2>3. Alone /\ multi \in YesNo
    BY <2>2 DEF ListsFollow, ListenerTypeOK
  <2>4. CASE FocusGained
    <3>1. update' = [update EXCEPT !["leap"] = [Idle EXCEPT !.step = "set",
                                                          !.default = DefaultFor(multi)]]
      BY <2>2, <2>3, <2>4, AskedFor DEF FocusGained, User
    <3>2. /\ update'["ui"] = update["ui"]
          /\ update'["leap"].default = DefaultFor(multi)
      BY <3>1 DEF ScreenTypeOK, User, Idle
    <3>3. useDefault' = useDefault /\ uiPc' = uiPc
      BY <2>4 DEF FocusGained, UpdateDefaultScreen, CallUseDefaultScreen, uiVars
    <3>. QED
      BY <2>1, <2>2, <3>2, <3>3 DEF Told
  <2>5. CASE MultiCall
    <3>1. update' = [update EXCEPT !["ui"] = [Idle EXCEPT !.step = "set",
                                                        !.default = DefaultFor(multi)]]
      BY <2>2, <2>3, <2>5, AskedFor DEF MultiCall, User
    <3>2. update'["ui"].step = "set" /\ update'["ui"].default = DefaultFor(multi)
      BY <3>1 DEF ScreenTypeOK, User, Idle
    <3>. QED
      BY <2>1, <2>2, <3>2 DEF Told
  <2>6. CASE DisplaysChange
    BY <2>1, <2>2, <2>6 DEF DisplaysChange, ChangeDisplays, Places, Told, ScreenTypeOK, User
  <2>7. CASE FocusScreens
    BY <2>1, <2>2, <2>3, <2>7 DEF FocusScreens, ScreenStep, UseDefaultScreen, StoreScreens,
       Idle, Told, Alone, ScreenTypeOK, User, uiVars
  <2>8. CASE Screens
    BY <2>1, <2>2, <2>3, <2>8 DEF Screens, ScreenStep, UseDefaultScreen, StoreScreens,
       ScreensDone, Places, Idle, Told, Alone, ScreenTypeOK, User, leapVars
  <2>. QED
    BY <1>2, <2>4, <2>5, <2>6, <2>7, <2>8 DEF ScreenAction
<1>. QED
  BY <1>1, <1>2

(* A touch driver that counts the one screen in use keeps it the only one.  *)
LEMMA CountedStep ==
  ASSUME ScreenTypeOK, CountedIsDefault, [Next]_vars
  PROVE  CountedIsDefault'
<1>. USE DEF CountedIsDefault
<1>1. CASE ~ScreenAction
  BY <1>1, ScreensStay DEF screenVars
<1>2. ASSUME NEW t \in User, UpdateDefaultScreen(t) PROVE CountedIsDefault'
  <2>1. counting # "none" => NumTouchScreens = 1
    BY ScreenAssumption DEF NumTouchScreens, ScreenTypeOK, Count
  <2>. QED
    BY <1>2, <2>1 DEF UpdateDefaultScreen, CallUseDefaultScreen, ScreenTypeOK, User, Idle
<1>3. ASSUME NEW t \in User, ChangeDisplays(t) PROVE CountedIsDefault'
  <2>1. displays' \in Nat \ {0}
    BY <1>3, ScreenAssumption DEF ChangeDisplays
  <2>. QED
    BY <1>3, <2>1 DEF ChangeDisplays, InUse, ScreenTypeOK, User
<1>4. ASSUME NEW t \in User, UseDefaultScreen(t) PROVE CountedIsDefault'
  <2>1. counting # "none" => useDefault' = "yes" /\ update' = [update EXCEPT ![t] = Idle]
    BY <1>4 DEF UseDefaultScreen
  <2>2. UNCHANGED <<counting, active>>
    BY <1>4 DEF UseDefaultScreen
  <2>. QED
    BY <2>1, <2>2 DEF ScreenTypeOK, Idle
<1>5. ASSUME NEW t \in User, StoreScreens(t) PROVE CountedIsDefault'
  <2>1. update' = [update EXCEPT ![t] = Idle] /\ UNCHANGED <<counting, useDefault>>
    BY <1>5 DEF StoreScreens
  <2>2. counting # "none" => active' = 1
    BY <1>5 DEF StoreScreens
  <2>. QED
    BY <2>1, <2>2 DEF ScreenTypeOK, Idle
<1>6. CASE FocusGained \/ MultiCall
  BY <1>2, <1>6 DEF FocusGained, MultiCall, User
<1>7. CASE DisplaysChange
  BY <1>3, <1>7 DEF DisplaysChange, User
<1>8. CASE FocusScreens \/ Screens
  BY <1>4, <1>5, <1>8 DEF FocusScreens, Screens, ScreenStep, User
<1>. QED
  BY <1>1, <1>6, <1>7, <1>8 DEF ScreenAction

-------------------------------------------------------------------------------
(* The invariant.                                                           *)

(* The listener's constructor and those of the menu and the screens.        *)
LEMMA InvariantInit == Init => IInv
<1>. SUFFICES ASSUME Init PROVE IInv
  OBVIOUS
<1>. USE DEF Init, ScreenInit
<1>1. ListenerTypeOK /\ QueueHasRoom
  BY ListenerAssumption DEF ListenerTypeOK, QueueHasRoom, YesNo, Emitting, Connecting
<1>2. ScreenTypeOK
  BY ScreenAssumption DEF ScreenTypeOK, InUse, Update
<1>3. Handshake /\ Unheard /\ SlotHalfway /\ DeviceOnItsWay /\ ModeOnItsWay /\ MultiOnItsWay
  BY DEF Handshake, Unheard, SlotHalfway, DeviceOnItsWay, ModeOnItsWay, MultiOnItsWay, Connecting
<1>4. FileDecides /\ SavedOrMarked
  BY DEF FileDecides, SavedOrMarked
<1>5. Places /\ ListsFollow /\ FlagFollows
  BY DEF Places, ListsFollow, FlagFollows, Alone, Told, DefaultFor, Idle, User, InUse
<1>6. CountedIsDefault
  BY ScreenAssumption DEF CountedIsDefault, InUse, Idle, User
<1>. QED
  BY <1>1, <1>2, <1>3, <1>4, <1>5, <1>6 DEF IInv, TypeOK

(* Every step keeps every part of the invariant.                            *)
LEMMA InvariantStep == IInv /\ [Next]_vars => IInv'
  BY ListenerTypeStep, ScreenTypeStep, HandshakeStep, UnheardStep, SlotHalfwayStep, DeviceStep, ModeStep,
     MultiStep, FileStep, SavedStep, PlacesStep, ListsStep, FlagStep, CountedStep
     DEF IInv, TypeOK

(* TouchlessListener: the invariant holds whatever the two threads do.      *)
THEOREM Invariant == Spec => []IInv
  BY InvariantInit, InvariantStep, PTL DEF Spec

(* The variables of the listener, the menu and the screens have their types, *)
(* and the menu has never more signals to answer than the queue may hold.   *)
THEOREM TypeCorrect == Spec => []TypeOK
<1>1. IInv => TypeOK
  BY DEF IInv
<1>. QED
  BY <1>1, Invariant, PTL

(* When neither thread has anything left to do, the checked mode, the       *)
(* desired mode and the manager's mode are one, and so are the monitors.    *)
THEOREM Agreement == Spec => []ThreadsAgree
<1>1. IInv => ThreadsAgree
  BY DEF IInv, ThreadsAgree, Settled, ModeOnItsWay, MultiOnItsWay, FileDecides, SlotHalfway,
     Connecting
<1>. QED
  BY <1>1, Invariant, PTL

(* An onConnect that waits has not missed its notification: the application *)
(* is still on its way to setReady, where nothing can stop it.  This is the *)
(* safety behind ConnectReturns.                                            *)
WaiterWillBeTold ==
  leapPc = "connectWait" => uiPc \in {"start", "connect", "setReady"}

THEOREM NoNotificationIsLost == Spec => []WaiterWillBeTold
<1>1. IInv => WaiterWillBeTold
  BY DEF IInv, WaiterWillBeTold, Handshake
<1>. QED
  BY <1>1, Invariant, PTL

(* The menu is then enabled just while the device is connected, whenever    *)
(* the device came, unless the wait of the last onConnect ended by itself.  *)
THEOREM MenuFollows == Spec => []MenuShowsDevice
<1>1. IInv => MenuShowsDevice
  BY DEF IInv, MenuShowsDevice, Settled, DeviceOnItsWay, Emitting, Connecting
<1>. QED
  BY <1>1, Invariant, PTL

(* A choice that is neither marked as unsaved nor missed between its being  *)
(* handed to Config and the clearing of the flag is what Config has.        *)
THEOREM ChoicesAreKept == Spec => []ChoiceIsKept
<1>1. IInv => ChoiceIsKept
  BY DEF IInv, ChoiceIsKept, Settled, SavedOrMarked, Unmarked
<1>. QED
  BY <1>1, Invariant, PTL

(* The screens in use are those the checked item asks for, unless two       *)
(* threads updated them at once; with a touch driver that counts them, only *)
(* the default one is.                                                      *)
THEOREM ScreensFollowMenu == Spec => []ScreensFollow
<1>1. IInv => ScreensFollow
  <2>1. SUFFICES ASSUME IInv, Settled, menu.mode # "none", raced = "no"
                 PROVE  active = InUse(displays, IF menu.multi = "yes" /\ counting = "none"
                                                 THEN "no" ELSE "yes")
    BY DEF ScreensFollow
  <2>2. update["ui"].step = "none" /\ update["leap"].step = "none"
    BY <2>1 DEF IInv, Places, Settled
  <2>3. active = InUse(displays, useDefault)
    BY <2>1, <2>2 DEF IInv, ListsFollow, User
  <2>4. CASE counting = "none"
    <3>1. menu.multi = multi
      BY <2>1 DEF IInv, MultiOnItsWay, SlotHalfway, Settled, Connecting
    <3>2. useDefault = DefaultFor(menu.multi)
      BY <2>1, <2>2, <2>4, <3>1 DEF IInv, FlagFollows, Told, Settled
    <3>. QED
      BY <2>3, <2>4, <3>2 DEF DefaultFor
  <2>5. CASE counting # "none"
    BY <2>1, <2>3, <2>5 DEF IInv, CountedIsDefault
  <2>. QED
    BY <2>4, <2>5
<1>. QED
  BY <1>1, Invariant, PTL
===============================================================================
