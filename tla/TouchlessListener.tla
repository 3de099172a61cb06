--------------------------- MODULE TouchlessListener ---------------------------
(***************************************************************************)
(* The application around the interaction modes (TouchlessUI/): the        *)
(* listener whose callbacks run on the thread of the tracking library, and *)
(* the tray menu whose slots run on the user-interface thread and change   *)
(* the same listener.                                                      *)
(*                                                                         *)
(* Only the handshake at the start is under a mutex.  Everything else the  *)
(* two threads share (the desired mode, the settings flag, the interaction *)
(* manager and the screens) is read and written without one, so a method   *)
(* is a sequence of steps, and so is what it does to the VirtualScreen.    *)
(* The listener's connectChangedSignal crosses threads and is queued, the  *)
(* menu's signals are direct.  onExit never runs, as removing the listener *)
(* is disabled, and onFocusLost changes only the driver (see BasicMode).   *)
(* A manager is known by its mode.  Deleting one while the other thread is *)
(* inside it is undefined; in the model that call just returns.            *)
(***************************************************************************)
EXTENDS VirtualScreen

CONSTANTS
  Mode,         \* the interaction modes, "Disabled" among them
  MaxQueue      \* bound on the queued signals: the device waits beyond it

ASSUME ListenerAssumption ==
  /\ "Disabled" \in Mode /\ "none" \notin Mode /\ "deleted" \notin Mode
  /\ MaxQueue \in Nat \ {0}

VARIABLES
  \* the listener
  desired,         \* m_desiredMode
  multi,           \* m_useMultipleMonitors: "yes" or "no"
  updateSettings,  \* m_updateSettings: "yes" or "no"
  ready,           \* m_ready: "yes" or "no"
  manager,         \* the mode of *m_interactionManager, or "deleted"
  config,          \* Config's os_interaction_mode and os_interaction_multi_monitor
  missed,          \* "yes" when a choice came too late for a save: read by a property only
  \* the thread of the tracking library
  device,          \* "absent" or "connected", as the callbacks have told
  leapPc,          \* where the callback is, or "idle"
  leapMode,        \* tempMode of onConnect
  woken,           \* "yes" when the last connection's wait ended by itself  (history)
  \* the user interface and its thread
  uiPc,            \* where the thread is, or "loop" in its event loop
  uiSlot,          \* is connectChangedSlot running, and its useMultiMonitors
  queue,           \* signals for connectChangedSlot
  menu             \* what the tray menu shows

listenerVars == <<desired, multi, updateSettings, ready, manager>>
leapVars     == <<device, leapPc, leapMode, woken>>
uiVars       == <<uiPc, uiSlot, queue, menu>>
fileVars     == <<config, missed>>
vars == <<listenerVars, fileVars, screenVars, leapVars, uiVars>>

YesNo  == {"yes", "no"}
Signal == [connected : YesNo, mode : Mode, multi : YesNo]

ListenerTypeOK ==
  /\ desired \in Mode /\ multi \in YesNo /\ updateSettings \in YesNo /\ ready \in YesNo
  /\ manager \in Mode \cup {"deleted"}
  /\ config \in [mode : Mode, multi : YesNo]
  /\ missed \in YesNo
  /\ device \in {"absent", "connected"}
  /\ leapPc \in {"idle", "connectLock", "connectWait", "connectEmit", "disconnectEmit",
                 "saved", "frame", "processing", "focus"}
  /\ leapMode \in Mode /\ woken \in YesNo
  /\ uiPc \in {"start", "connect", "setReady", "loop", "modeFlag", "modeDelete",
               "modeNew", "slotMulti", "multiFlag", "multiCall", "screens"}
  /\ uiSlot \in [running : YesNo, multi : YesNo]
  /\ queue \in Seq(Signal) /\ Len(queue) <= MaxQueue
  /\ menu \in [enabled : YesNo, mode : Mode \cup {"none"}, multi : YesNo]

TypeOK == ListenerTypeOK /\ ScreenTypeOK

(* The listener has been made; nothing of the menu is checked.             *)
Init ==
  /\ desired = "Disabled" /\ multi = "no"
  /\ updateSettings = "no" /\ ready = "no"
  /\ manager = "Disabled"
  /\ config \in [mode : Mode, multi : YesNo]
  /\ missed = "no"
  /\ ScreenInit
  /\ device = "absent" /\ leapPc = "idle" /\ leapMode = "Disabled"
  /\ woken = "no"
  /\ uiPc = "start" /\ uiSlot = [running |-> "no", multi |-> "no"]
  /\ queue = <<>>
  /\ menu = [enabled |-> "no", mode |-> "none", multi |-> "no"]

-------------------------------------------------------------------------------
(* The screens.                                                             *)

(* updateDefaultScreen, called on thread t: the default screen is used     *)
(* unless several are asked for and there is not just one to touch.        *)
UpdateDefaultScreen(t) ==
  CallUseDefaultScreen(t, IF multi = "yes" /\ NumTouchScreens # 1 THEN "no" ELSE "yes")

-------------------------------------------------------------------------------
(* Callbacks on the thread of the tracking library, one at a time, once the *)
(* controller is made.                                                      *)

(* The settings that are to be saved.                                       *)
Chosen == [mode |-> desired, multi |-> multi]

Callback == leapPc = "idle" /\ uiPc # "start" /\ Len(queue) < MaxQueue

(* connectChangedSignal is queued for the menu, if that is connected yet.  *)
EmitConnectChanged(c, m) ==
  IF uiPc \in {"start", "connect"} THEN UNCHANGED queue
  ELSE queue' = Append(queue, [connected |-> c, mode |-> m, multi |-> multi])

(* onConnect: the configuration replaces what the user has last chosen.    *)
Connect ==
  /\ Callback /\ device = "absent"
  /\ device' = "connected"
  /\ desired' = config.mode
  /\ leapMode' = config.mode
  /\ multi' = config.multi
  /\ leapPc' = "connectLock"
  /\ missed' = "no" /\ woken' = "no"
  /\ UNCHANGED <<updateSettings, ready, manager, config, screenVars, uiVars>>

(* Slip: the handshake is left out.                                        *)
MutConnectLock ==
  /\ leapPc = "connectLock"
  /\ leapPc' = "connectEmit"
  /\ UNCHANGED <<listenerVars, fileVars, screenVars, device, leapMode, woken, uiVars>>

(* Under the mutex: wait for the application unless it is ready.           *)
ConnectLock ==
  /\ leapPc = "connectLock"
  /\ leapPc' = IF ready = "yes" THEN "connectEmit" ELSE "connectWait"
  /\ UNCHANGED <<listenerVars, fileVars, screenVars, device, leapMode, woken, uiVars>>

(* The wait is in an "if" and not in a loop: when it ends by itself, which *)
(* it may, onConnect goes on although the application is not ready.        *)
SpuriousWake ==
  /\ leapPc = "connectWait"
  /\ leapPc' = "connectEmit"
  /\ woken' = "yes"
  /\ UNCHANGED <<listenerVars, fileVars, screenVars, device, leapMode, uiVars>>

ConnectEmit ==
  /\ leapPc = "connectEmit"
  /\ EmitConnectChanged("yes", leapMode)
  /\ leapPc' = "idle"
  /\ UNCHANGED <<listenerVars, fileVars, screenVars, device, leapMode, woken, uiPc, uiSlot, menu>>

(* onDisconnect cancels the gesture of the driver and tells the menu.      *)
Disconnect ==
  /\ Callback /\ device = "connected"
  /\ device' = "absent"
  /\ leapPc' = "disconnectEmit"
  /\ UNCHANGED <<listenerVars, fileVars, screenVars, leapMode, woken, uiVars>>

DisconnectEmit ==
  /\ leapPc = "disconnectEmit"
  /\ EmitConnectChanged("no", desired)
  /\ leapPc' = "idle"
  /\ UNCHANGED <<listenerVars, fileVars, screenVars, device, leapMode, woken, uiPc, uiSlot, menu>>

(* onFrame: settings that have changed are handed to Config first, which is *)
(* told to save them, and the flag is cleared.  Whether the file gets them *)
(* (the result of Save is ignored) is module Config's business.            *)
Frame ==
  /\ Callback /\ device = "connected"
  /\ \/ /\ updateSettings = "yes"
        /\ config' = Chosen
        /\ leapPc' = "saved"
     \/ /\ updateSettings = "no"
        /\ leapPc' = "frame"
        /\ UNCHANGED config
  /\ UNCHANGED <<listenerVars, missed, screenVars, device, leapMode, woken, uiVars>>

FrameSaved ==
  /\ leapPc = "saved"
  /\ updateSettings' = "no"
  /\ leapPc' = "frame"
  /\ UNCHANGED <<desired, multi, ready, manager, fileVars, screenVars, device, leapMode, woken, uiVars>>

(* The manager, if there is one, is inside processFrame; a pointer to a    *)
(* deleted one is not null.                                                *)
FrameProcess ==
  /\ leapPc = "frame"
  /\ leapPc' = IF manager = "Disabled" THEN "idle" ELSE "processing"
  /\ UNCHANGED <<listenerVars, fileVars, screenVars, device, leapMode, woken, uiVars>>

FrameProcessed ==
  /\ leapPc = "processing"
  /\ leapPc' = "idle"
  /\ UNCHANGED <<listenerVars, fileVars, screenVars, device, leapMode, woken, uiVars>>

FocusGained ==
  /\ Callback
  /\ UpdateDefaultScreen("leap")
  /\ leapPc' = "focus"
  /\ UNCHANGED <<listenerVars, fileVars, device, leapMode, woken, uiVars>>

FocusScreens ==
  /\ leapPc = "focus"
  /\ ScreenStep("leap")
  /\ leapPc' = IF ScreensDone("leap")' THEN "idle" ELSE "focus"
  /\ UNCHANGED <<listenerVars, fileVars, device, leapMode, woken, uiVars>>

LeapStep ==
  \/ ConnectLock \/ ConnectEmit \/ DisconnectEmit
  \/ FrameSaved \/ FrameProcess \/ FrameProcessed \/ FocusScreens

-------------------------------------------------------------------------------
(* The user-interface thread: TouchlessApp::Run.                            *)

MakeController ==
  /\ uiPc = "start"
  /\ uiPc' = "connect"
  /\ UNCHANGED <<listenerVars, fileVars, screenVars, leapVars, uiSlot, queue, menu>>

ConnectSignals ==
  /\ uiPc = "connect"
  /\ uiPc' = "setReady"
  /\ UNCHANGED <<listenerVars, fileVars, screenVars, leapVars, uiSlot, queue, menu>>

(* Slip: nobody is notified.                                               *)
MutSetReady ==
  /\ uiPc = "setReady"
  /\ ready' = "yes"
  /\ uiPc' = "loop"
  /\ UNCHANGED <<desired, multi, updateSettings, manager, fileVars, screenVars, leapVars,
                 uiSlot, queue, menu>>

(* setReady notifies, under the mutex, whoever waits.                      *)
SetReady ==
  /\ uiPc = "setReady"
  /\ ready' = "yes"
  /\ leapPc' = IF leapPc = "connectWait" THEN "connectEmit" ELSE leapPc
  /\ uiPc' = "loop"
  /\ UNCHANGED <<desired, multi, updateSettings, manager, fileVars, screenVars, device,
                 leapMode, woken, uiSlot, queue, menu>>

-------------------------------------------------------------------------------
(* Its event loop: the menu and connectChangedSlot.                         *)

(* Slip: setDesiredMode does nothing for the mode that is desired already. *)
MutCheckMode(m, unchanged) ==
  IF m = desired THEN uiPc' = unchanged /\ UNCHANGED desired
                 ELSE uiPc' = "modeFlag" /\ desired' = m

(* To check what is checked does nothing; anything else toggles, and       *)
(* setDesiredMode or setUseMultipleMonitors begins.                        *)
CheckMode(m, unchanged) ==
  IF m = menu.mode THEN uiPc' = unchanged /\ UNCHANGED desired
                   ELSE uiPc' = "modeFlag" /\ desired' = m

CheckMulti(m) ==
  /\ menu' = [menu EXCEPT !.multi = m]
  /\ IF m = menu.multi THEN uiPc' = "loop" /\ UNCHANGED multi
                       ELSE uiPc' = "multiFlag" /\ multi' = m

(* connectChangedSlot enables the menu and checks the mode of the signal,  *)
(* then its monitors.                                                      *)
ConnectChangedSlot ==
  /\ uiPc = "loop" /\ queue # <<>>
  /\ queue' = Tail(queue)
  /\ uiSlot' = [running |-> "yes", multi |-> Head(queue).multi]
  /\ menu' = [menu EXCEPT !.enabled = Head(queue).connected, !.mode = Head(queue).mode]
  /\ CheckMode(Head(queue).mode, "slotMulti")
  /\ UNCHANGED <<multi, updateSettings, ready, manager, fileVars, screenVars, leapVars>>

SlotMulti ==
  /\ uiPc = "slotMulti"
  /\ uiSlot' = [uiSlot EXCEPT !.running = "no"]
  /\ CheckMulti(uiSlot.multi)
  /\ UNCHANGED <<desired, updateSettings, ready, manager, fileVars, screenVars, leapVars, queue>>

(* The user picks a mode or toggles the monitors in the enabled menu.      *)
PickMode ==
  /\ uiPc = "loop" /\ menu.enabled = "yes"
  /\ \E m \in Mode \ {menu.mode} :
       CheckMode(m, "loop") /\ menu' = [menu EXCEPT !.mode = m]
  /\ UNCHANGED <<multi, updateSettings, ready, manager, fileVars, screenVars, leapVars,
                 uiSlot, queue>>

PickMulti ==
  /\ uiPc = "loop" /\ menu.enabled = "yes"
  /\ \E m \in YesNo \ {menu.multi} : CheckMulti(m)
  /\ UNCHANGED <<desired, updateSettings, ready, manager, fileVars, screenVars, leapVars,
                 uiSlot, queue>>

(* Slip: a choice is not marked as unsaved.                                 *)
MutRaiseFlag == UNCHANGED <<updateSettings, missed, config>>

(* m_updateSettings is set.  If the settings have just been saved without  *)
(* this choice and the flag is about to be cleared, the choice is missed.  *)
RaiseFlag ==
  /\ updateSettings' = "yes"
  /\ missed' = IF leapPc = "saved" /\ config # Chosen THEN "yes" ELSE "no"
  /\ UNCHANGED config

ModeFlag ==
  /\ uiPc = "modeFlag"
  /\ RaiseFlag
  /\ uiPc' = "modeDelete"
  /\ UNCHANGED <<desired, multi, ready, manager, screenVars, leapVars, uiSlot, queue, menu>>

(* The destructor of the manager, whose mode shuts its machine down.       *)
ModeDelete ==
  /\ uiPc = "modeDelete"
  /\ manager' = IF manager = "Disabled" THEN manager ELSE "deleted"
  /\ uiPc' = "modeNew"
  /\ UNCHANGED <<desired, multi, updateSettings, ready, fileVars, screenVars, leapVars,
                 uiSlot, queue, menu>>

(* The driver's gesture is cancelled, and a manager is made for what is    *)
(* the desired mode now.                                                   *)
ModeNew ==
  /\ uiPc = "modeNew"
  /\ manager' = desired
  /\ uiPc' = IF uiSlot.running = "yes" THEN "slotMulti" ELSE "loop"
  /\ UNCHANGED <<desired, multi, updateSettings, ready, fileVars, screenVars, leapVars,
                 uiSlot, queue, menu>>

MultiFlag ==
  /\ uiPc = "multiFlag"
  /\ RaiseFlag
  /\ uiPc' = "multiCall"
  /\ UNCHANGED <<desired, multi, ready, manager, screenVars, leapVars, uiSlot, queue, menu>>

MultiCall ==
  /\ uiPc = "multiCall"
  /\ UpdateDefaultScreen("ui")
  /\ uiPc' = "screens"
  /\ UNCHANGED <<listenerVars, fileVars, leapVars, uiSlot, queue, menu>>

(* The event loop also hears of a change of the displays.                  *)
DisplaysChange ==
  /\ uiPc = "loop"
  /\ ChangeDisplays("ui")
  /\ uiPc' = "screens"
  /\ UNCHANGED <<listenerVars, fileVars, leapVars, uiSlot, queue, menu>>

Screens ==
  /\ uiPc = "screens"
  /\ ScreenStep("ui")
  /\ uiPc' = IF ScreensDone("ui")' THEN "loop" ELSE "screens"
  /\ UNCHANGED <<listenerVars, fileVars, leapVars, uiSlot, queue, menu>>

UIStep ==
  \/ MakeController \/ ConnectSignals \/ SetReady \/ ConnectChangedSlot \/ SlotMulti
  \/ ModeFlag \/ ModeDelete \/ ModeNew \/ MultiFlag \/ MultiCall \/ Screens

Next ==
  \/ LeapStep \/ SpuriousWake \/ Connect \/ Disconnect \/ Frame \/ FocusGained
  \/ UIStep \/ PickMode \/ PickMulti \/ DisplaysChange

(* A callback that has begun and the event loop go on.                     *)
Fairness == WF_vars(LeapStep) /\ WF_vars(UIStep)

Spec == Init /\ [][Next]_vars /\ Fairness

-------------------------------------------------------------------------------
(* Properties.                                                              *)

(* Both threads have done what they had to do.                              *)
Settled == leapPc = "idle" /\ uiPc = "loop" /\ queue = <<>>

(* However connections, disconnections and choices of the user cross each   *)
(* other, the two threads agree in the end: the checked mode, the desired   *)
(* mode and the mode of the manager are one, and so are the monitors.       *)
ThreadsAgree ==
  Settled /\ menu.mode # "none" =>
    menu.mode = desired /\ manager = desired /\ menu.multi = multi

(* The menu is enabled just while the device is connected, also when the    *)
(* device was connected before the application was ready to hear of it,     *)
(* unless the wait of that connection ended by itself: the signal may then  *)
(* be emitted before the menu is connected to it, and the menu stays        *)
(* disabled until the next connection.                                      *)
MenuShowsDevice ==
  Settled /\ woken = "no" => (menu.enabled = "yes" <=> device = "connected")

(* onConnect, which waits for the application without a time limit, comes   *)
(* back.                                                                    *)
ConnectReturns == leapPc = "connectWait" ~> leapPc = "idle"

(* A choice of the user is never forgotten by the running program: once the *)
(* flag for unsaved settings is down, Config, whose attributes the next     *)
(* connection reads back, has the mode and the monitors in use, unless the  *)
(* last choice fell between their being handed over and the clearing of the *)
(* flag.  That Config's Save brings them to the file is not said here: it   *)
(* may fail, and onFrame does not look (module Config, SavedAsSeen).        *)
ChoiceIsKept ==
  Settled /\ menu.mode # "none" /\ updateSettings = "no" /\ missed = "no" =>
    config = Chosen

(* The screens in use are those the checked item says, although displays    *)
(* come and go, connections bring back what Config has, and the two         *)
(* threads look at the choice when they like; only two updates at once may  *)
(* leave them otherwise.  A touch driver that counts the screens in use     *)
(* finds the default one and so keeps to it, whatever is checked.           *)
ScreensFollow ==
  Settled /\ menu.mode # "none" /\ raced = "no" =>
    active = InUse(displays, IF menu.multi = "yes" /\ counting = "none" THEN "no" ELSE "yes")

(* StateMachine.h:158, "assert(!m_is_running_a_state)", in the Shutdown of  *)
(* the mode that the user interface deletes: no frame is being processed.   *)
ShutdownIsQuiet ==
  uiPc = "modeDelete" /\ manager # "Disabled" => leapPc # "processing"
===============================================================================
