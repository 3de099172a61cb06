----------------------------- MODULE SettingsStore -----------------------------
(***************************************************************************)
(* What the settings file promises: a run of the program starts with the   *)
(* settings that are stored, storing them is one step, and a crash changes *)
(* nothing that is stored.  When an access to the file fails, a run may    *)
(* start with the defaults, or all that was stored may be lost, but never  *)
(* a part of it.                                                           *)
(***************************************************************************)
CONSTANTS Names, Values, Default

VARIABLES
  running,    \* "yes" from the moment a run has loaded its settings
  settings,   \* the settings of the run
  durable,    \* those the next run will start with
  failed      \* did an access fail in this start or store?  The system decides

vars == <<running, settings, durable>>

Settings == [Names -> Values]
Defaults == [n \in Names |-> Default]

Init ==
  /\ running = "no" /\ settings = Defaults
  /\ durable \in Settings

Start ==
  /\ running = "no"
  /\ running' = "yes"
  /\ \/ settings' = durable
     \/ settings' = Defaults /\ failed' = "yes"
  /\ UNCHANGED durable

Change ==
  /\ running = "yes"
  /\ settings' \in Settings
  /\ UNCHANGED <<running, durable>>

Store ==
  /\ running = "yes"
  /\ \/ durable' = settings
     \/ durable' = Defaults /\ failed' = "yes"
  /\ UNCHANGED <<running, settings>>

Stop ==
  /\ running' = "no" /\ settings' = Defaults
  /\ UNCHANGED durable

Next == Start \/ Change \/ Store \/ Stop

Spec == Init /\ [][Next]_vars
=============================================================================
