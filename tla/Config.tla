--------------------------------- MODULE Config ---------------------------------
(***************************************************************************)
(* The configuration (Configuration/Config.cpp) and its use by the         *)
(* listener (TouchlessUI/TouchlessListener.cpp): attributes with defaults, *)
(* overridden by the section of a file, changed by the user and saved by   *)
(* way of a temporary file that is renamed.                                *)
(*                                                                         *)
(* Attribute names and values stand for themselves; by renaming, every     *)
(* attribute has the same default.  Each access to a file is a step, and   *)
(* the process may die between any two of them.  What the system buffers   *)
(* of a closed file survives the process.                                  *)
(***************************************************************************)
EXTENDS Naturals

CONSTANTS
  Names,     \* names of attributes
  Public,    \* those of access type WRITE_ALWAYS
  Changed,   \* those the listener sets: the mode and the use of monitors
  Values,    \* values of attributes
  Default,   \* the value InitializeDefaults creates an attribute with
  Unset      \* in a map: there is no such key

ASSUME ConfigAssumption ==
  /\ Changed \subseteq Public /\ Public \subseteq Names
  /\ Default \in Values /\ Unset \notin Values

VARIABLES
  pc,           \* where the process is; "down" when there is none
  attributes,   \* AttributeMap
  modified,     \* ModifiedMap
  object,       \* Save's copy of the file: are there other sections in it?
  file,         \* external: the configuration file
  tmp,          \* external: the temporary file
  failed        \* did an access fail in the last load or Save?  (history)

vars == <<pc, attributes, modified, object, file, tmp, failed>>

Defaults == [n \in Names |-> Default]
Empty    == [n \in Names |-> Unset]

(* A file is absent, torn (it does not parse) or whole: then it has the    *)
(* section of the configuration and perhaps others.                        *)
Section == [Names -> Values \cup {Unset}]
File == [state : {"absent", "torn", "whole"}, section : Section, others : {"no", "yes"}]

Absent == [state |-> "absent", section |-> Empty, others |-> "no"]
Torn   == [state |-> "torn", section |-> Empty, others |-> "no"]
Whole(section, others) == [state |-> "whole", section |-> section, others |-> others]

TypeOK ==
  /\ pc \in {"down", "create", "load", "frame", "read", "open", "write", "rename"}
  /\ attributes \in [Names -> Values]
  /\ modified \in Section
  /\ object \in {"no", "yes"}
  /\ file \in File /\ tmp \in File
  /\ failed \in {"no", "yes"}

Init ==
  /\ pc = "down"
  /\ attributes = Defaults /\ modified = Empty /\ object = "no"
  /\ file \in {Absent, Torn} \cup {Whole(s, o) : s \in Section, o \in {"no", "yes"}}
  /\ tmp = Absent
  /\ failed = "no"

---------------------------------------------------------------------------
(* Config::SetAttribute with userSpecified.  An attribute that is not      *)
(* public is refused; one that has the value already is not marked as      *)
(* modified.  SetAttributes is its effect for all names a map has.         *)
Accepted(map, n) == n \in Public /\ map[n] # Unset /\ map[n] # attributes[n]

(* Slip: only what differs from the default is marked.                     *)
MutSetAttributes(map) ==
  /\ attributes' = [n \in Names |-> IF Accepted(map, n) THEN map[n] ELSE attributes[n]]
  /\ modified' = [n \in Names |->
       IF Accepted(map, n) /\ map[n] # Default THEN map[n] ELSE modified[n]]

SetAttributes(map) ==
  /\ attributes' = [n \in Names |-> IF Accepted(map, n) THEN map[n] ELSE attributes[n]]
  /\ modified' = [n \in Names |-> IF Accepted(map, n) THEN map[n] ELSE modified[n]]

(* The listener's constructor: InitializeDefaults, and a file with an      *)
(* empty section when there is none.  It is written in place.              *)
Start ==
  /\ pc = "down"
  /\ attributes' = Defaults /\ modified' = Empty
  /\ IF file.state = "absent"
     THEN \/ file' = Torn /\ pc' = "create"
          \/ file' = file /\ pc' = "load"
     ELSE file' = file /\ pc' = "load"
  /\ UNCHANGED <<object, tmp, failed>>

Create ==
  /\ pc = "create"
  /\ \/ file' = Whole(Empty, "no") /\ UNCHANGED failed
     \/ UNCHANGED file /\ failed' = "yes"
  /\ pc' = "load"
  /\ UNCHANGED <<attributes, modified, object, tmp>>

(* Slip: what is loaded is not marked as modified.                         *)
MutLoadFromFile ==
  /\ pc = "load"
  /\ \/ /\ attributes' = [n \in Names |-> IF Accepted(file.section, n) THEN file.section[n]
                                                                     ELSE attributes[n]]
        /\ failed' = "no"
     \/ UNCHANGED attributes /\ failed' = "yes"
  /\ pc' = "frame"
  /\ UNCHANGED <<modified, object, file, tmp>>

(* Config::LoadFromFile.  A file that is not there, does not parse, has no *)
(* such section or cannot be opened gives an exception, which goes no      *)
(* further: the run goes on with the defaults.                             *)
LoadFromFile ==
  /\ pc = "load"
  /\ \/ SetAttributes(file.section) /\ failed' = "no"
     \/ UNCHANGED <<attributes, modified>> /\ failed' = "yes"
  /\ pc' = "frame"
  /\ UNCHANGED <<object, file, tmp>>

(* TouchlessListener::onFrame after the user has changed the settings:     *)
(* SetAttribute for each, then Save, which has nothing to do as long as    *)
(* ModifiedMap is empty.                                                   *)
OnFrame ==
  /\ pc = "frame"
  /\ \E map \in [Names -> Values \cup {Unset}] :
       /\ \A n \in Names : map[n] # Unset <=> n \in Changed
       /\ SetAttributes(map)
  /\ pc' = IF modified' = Empty THEN "frame" ELSE "read"
  /\ UNCHANGED <<object, file, tmp, failed>>

---------------------------------------------------------------------------
(* Config::Save.  What cannot be opened, or does not parse, is replaced by *)
(* an empty object.                                                        *)
SaveRead ==
  /\ pc = "read"
  /\ \/ object' = file.others /\ failed' = "no"
     \/ object' = "no" /\ failed' = "yes"
  /\ pc' = "open"
  /\ UNCHANGED <<attributes, modified, file, tmp>>

(* When the temporary file cannot be opened, one that is there is removed, *)
(* unless that fails, too.                                                 *)
SaveOpen ==
  /\ pc = "open"
  /\ \/ tmp' = Torn /\ pc' = "write" /\ UNCHANGED failed
     \/ tmp' \in {Absent, tmp} /\ pc' = "frame" /\ failed' = "yes"
  /\ UNCHANGED <<attributes, modified, object, file>>

(* Slip: the object is made anew instead of being read from the file.      *)
MutSaveWrite ==
  /\ pc = "write"
  /\ \/ tmp' = Whole(modified, "no") /\ UNCHANGED failed
     \/ UNCHANGED tmp /\ failed' = "yes"
  /\ pc' = "rename"
  /\ UNCHANGED <<attributes, modified, object, file>>

(* The state of the stream is not tested: a file that could be written in  *)
(* part only is renamed all the same.                                      *)
SaveWrite ==
  /\ pc = "write"
  /\ \/ tmp' = Whole(modified, object) /\ UNCHANGED failed
     \/ UNCHANGED tmp /\ failed' = "yes"
  /\ pc' = "rename"
  /\ UNCHANGED <<attributes, modified, object, file>>

SaveRename ==
  /\ pc = "rename"
  /\ \/ file' = tmp /\ tmp' = Absent /\ UNCHANGED failed
     \/ UNCHANGED <<file, tmp>> /\ failed' = "yes"
  /\ pc' = "frame"
  /\ UNCHANGED <<attributes, modified, object>>

(* The process ends, at any point.                                         *)
Crash ==
  /\ pc # "down"
  /\ pc' = "down"
  /\ attributes' = Defaults /\ modified' = Empty /\ object' = "no"
  /\ UNCHANGED <<file, tmp, failed>>

Next ==
  \/ Start \/ Create \/ LoadFromFile \/ OnFrame
  \/ SaveRead \/ SaveOpen \/ SaveWrite \/ SaveRename
  \/ Crash

Spec == Init /\ [][Next]_vars

---------------------------------------------------------------------------
(* The settings a start from a file gives.                                 *)
Loaded ==
  [n \in Names |-> IF n \in Public /\ file.section[n] # Unset
                   THEN file.section[n] ELSE Default]

Running == IF pc \in {"down", "create", "load"} THEN "no" ELSE "yes"

Store == INSTANCE SettingsStore
           WITH running <- Running,
                settings <- IF Running = "yes" THEN attributes ELSE Defaults,
                durable <- Loaded

(* The file is a store: a run starts with exactly the settings of the last *)
(* Save, whichever were modified, set back to their default or refused     *)
(* along the way, and at whichever step a process died.  An access that    *)
(* fails may cost all settings, those of the run when the file cannot be   *)
(* opened at its start, those of the file when it cannot be written, but   *)
(* never some of them.                                                     *)
StoreSpec == Store!Spec

(* Save keeps the other sections of the file, whatever it replaces, unless *)
(* one of its own accesses fails: an existing file that it cannot open for *)
(* reading is overwritten.                                                 *)
OthersKept == [][file.others = "yes" /\ failed' = "no" => file'.others = "yes"]_vars

(* While no Save is under way, the settings the user sees are those the    *)
(* next run will start with, unless the last load or Save failed: onFrame  *)
(* looks at no result and does not try again.                              *)
SavedAsSeen == pc = "frame" /\ failed = "no" => Loaded = attributes
=============================================================================
