------------------------------ MODULE ConfigProofs ------------------------------
(***************************************************************************)
(* Proofs that the configuration file is a store of settings, for any      *)
(* attributes and values.  The invariant relates the three copies of a     *)
(* setting: every attribute that differs from its default is in            *)
(* ModifiedMap with the value it has, as otherwise saving would drop it;   *)
(* and what is about to be renamed is all of ModifiedMap, or a file whose  *)
(* write has failed.  After a load that failed the file is forgotten, and  *)
(* the next Save writes what there is in memory.                           *)
(***************************************************************************)
EXTENDS Config, TLAPS

(* ModifiedMap records each attribute that is not at its default.          *)
MemoryInv ==
  /\ Running = "no" => attributes = Defaults /\ modified = Empty
  /\ \A n \in Names :
       /\ modified[n] # Unset => n \in Public /\ modified[n] = attributes[n]
       /\ modified[n] = Unset => attributes[n] = Default

(* A file that is not whole has nothing in it.                             *)
FileInv ==
  /\ file.state # "whole" => file.section = Empty /\ file.others = "no"
  /\ pc = "create" => file = Torn

(* Save knows the sections of the file, and what the temporary one holds.  *)
SaveInv ==
  /\ pc \in {"open", "write", "rename"} => object = file.others \/ failed = "yes"
  /\ pc = "write" => tmp = Torn
  /\ pc = "rename" => \/ tmp = Whole(modified, object)
                      \/ tmp = Torn /\ failed = "yes"

IInv == TypeOK /\ MemoryInv /\ FileInv /\ SaveInv /\ SavedAsSeen

(* The files the program writes are files.                                 *)
LEMMA FileType ==
  /\ Absent \in File /\ Torn \in File
  /\ \A section \in Section, others \in {"no", "yes"} : Whole(section, others) \in File
BY DEF Absent, Torn, Whole, File, Section, Empty

(* Setting attributes from a map keeps attributes and ModifiedMap together. *)
LEMMA SetAttributesInv ==
  ASSUME TypeOK, MemoryInv, NEW map \in Section, SetAttributes(map)
  PROVE  /\ attributes' \in [Names -> Values] /\ modified' \in Section
         /\ \A n \in Names :
              /\ modified'[n] # Unset => n \in Public /\ modified'[n] = attributes'[n]
              /\ modified'[n] = Unset => attributes'[n] = Default
<1>1. ASSUME NEW n \in Names
      PROVE  /\ attributes'[n] = IF Accepted(map, n) THEN map[n] ELSE attributes[n]
             /\ modified'[n] = IF Accepted(map, n) THEN map[n] ELSE modified[n]
             /\ Accepted(map, n) => n \in Public /\ map[n] # Unset /\ map[n] \in Values
             /\ attributes[n] \in Values /\ modified[n] \in Values \cup {Unset}
  BY DEF SetAttributes, Accepted, TypeOK, Section
<1>2. attributes' \in [Names -> Values] /\ modified' \in Section
  BY <1>1 DEF SetAttributes, Section
<1> QED
  BY <1>1, <1>2 DEF MemoryInv

(* The first state, with any file, satisfies the invariant.                *)
LEMMA InitIInv == Init => IInv
<1> SUFFICES ASSUME Init
             PROVE  IInv
  OBVIOUS
<1>1. TypeOK
  BY FileType, ConfigAssumption DEF Init, TypeOK, Defaults, Empty, Section
<1>2. MemoryInv
  BY DEF Init, MemoryInv, Running, Defaults, Empty
<1>3. FileInv
  BY DEF Init, FileInv, Absent, Torn, Whole
<1>4. SaveInv /\ SavedAsSeen
  BY DEF Init, SaveInv, SavedAsSeen
<1> QED
  BY <1>1, <1>2, <1>3, <1>4 DEF IInv

(* The settings a start would load, by file.                                *)
LEMMA LoadedType == TypeOK => Loaded \in [Names -> Values]
BY ConfigAssumption DEF TypeOK, File, Section, Loaded

(* Loading sets every attribute that the file overrides and no other, or    *)
(* fails and leaves the defaults.                                           *)
LEMMA LoadStarts ==
  ASSUME IInv, LoadFromFile
  PROVE  \/ attributes' = Loaded
         \/ attributes' = Defaults /\ failed' = "yes"
<1>1. attributes = Defaults
  BY DEF LoadFromFile, IInv, MemoryInv, Running
<1>. SUFFICES ASSUME SetAttributes(file.section)
              PROVE  attributes' = Loaded
  BY <1>1 DEF LoadFromFile
<1>2. attributes' = [n \in Names |-> IF Accepted(file.section, n)
                                     THEN file.section[n] ELSE attributes[n]]
  BY DEF SetAttributes
<1>3. ASSUME NEW n \in Names
      PROVE  (IF Accepted(file.section, n) THEN file.section[n] ELSE attributes[n])
             = IF n \in Public /\ file.section[n] # Unset THEN file.section[n] ELSE Default
  BY <1>1 DEF Accepted, Defaults
<1> QED
  BY <1>2, <1>3 DEF Loaded

(* What ModifiedMap holds is what the user sees.                           *)
LEMMA ModifiedLoads ==
  ASSUME TypeOK, MemoryInv, file'.section = modified
  PROVE  Loaded' = attributes
<1>1. ASSUME NEW n \in Names
      PROVE  (IF n \in Public /\ modified[n] # Unset THEN modified[n] ELSE Default)
             = attributes[n]
  BY DEF MemoryInv
<1>2. Loaded' = [n \in Names |-> attributes[n]]
  BY <1>1 DEF Loaded
<1>. QED
  BY <1>2 DEF TypeOK

(* Renaming stores the attributes, or nothing when the write had failed.    *)
LEMMA RenameStores ==
  ASSUME IInv, SaveRename, file' = tmp
  PROVE  \/ Loaded' = attributes
         \/ Loaded' = Defaults /\ failed' = "yes"
<1>1. CASE tmp = Whole(modified, object)
  BY <1>1, ModifiedLoads DEF Whole, IInv
<1>2. CASE tmp = Torn /\ failed = "yes"
  BY <1>2 DEF SaveRename, Loaded, Torn, Empty, Defaults
<1> QED
  BY <1>1, <1>2 DEF SaveRename, IInv, SaveInv

(* What is loaded, and what is renamed, is what the user sees; a choice     *)
(* that changes that begins a Save.                                         *)
LEMMA SeenStep == IInv /\ [Next]_vars => SavedAsSeen'
<1> SUFFICES ASSUME IInv, [Next]_vars, pc' = "frame", failed' = "no"
             PROVE  Loaded' = attributes'
  BY DEF SavedAsSeen
<1>1. CASE LoadFromFile
  BY <1>1, LoadStarts DEF LoadFromFile, Loaded
<1>2. CASE OnFrame
  <2>1. PICK map : SetAttributes(map)
    BY <1>2 DEF OnFrame
  <2>2. modified' = Empty /\ Loaded' = Loaded /\ Loaded = attributes
    BY <1>2 DEF OnFrame, Loaded, IInv, SavedAsSeen
  <2>3. ASSUME NEW n \in Names
        PROVE  ~Accepted(map, n)
    BY <2>1, <2>2 DEF SetAttributes, Accepted, Empty
  <2>4. attributes' = [n \in Names |-> attributes[n]]
    BY <2>1, <2>3 DEF SetAttributes
  <2> QED
    BY <2>2, <2>4 DEF IInv, TypeOK
<1>3. CASE SaveRename
  BY <1>3, RenameStores DEF SaveRename
<1>4. CASE SaveOpen \/ UNCHANGED vars
  BY <1>4 DEF SaveOpen, vars, IInv, SavedAsSeen, Loaded
<1> QED
  BY <1>1, <1>2, <1>3, <1>4 DEF Next, Start, Create, SaveRead, SaveWrite, Crash

(* Every action keeps the invariant.                                        *)
LEMMA NextIInv == IInv /\ [Next]_vars => IInv'
<1> SUFFICES ASSUME IInv, [Next]_vars
             PROVE  (TypeOK /\ MemoryInv /\ FileInv /\ SaveInv)'
  BY SeenStep DEF IInv
<1> USE FileType DEF IInv
<1>1. CASE Start
  <2>1. TypeOK'
    BY <1>1, ConfigAssumption DEF Start, TypeOK, Defaults, Empty, Section
  <2>2. MemoryInv'
    BY <1>1 DEF Start, MemoryInv, Running, Defaults, Empty
  <2>3. FileInv' /\ SaveInv'
    BY <1>1 DEF Start, FileInv, SaveInv, Torn
  <2> QED
    BY <2>1, <2>2, <2>3
<1>2. CASE Create
  <2>1. TypeOK'
    BY <1>2 DEF Create, TypeOK, Empty, Section
  <2>2. MemoryInv'
    BY <1>2 DEF Create, MemoryInv, Running
  <2>3. FileInv' /\ SaveInv'
    BY <1>2 DEF Create, FileInv, SaveInv, Torn, Whole
  <2> QED
    BY <2>1, <2>2, <2>3
<1>3. CASE LoadFromFile
  <2>1. file.section \in Section
    BY DEF TypeOK, File
  <2>2. TypeOK' /\ MemoryInv'
    <3>1. CASE SetAttributes(file.section)
      BY <1>3, <2>1, <3>1, SetAttributesInv DEF LoadFromFile, TypeOK, MemoryInv, Running
    <3>2. CASE UNCHANGED <<attributes, modified>>
      BY <1>3, <3>2 DEF LoadFromFile, TypeOK, MemoryInv, Running
    <3> QED
      BY <1>3, <3>1, <3>2 DEF LoadFromFile
  <2>3. FileInv' /\ SaveInv'
    BY <1>3 DEF LoadFromFile, FileInv, SaveInv
  <2> QED
    BY <2>2, <2>3
<1>4. CASE OnFrame
  <2>1. PICK map \in Section : SetAttributes(map)
    BY <1>4 DEF OnFrame, Section
  <2>2. TypeOK' /\ MemoryInv'
    BY <1>4, <2>1, SetAttributesInv DEF OnFrame, TypeOK, MemoryInv, Running
  <2>3. FileInv' /\ SaveInv'
    BY <1>4 DEF OnFrame, FileInv, SaveInv
  <2> QED
    BY <2>2, <2>3
<1>5. CASE SaveRead
  <2>1. TypeOK'
    BY <1>5 DEF SaveRead, TypeOK, File
  <2>2. MemoryInv' /\ FileInv' /\ SaveInv'
    BY <1>5 DEF SaveRead, MemoryInv, Running, FileInv, SaveInv
  <2> QED
    BY <2>1, <2>2
<1>6. CASE SaveOpen
  <2>1. TypeOK'
    BY <1>6 DEF SaveOpen, TypeOK
  <2>2. MemoryInv' /\ FileInv' /\ SaveInv'
    BY <1>6 DEF SaveOpen, MemoryInv, Running, FileInv, SaveInv
  <2> QED
    BY <2>1, <2>2
<1>7. CASE SaveWrite
  <2>1. TypeOK'
    BY <1>7 DEF SaveWrite, TypeOK
  <2>2. MemoryInv' /\ FileInv' /\ SaveInv'
    BY <1>7 DEF SaveWrite, MemoryInv, Running, FileInv, SaveInv
  <2> QED
    BY <2>1, <2>2
<1>8. CASE SaveRename
  <2>1. TypeOK'
    BY <1>8 DEF SaveRename, TypeOK
  <2>2. MemoryInv' /\ SaveInv'
    BY <1>8 DEF SaveRename, MemoryInv, Running, SaveInv
  <2>3. FileInv'
    BY <1>8 DEF SaveRename, FileInv, SaveInv, Torn, Whole
  <2> QED
    BY <2>1, <2>2, <2>3
<1>9. CASE Crash
  <2>1. TypeOK'
    BY <1>9, ConfigAssumption DEF Crash, TypeOK, Defaults, Empty, Section
  <2>2. MemoryInv'
    BY <1>9 DEF Crash, MemoryInv, Running, Defaults, Empty
  <2>3. FileInv' /\ SaveInv'
    BY <1>9 DEF Crash, FileInv, SaveInv
  <2> QED
    BY <2>1, <2>2, <2>3
<1>10. CASE UNCHANGED vars
  BY <1>10 DEF vars, TypeOK, MemoryInv, Running, FileInv, SaveInv
<1> QED
  BY <1>1, <1>2, <1>3, <1>4, <1>5, <1>6, <1>7, <1>8, <1>9, <1>10 DEF Next

(* The invariant holds in every state, whatever fails and when.             *)
THEOREM Invariance == Spec => []IInv
BY InitIInv, NextIInv, PTL DEF Spec

(* Save never drops the other sections of the file unless one of its own    *)
(* accesses fails.                                                          *)
THEOREM SectionsKept == Spec => OthersKept
<1>1. ASSUME IInv, [Next]_vars, ~UNCHANGED vars, file.others = "yes", failed' = "no"
      PROVE  file'.others = "yes"
  <2>1. file.state = "whole" /\ pc # "create"
    BY <1>1 DEF IInv, FileInv, Torn
  <2>2. CASE SaveRename
    BY <1>1, <2>2 DEF SaveRename, IInv, SaveInv, Whole
  <2>3. CASE ~SaveRename
    BY <1>1, <2>1, <2>3 DEF Next, Start, Create, LoadFromFile, OnFrame, SaveRead, SaveOpen,
                            SaveWrite, Crash
  <2> QED
    BY <2>2, <2>3
<1> QED
  BY <1>1, Invariance, PTL DEF Spec, OthersKept

(* A store is what the next run starts with; it is written at once, and a   *)
(* crash leaves it alone.                                                   *)
THEOREM FileIsStore == Spec => StoreSpec
<1>1. Init => Store!Init
  <2> SUFFICES ASSUME Init
               PROVE  Store!Init
    OBVIOUS
  <2>1. TypeOK /\ Running = "no"
    BY InitIInv DEF IInv, Init, Running
  <2> QED
    BY <2>1, LoadedType DEF Store!Init, Store!Settings, Store!Defaults, Defaults
<1>2. IInv /\ [Next]_vars => [Store!Next]_Store!vars
  <2> SUFFICES ASSUME IInv, [Next]_vars
               PROVE  [Store!Next]_Store!vars
    OBVIOUS
  <2>0. Store!Defaults = Defaults
    BY DEF Store!Defaults, Defaults
  <2>1. CASE Start
    <3>1. Running = "no" /\ Running' = "no"
      BY <2>1 DEF Start, Running
    <3>2. Loaded' = Loaded
      <4>1. CASE file' = file
        BY <4>1 DEF Loaded
      <4>2. CASE file' = Torn /\ file.section = Empty
        BY <4>2 DEF Loaded, Torn
      <4> QED
        BY <2>1, <4>1, <4>2 DEF Start, IInv, FileInv
    <3> QED
      BY <3>1, <3>2 DEF Store!vars
  <2>2. CASE Create
    <3>1. Running = "no" /\ Running' = "no"
      BY <2>2 DEF Create, Running
    <3>2. file.section = Empty /\ file'.section = Empty
      BY <2>2 DEF Create, IInv, FileInv, Torn, Whole
    <3> QED
      BY <3>1, <3>2 DEF Store!vars, Loaded
  <2>3. CASE LoadFromFile
    <3>1. Running = "no" /\ Running' = "yes" /\ file' = file
      BY <2>3 DEF LoadFromFile, Running
    <3>2. \/ attributes' = Loaded
          \/ attributes' = Defaults /\ failed' = "yes"
      BY <2>3, LoadStarts
    <3>3. Loaded' = Loaded
      BY <3>1 DEF Loaded
    <3> QED
      BY <2>0, <3>1, <3>2, <3>3 DEF Store!Next, Store!Start
  <2>4. CASE OnFrame
    <3>1. Running = "yes" /\ Running' = "yes" /\ file' = file
      BY <2>4 DEF OnFrame, Running
    <3>2. attributes' \in [Names -> Values]
      BY <2>4, NextIInv DEF IInv, TypeOK
    <3> QED
      BY <3>1, <3>2 DEF Store!Next, Store!Change, Store!Settings, Loaded
  <2>5. CASE SaveRead \/ SaveOpen \/ SaveWrite \/ UNCHANGED vars
    <3>1. Running' = Running /\ UNCHANGED <<attributes, file>>
      BY <2>5 DEF SaveRead, SaveOpen, SaveWrite, vars, Running
    <3> QED
      BY <3>1 DEF Store!vars, Loaded
  <2>6. CASE SaveRename
    <3>1. Running = "yes" /\ Running' = "yes" /\ attributes' = attributes
      BY <2>6 DEF SaveRename, Running
    <3>2. CASE file' = file
      BY <3>1, <3>2 DEF Store!vars, Loaded
    <3>3. CASE file' = tmp
      BY <2>0, <2>6, <3>1, <3>3, RenameStores DEF Store!Next, Store!Store
    <3> QED
      BY <2>6, <3>2, <3>3 DEF SaveRename
  <2>7. CASE Crash
    <3>1. Running' = "no" /\ file' = file
      BY <2>7 DEF Crash, Running
    <3> QED
      BY <2>0, <3>1 DEF Store!Next, Store!Stop, Loaded
  <2> QED
    BY <2>1, <2>2, <2>3, <2>4, <2>5, <2>6, <2>7 DEF Next
<1> QED
  BY <1>1, <1>2, Invariance, PTL DEF Spec, StoreSpec, Store!Spec

(* Between two Saves the next run would start with what the user sees,      *)
(* unless the last load or Save failed.                                     *)
THEOREM SettingsAreSaved == Spec => []SavedAsSeen
<1>1. IInv => SavedAsSeen
  BY DEF IInv
<1> QED
  BY <1>1, Invariance, PTL
=============================================================================
