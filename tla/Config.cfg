CONSTANTS
  Names = {mode, monitors, box, hidden}
  Public = {mode, monitors, box}
  Changed = {mode, monitors}
  Values = {v0, v1}
  Default = v0
  Unset = Unset
SPECIFICATION Spec
PROPERTIES
  StoreSpec
  OthersKept
INVARIANT
  SavedAsSeen
