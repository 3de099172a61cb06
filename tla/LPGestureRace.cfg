\* The tracking thread and the user-interface thread both call the gesture.
CONSTANTS
  Caller = {leap, ui}
  Canceller = {ui}
  MaxSpeed = 2
  HistorySize = 1
SPECIFICATION Spec
INVARIANT MomentumAttended
CHECK_DEADLOCK FALSE
