\* One caller and its timer thread.
CONSTANTS
  Caller = {leap}
  Canceller = {}
  MaxSpeed = 3
  HistorySize = 2
SPECIFICATION Spec
INVARIANT TypeOK
PROPERTIES StreamWellFormed MomentumEnds CallsReturn
CHECK_DEADLOCK FALSE
