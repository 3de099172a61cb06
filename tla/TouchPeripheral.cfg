\* The left edge behaves as the right one and is left out.
CONSTANTS
  TouchIds = {0, 1, 2}
  MaxTouchCount = 2
  Places = {"inside", "margin", "right", "top", "far"}
SPECIFICATION Spec
CHECK_DEADLOCK FALSE
INVARIANTS
  SystemFollows
  IconsFollow
PROPERTY
  CharmsUntouched
