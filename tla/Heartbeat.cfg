\* Two clients, two callbacks, spurious wake-ups; the thread may end for good.
CONSTANTS
  Client = {ui, leap}
  Callback = {momentum, other}
  NoCallback = NoCallback
  Spurious = TRUE
SPECIFICATION Spec
INVARIANT NoLostWakeup
PROPERTIES DestructorReturns  ImplementsTimer
CHECK_DEADLOCK FALSE
