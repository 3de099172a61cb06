CONSTANTS
  MaxPointables = 2
  Jumpy = FALSE
  Hand = {"h1"}
  Outputs = {"touch"}
  Cooldown = 1
  Recognition = 1
SPECIFICATION Spec
INVARIANT TouchPointsAreTouches
