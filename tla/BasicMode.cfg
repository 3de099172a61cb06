\* Mouse output and touch output, each from its own initial state.
CONSTANTS
  MaxPointables = 2
  Jumpy = FALSE
  Hand = {"h1"}
  Outputs = {"mouse", "touch"}
  Cooldown = 1
  Recognition = 1
SPECIFICATION Spec
INVARIANTS OutputOwned EmptyOrGoneIsQuiet HandTouchesAreReal
PROPERTIES OutputSpec ChainsShorten FrameCompletes ClicksEnd
