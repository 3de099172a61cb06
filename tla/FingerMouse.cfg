CONSTANTS
  MaxPointables = 4
  Jumpy = FALSE
  DragDelay = 1
  Recognition = 1
SPECIFICATION Spec
INVARIANT EmptySceneIsQuiet
PROPERTIES ClicksLast DragsAreHeld ChainsShorten OutputSpec
