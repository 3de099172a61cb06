CONSTANTS
  Window = 4
  Cooldown = 2
SPECIFICATION Spec
INVARIANT EmptySceneIsQuiet
PROPERTIES SwipesAreSpaced ChainsShorten OutputSpec
