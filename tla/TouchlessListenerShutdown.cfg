CONSTANTS
  Mode = {"Disabled", "Basic"}
  Displays = {2}
  Counting = {"none"}
  MaxQueue = 2
SPECIFICATION Spec
INVARIANT ShutdownIsQuiet
