CONSTANTS
  Mode = {"Disabled", "Basic"}
  Displays = {1, 2}
  Counting = {"active", "one", "none"}
  MaxQueue = 2
SPECIFICATION Spec
INVARIANTS ThreadsAgree MenuShowsDevice ChoiceIsKept ScreensFollow
PROPERTY ConnectReturns
