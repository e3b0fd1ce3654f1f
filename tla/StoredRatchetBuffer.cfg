CONSTANTS
  MaxSkipChains = 2
  MaxSkipElements = 1
  HeaderLimit = 3
  MaxSend = 7
  MaxFaults = 2
  MaxExits = 0
  MaxCrashes = 0
SPECIFICATION Spec
INVARIANT SkippedKeysSurvive
CHECK_DEADLOCK FALSE
