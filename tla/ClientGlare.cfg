CONSTANTS
  MaxSkipChains = 1
  MaxSkipElements = 2
  HeaderLimit = 4
  Openers = {"Alice", "Bob"}
  EagerSend = FALSE
  MaxOffers = 1
  MaxSend = 1
  MaxCloses = 0
  MaxFaults = 0
  MaxExits = 0
  MaxCrashes = 0
SPECIFICATION Spec
INVARIANT TextsReadable
CHECK_DEADLOCK FALSE
