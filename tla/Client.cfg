CONSTANTS
  MaxSkipChains = 1
  MaxSkipElements = 2
  HeaderLimit = 4
  Openers = {"Alice", "Bob"}
  EagerSend = FALSE
  MaxOffers = 1
  MaxSend = 2
  MaxCloses = 1
  MaxFaults = 1
  MaxExits = 0
  MaxCrashes = 1
SPECIFICATION Spec
INVARIANTS
  TypeOK
  SentKeysUnique

  
CHECK_DEADLOCK FALSE
