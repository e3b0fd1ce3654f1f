CONSTANTS
  MaxSkipChains = 1
  MaxSkipElements = 2
  HeaderLimit = 4
  Openers = {"Bob"}
  EagerSend = FALSE
  MaxOffers = 2
  MaxSend = 3
  MaxCloses = 2
  MaxFaults = 0
  MaxExits = 1
  MaxCrashes = 0
SPECIFICATION Spec
INVARIANTS
  OneSession
  TextsReadable
PROPERTY
  AnswerEndsWait
CHECK_DEADLOCK FALSE
