CONSTANTS
  MaxSkipChains = 2
  MaxSkipElements = 2
  HeaderLimit = 3
  MaxSend <- SendsFew
SPECIFICATION AnyOrderSpec
INVARIANTS
  ChainsAgree
CHECK_DEADLOCK FALSE
