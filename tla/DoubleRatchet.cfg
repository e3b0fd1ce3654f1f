CONSTANTS
  MaxSkipChains = 2
  MaxSkipElements = 1
  HeaderLimit = 4
  MaxSend <- SendsMany
SPECIFICATION Spec
INVARIANTS
  TypeOK
  KeysNeverReused
  ChainsAgree
  FreshDecryptable
  ReplayRejected
  BufferWellFormed
CHECK_DEADLOCK FALSE
