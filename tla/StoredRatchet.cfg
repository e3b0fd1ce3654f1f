CONSTANTS
  MaxSkipChains = 2
  MaxSkipElements = 1
  HeaderLimit = 3
  MaxSend = 5
  MaxFaults = 2
  MaxExits = 1
  MaxCrashes = 1
SPECIFICATION Spec
INVARIANTS
  TypeOK
  FilesAgree
  ConfirmedKeysUnique
  FirstReadSucceeds
  OpenedOnce
PROPERTY
  DeliverySpec
CHECK_DEADLOCK FALSE
