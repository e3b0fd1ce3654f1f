CONSTANTS
  MaxSkipChains = 2
  MaxSkipElements = 1
  HeaderLimit = 3
  MaxSend = 3
SPECIFICATION Spec
INVARIANTS
  TypeOK
  EstablishedAgree
  AckEstablishes
  DataReadable
PROPERTY
  OfferLeadsToSession
CHECK_DEADLOCK FALSE
