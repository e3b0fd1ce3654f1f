CONSTANTS
  KeyLen = 32
  SigLen = 64
  TimeLen = 6
  EntropyLen = 10
  RandomLen = 7
  BlockSize = 16
  MacLen = 32
  BoxLen = 48
  Uuids <- MCUuids
  Keys <- MCKeys
  Sigs <- MCSigs
  Nicks <- MCNicks
  Plaintexts <- MCPlaintexts
  Times <- MCTimes
  Numbers <- MCNumbers
SPECIFICATION Spec
INVARIANTS
  PathFaithful
  Routed
CHECK_DEADLOCK FALSE
