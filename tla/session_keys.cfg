SPECIFICATION SessionSpec
CONSTANTS
  NoKey = NoKey
  Torn = Torn
  MaxKeys = 3
  MaxServerKeys = 3
  ChainLimit = 2
INVARIANTS
  SessionTypeOK
  ServerKeyOnDisk
  AtMostOneBehind
  SwapRecoverable
  KeyLineage
  ChainWalkCovers
PROPERTY KeyFileFollowsServer
CHECK_DEADLOCK FALSE
