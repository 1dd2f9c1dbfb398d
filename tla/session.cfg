SPECIFICATION FairSpec
CONSTANTS
  c1 = c1
  Command <- OneCommand
  NoId = NoId
  NoTags = NoTags
  MaxHeartbeatFailures = 2
  MaxPullFailures = 2
  MaxBatch = 1
  MaxRefreshes = 1
INVARIANTS
  TypeOK
  StopJustified
  NoGhostCommand
  TagsAccounted
PROPERTIES
  TagsMoveForward
  StopEndsSession
  SilenceEndsSession
  HeartbeatsFlow
