SPECIFICATION SelfUpdateSpec
CONSTANTS
  service1 = service1
  cli1 = cli1
  Process <- Processes
  MaxUpdates = 2
  MaxAttempts = 2
INVARIANTS
  SelfUpdateTypeOK
  DownJustified
  OldVersionExplained
  FailureLeavesNoPackage
  ProgramInPlace
  OnlyVerified
PROPERTIES
  ServiceReturns
  RefinesAtomicReplace
CHECK_DEADLOCK FALSE
