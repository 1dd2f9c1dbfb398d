SPECIFICATION SelfUpdateSpec
CONSTANTS
  service1 = service1
  cli1 = cli1
  Process <- Processes
  MaxUpdates = 1
  MaxAttempts = 0
PROPERTY FailsafeRestores
CHECK_DEADLOCK FALSE
