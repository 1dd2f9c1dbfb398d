SPECIFICATION FairSpec
CONSTANTS
  c1 = c1
  c2 = c2
  c3 = c3
  Command <- ThreeCommands
  SelfUpdate = SelfUpdate
  NoOp = NoOp
  NoTask = NoTask
  Capacity = 2
  MaxPullFailures = 2
  MaxBatch = 2
  MaxAccepted = 4
  MaxSessions = 2
INVARIANTS
  TypeOK
  AnsweredInOrder
  ResultsMatchHandlings
  WindowInStep
PROPERTIES
  RefinesBoundedDedup
  BatchDrains
CHECK_DEADLOCK FALSE
