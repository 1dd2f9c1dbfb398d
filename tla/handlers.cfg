SPECIFICATION HandlersSpec
CONSTANTS
  PipeSize = 2
  MaxOutput = 3
  MaxWritten = 5
  MaxHops = 5
INVARIANTS
  HandlersTypeOK
  OutputComplete
  ResultsTruthful
PROPERTIES
  WritesAreWhole
  ShellReturns
