CONSTANTS
  Specs <- DeleteArtifacts
  Classes <- OneClass
  Objects <- OursAndForeign
  Ops = {"delete"}
  Faults = {}
  MaxAttempts = 2
  MaxRuns = 1
  MaxOps = 1
  MaxFaults = 0
  MaxStale = 0
  MaxWrites = 1
SPECIFICATION Spec
PROPERTY ForeignIsNotDeleted
CHECK_DEADLOCK FALSE
