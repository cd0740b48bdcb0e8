CONSTANTS
  Specs <- FullArtifact
  Classes <- OneClass
  Objects <- Nothing
  Ops = {"flip"}
  Faults = {"patch"}
  MaxAttempts = 2
  MaxRuns = 1
  MaxOps = 1
  MaxFaults = 1
  MaxStale = 0
  MaxWrites = 0
SPECIFICATION Spec
INVARIANT SensorHasNoRun
CHECK_DEADLOCK FALSE
