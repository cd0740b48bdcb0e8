CONSTANTS
  Specs <- FullArtifact
  Classes <- OneClass
  Objects <- Nothing
  Ops = {"vanish"}
  Faults = {"patch"}
  MaxAttempts = 2
  MaxRuns = 2
  MaxOps = 1
  MaxFaults = 1
  MaxStale = 1
  MaxWrites = 0
SPECIFICATION Spec
INVARIANT GraceIsOwn
CHECK_DEADLOCK FALSE
