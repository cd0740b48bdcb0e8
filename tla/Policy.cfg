CONSTANTS
  Specs <- FullArtifact
  Classes <- ClassVersions
  Objects <- OneProducer
  Ops = {"flip", "suspend", "class"}
  Faults = {"cancel", "get"}
  MaxAttempts = 2
  MaxRuns = 1
  MaxOps = 2
  MaxFaults = 1
  MaxStale = 1
  MaxWrites = 1
SPECIFICATION Spec
INVARIANT NoLostWakeup
PROPERTY RunningRunIsNotForgotten
CHECK_DEADLOCK FALSE
