CONSTANTS
  Specs <- FullArtifact
  Classes <- RegenerateClass
  Objects <- TwoProducers
  Ops = {}
  Faults = {}
  MaxAttempts = 2
  MaxRuns = 2
  MaxOps = 0
  MaxFaults = 0
  MaxStale = 0
  MaxWrites = 1
SPECIFICATION Spec
PROPERTY DriftIsRebuilt
CHECK_DEADLOCK FALSE
