CONSTANTS
  Specs <- EndingArtifacts
  Classes <- OneClass
  Objects <- OneProducer
  Ops = {"flip", "delete"}
  Faults = {"cancel", "store", "delete", "ttl", "patch", "deadline"}
  MaxAttempts = 2
  MaxRuns = 2
  MaxOps = 1
  MaxFaults = 1
  MaxStale = 0
  MaxWrites = 0
SPECIFICATION FairSpec
INVARIANT GraceIsOwn
PROPERTIES SensorLetsGo DeletionCompletes
CHECK_DEADLOCK FALSE
