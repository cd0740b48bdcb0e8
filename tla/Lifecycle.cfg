CONSTANTS
  Specs <- AgingArtifacts
  Classes <- OneClass
  Objects <- AllStamps
  Ops = {"delete"}
  Faults = {"store", "delete", "ttl", "patch"}
  MaxAttempts = 2
  MaxRuns = 2
  MaxOps = 1
  MaxFaults = 1
  MaxStale = 1
  MaxWrites = 0
SPECIFICATION Spec
INVARIANTS  NoLostWakeup WakeInv
PROPERTIES DeletedMeansDeleted ForeignIsLeftAlone 
CHECK_DEADLOCK FALSE
