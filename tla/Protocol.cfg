CONSTANTS
  Specs <- FullArtifact
  Classes <- OneClass
  Objects <- Nothing
  Ops = {"retry", "vanish"}
  Faults = {"patch", "crash", "create", "alien", "get"}
  MaxAttempts = 2
  MaxRuns = 3
  MaxOps = 1
  MaxFaults = 1
  MaxStale = 1
  MaxWrites = 0
SPECIFICATION Spec
INVARIANTS TypeOK RefIsLatestAttempt FailuresAreDistinctRuns SingleFlight Ledger FlightInv
PROPERTIES RunNamesMoveForward BudgetRespected  AttemptsContract
CHECK_DEADLOCK FALSE
