CONSTANTS
  Classes <- OnlyAMI
  MaxPuts = 1
  MaxFaults = 1
  Labelled = {}
  Indexes = {}
  EarlyExpiry = 2
  Timeout = 1
  Lifetimes = {2}
  MaxTime = 4
  Devices = {"root", "data"}
  Ephemeral = {}
  deleteSnapshots = TRUE
SPECIFICATION Spec
INVARIANT SnapshotsDeleted
CHECK_DEADLOCK FALSE
