CONSTANTS
  Classes <- AllDrivers
  MaxPuts = 2
  MaxFaults = 2
  Labelled = {2}
  Indexes = {1}
  EarlyExpiry = 2
  Timeout = 1
  Lifetimes = {1, 3}
  MaxTime = 7
  Devices = {"root", "data", "scratch"}
  Ephemeral = {"scratch"}
  deleteSnapshots = TRUE
SPECIFICATION FairSpec
INVARIANTS TypeOK ImageKeepsSnapshots SnapshotInv TokenOutlivesRequest ForeignIsRecognised
PROPERTIES DriverContract DeletionEnds  OtherTagsKeepContent
CHECK_DEADLOCK FALSE
