CONSTANTS
  Specs <- FullArtifact
  Classes <- OneClass
  Objects <- OneProducer
  Ops = {}
  Faults = {}
  MaxAttempts = 2
  MaxRuns = 4
  MaxOps = 0
  MaxFaults = 0
  MaxStale = 0
  MaxWrites = 1
SPECIFICATION FairSpec
 
PROPERTIES Settles ReadyIsCurrent
