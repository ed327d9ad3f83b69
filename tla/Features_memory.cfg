SPECIFICATION FairSpec
CONSTANTS
  Clusters <- OneCluster
  MaxFaults = 0
  MaxEdits = 2
PROPERTY DisabledIsTakenDown
