SPECIFICATION FairSpec
CONSTANTS
  Clusters <- TwoClusters
  MaxFaults = 1
  MaxEdits = 2
INVARIANT TypeOK
PROPERTIES ForgetsOnlyWhenClean ReadyIsTrue Settles
